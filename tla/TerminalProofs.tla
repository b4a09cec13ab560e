-------------------------- MODULE TerminalProofs --------------------------
(***************************************************************************)
(* The two terminals, proved for lines of any characters and any length, a *)
(* history ring of any size, any keys, and KISS frames of any bytes and    *)
(* length on a line that may lose them.                                    *)
(*                                                                         *)
(* The history: as long as no store has been interrupted by another, the   *)
(* slots before the head hold the last lines of the log, newest first      *)
(* (HoldsLog), and the index with which a terminal walks is that many      *)
(* slots before the head as its user's line is lines before the newest     *)
(* (InPlace).  Moving the head at the other terminal moves the log by one  *)
(* line, and so keeps them apart by as much.  While a line is being copied *)
(* over the oldest one of a full ring, that slot holds neither: nobody who *)
(* shows it is said to be at a line.  The UART terminal's store cannot go  *)
(* on before the USB terminal has shown what it has chosen (NotShowing).   *)
(*                                                                         *)
(* The KISS link: while a frame is on its way, what the receiver has in    *)
(* its buffer and what is still to be sent make the frame (Carried), or it *)
(* has overrun the buffer and the receiver waits for its end.  The first   *)
(* byte of the frame reaches the receiver because no ANSI sequence is open *)
(* when the host begins, and none can begin before that byte arrives.      *)
(***************************************************************************)
EXTENDS Terminal, SequenceTheorems, TLAPS

\* What the variables hold.
WalkOf == [at : Nat, kept : BOOLEAN, fresh : BOOLEAN, line : Line, cursor : 0 .. CmdBufLen]
Sender == [stage : {"silent", "start", "data", "escape"}, left : Seq(Byte)]
HostOf == [frame : Seq(Byte), out : Sender, whole : BOOLEAN, leaked : BOOLEAN,
           taken : Seq(Seq(Byte))]

Pc == {"idle", "show"} \cup Storing

\* Types, by what the steps touch together: the lines and the walks through the
\* history, ...
LineOK ==
    /\ line \in [Tty -> Line] /\ cursor \in [Tty -> 0 .. CmdBufLen]
    /\ nav \in [Tty -> Nav]
    /\ pc \in [Tty -> Pc]
    /\ walk \in [Tty -> WalkOf]
    /\ \A t \in Tty : cursor[t] <= Len(line[t]) /\ nav[t].at <= Len(nav[t].saved)

\* ... the ring and the stores under way, ...
RingOK ==
    /\ cmd_history \in [0 .. Slots - 1 -> Line]
    /\ cmd_history_head \in 0 .. Slots - 1 /\ cmd_history_count \in 0 .. Slots
    /\ store \in [Tty -> [slot : 0 .. Slots - 1, count : 0 .. Slots, cut : BOOLEAN]]
    /\ log \in Seq(Line) /\ torn \in BOOLEAN

\* ... the KISS link.
LinkOK ==
    /\ esc \in [Tty -> Esc]
    /\ kiss \in [Tty -> Receiver] /\ kiss_age \in [Tty -> 0 .. KissTimeout]
    /\ host \in [Tty -> HostOf]
    /\ \A t \in Tty :
        /\ Len(kiss[t].buf) <= KissPacketLen
        /\ host[t].out.stage = "escape" =>
             host[t].out.left # <<>> /\ host[t].out.left[1] \in {"FEND", "FESC"}

-----------------------------------------------------------------------------
(* The ring of slots *)

\* A step round the ring is at most one turn.
LEMMA SlotIs ==
    \A i \in 0 .. 2 * Slots - 1 : Slot(i) = IF i < Slots THEN i ELSE i - Slots
<1> SUFFICES ASSUME NEW i \in 0 .. 2 * Slots - 1
             PROVE  Slot(i) = IF i < Slots THEN i ELSE i - Slots
  OBVIOUS
<1>1. CASE i \in 0 .. Slots - 1
  BY <1>1, TerminalAssumption, SMTT(20) DEF Slot
<1>2. CASE i \in Slots .. 2 * Slots - 1
  BY <1>2, TerminalAssumption, SMTT(20) DEF Slot
<1> QED
  BY <1>1, <1>2, TerminalAssumption

\* So it stays in the ring.
LEMMA SlotInRing == \A i \in 0 .. 2 * Slots - 1 : Slot(i) \in 0 .. Slots - 1
BY SlotIs, TerminalAssumption
-----------------------------------------------------------------------------
(* Lines *)

\* No characters are a line.
LEMMA EmptyLine == <<>> \in Line
BY TerminalAssumption DEF Line

\* A part of a line is one.
LEMMA PartOfLine ==
    ASSUME NEW l \in Line, NEW m \in 1 .. Len(l) + 1, NEW n \in 0 .. Len(l)
    PROVE  /\ SubSeq(l, m, n) \in Seq(Printable)
           /\ Len(SubSeq(l, m, n)) = IF m <= n THEN n - m + 1 ELSE 0
<1>1. l \in Seq(Printable) /\ Len(l) \in Nat
  BY DEF Line
<1>2. m \in Int /\ n \in Int
  BY <1>1
<1>3. \A i \in m .. n : l[i] \in Printable
  BY <1>1, <1>2
<1> QED
  BY <1>1, <1>2, <1>3, SubSeqProperties

\* A line is what is before its cursor and what is after.
LEMMA LineAround ==
    ASSUME LineOK, NEW t \in Tty
    PROVE  /\ line[t] \in Line /\ line[t] \in Seq(Printable) /\ Len(line[t]) \in 0 .. CmdBufLen
           /\ cursor[t] \in 0 .. Len(line[t])
           /\ Before(t) \in Seq(Printable) /\ Len(Before(t)) = cursor[t]
           /\ After(t) \in Seq(Printable) /\ Len(After(t)) = Len(line[t]) - cursor[t]
<1>1. line[t] \in Line /\ cursor[t] \in 0 .. CmdBufLen /\ cursor[t] <= Len(line[t])
  BY DEF LineOK
<1>2. line[t] \in Seq(Printable) /\ Len(line[t]) \in Nat /\ Len(line[t]) <= CmdBufLen
  BY <1>1 DEF Line
<1>3. Len(line[t]) \in 0 .. CmdBufLen /\ cursor[t] \in 0 .. Len(line[t])
  BY <1>1, <1>2, TerminalAssumption
<1>4. Before(t) \in Seq(Printable) /\ Len(Before(t)) = cursor[t]
  <2>1. 1 \in 1 .. Len(line[t]) + 1 /\ cursor[t] \in 0 .. Len(line[t])
    BY <1>2, <1>3
  <2>2. /\ Before(t) \in Seq(Printable)
        /\ Len(Before(t)) = IF 1 <= cursor[t] THEN cursor[t] - 1 + 1 ELSE 0
    BY <1>1, <2>1, PartOfLine DEF Before
  <2> QED
    BY <2>1, <2>2
<1>5. After(t) \in Seq(Printable) /\ Len(After(t)) = Len(line[t]) - cursor[t]
  <2>1. cursor[t] + 1 \in 1 .. Len(line[t]) + 1 /\ Len(line[t]) \in 0 .. Len(line[t])
    BY <1>2, <1>3
  <2>2. /\ After(t) \in Seq(Printable)
        /\ Len(After(t)) = IF cursor[t] + 1 <= Len(line[t])
                             THEN Len(line[t]) - (cursor[t] + 1) + 1 ELSE 0
    BY <1>1, <2>1, PartOfLine DEF After
  <2> QED
    BY <1>2, <1>3, <2>2
<1> QED
  BY <1>1, <1>2, <1>3, <1>4, <1>5

\* A line with a character inserted at the cursor is a line.
LEMMA InsertedLine ==
    ASSUME LineOK, NEW t \in Tty, NEW b \in Printable, Len(line[t]) < CmdBufLen
    PROVE  /\ Append(Before(t), b) \o After(t) \in Line
           /\ cursor[t] + 1 \in 0 .. CmdBufLen
           /\ cursor[t] + 1 <= Len(Append(Before(t), b) \o After(t))
<1> DEFINE l == Append(Before(t), b)
<1>1. /\ Len(line[t]) \in Nat /\ cursor[t] \in 0 .. Len(line[t])
      /\ Before(t) \in Seq(Printable) /\ Len(Before(t)) = cursor[t]
      /\ After(t) \in Seq(Printable) /\ Len(After(t)) = Len(line[t]) - cursor[t]
  BY LineAround
<1>2. l \in Seq(Printable) /\ Len(l) = cursor[t] + 1
  BY <1>1, AppendProperties
<1> HIDE DEF l
<1>3. l \o After(t) \in Seq(Printable) /\ Len(l \o After(t)) = Len(l) + Len(After(t))
  BY <1>1, <1>2, ConcatProperties
<1>4. Len(l \o After(t)) = Len(line[t]) + 1
  BY <1>1, <1>2, <1>3
<1>5. l \o After(t) \in Line
  BY <1>1, <1>3, <1>4, TerminalAssumption DEF Line
<1> QED
  BY <1>1, <1>4, <1>5, TerminalAssumption DEF l

\* What a backspace leaves is a line, ...
LEMMA BackspacedLine ==
    ASSUME LineOK, NEW t \in Tty, cursor[t] > 0
    PROVE  /\ SubSeq(line[t], 1, cursor[t] - 1) \o After(t) \in Line
           /\ cursor[t] - 1 \in 0 .. CmdBufLen
           /\ cursor[t] - 1 <= Len(SubSeq(line[t], 1, cursor[t] - 1) \o After(t))
<1> DEFINE l == SubSeq(line[t], 1, cursor[t] - 1)
<1>1. /\ line[t] \in Line
      /\ Len(line[t]) \in 0 .. CmdBufLen /\ cursor[t] \in 0 .. Len(line[t])
      /\ After(t) \in Seq(Printable) /\ Len(After(t)) = Len(line[t]) - cursor[t]
  BY LineAround
<1>2. 1 \in 1 .. Len(line[t]) + 1 /\ cursor[t] - 1 \in 0 .. Len(line[t])
  BY <1>1, TerminalAssumption
<1>3. l \in Seq(Printable) /\ Len(l) = IF 1 <= cursor[t] - 1 THEN cursor[t] - 1 - 1 + 1 ELSE 0
  BY <1>1, <1>2, PartOfLine
<1>4. Len(l) = cursor[t] - 1
  BY <1>1, <1>2, <1>3, TerminalAssumption
<1> HIDE DEF l
<1>5. l \o After(t) \in Seq(Printable) /\ Len(l \o After(t)) = Len(l) + Len(After(t))
  BY <1>1, <1>3, ConcatProperties
<1>6. Len(l \o After(t)) = Len(line[t]) - 1
  <2>1. PICK n \in Nat, c \in Nat : n = Len(line[t]) /\ c = cursor[t]
    BY <1>1, TerminalAssumption
  <2>2. Len(l \o After(t)) = (c - 1) + (n - c)
    BY <1>1, <1>4, <1>5, <2>1, Zenon
  <2> QED
    BY <2>1, <2>2
<1>7. l \o After(t) \in Line
  BY <1>1, <1>5, <1>6, TerminalAssumption DEF Line
<1>8. cursor[t] - 1 \in 0 .. CmdBufLen /\ cursor[t] - 1 <= Len(line[t]) - 1
  BY <1>1, TerminalAssumption
<1> QED
  BY <1>6, <1>7, <1>8, Zenon DEF l

\* ... and what a delete leaves.
LEMMA DeletedLine ==
    ASSUME LineOK, NEW t \in Tty, cursor[t] < Len(line[t])
    PROVE  /\ Before(t) \o Tail(After(t)) \in Line
           /\ cursor[t] <= Len(Before(t) \o Tail(After(t)))
<1> DEFINE l == Tail(After(t))
<1>1. /\ Len(line[t]) \in 0 .. CmdBufLen /\ cursor[t] \in 0 .. Len(line[t])
      /\ Before(t) \in Seq(Printable) /\ Len(Before(t)) = cursor[t]
      /\ After(t) \in Seq(Printable) /\ Len(After(t)) = Len(line[t]) - cursor[t]
  BY LineAround
<1>2. After(t) # <<>>
  BY <1>1, TerminalAssumption
<1>3. l \in Seq(Printable) /\ Len(l) = Len(line[t]) - cursor[t] - 1
  BY <1>1, <1>2, HeadTailProperties
<1> HIDE DEF l
<1>4. Before(t) \o l \in Seq(Printable) /\ Len(Before(t) \o l) = Len(Before(t)) + Len(l)
  BY <1>1, <1>3, ConcatProperties
<1>5. Len(Before(t) \o l) = Len(line[t]) - 1
  BY <1>1, <1>3, <1>4, TerminalAssumption
<1>6. Before(t) \o l \in Line
  BY <1>1, <1>4, <1>5, TerminalAssumption DEF Line
<1> QED
  BY <1>1, <1>5, <1>6, TerminalAssumption DEF l
-----------------------------------------------------------------------------
(* The steps, by what they do to the lines and the history *)

\* Only t's line, walk and handler change.
Touches(t) ==
    /\ line' = [line EXCEPT ![t] = line'[t]]
    /\ cursor' = [cursor EXCEPT ![t] = cursor'[t]]
    /\ nav' = [nav EXCEPT ![t] = nav'[t]]
    /\ pc' = [pc EXCEPT ![t] = pc'[t]]
    /\ walk' = [walk EXCEPT ![t] = walk'[t]]

\* A line with a cursor in it.
NewLine(t) ==
    line'[t] \in Line /\ cursor'[t] \in 0 .. CmdBufLen /\ cursor'[t] <= Len(line'[t])

\* A key that ends the walk through the history, ...
Resets(t) ==
    /\ pc[t] = "idle" /\ Runs(t) /\ pc'[t] = "idle"
    /\ nav'[t] = NoNav /\ walk'[t] = NoWalk
    /\ UNCHANGED storeVars

\* ... and one that only touches the line.
Edits(t) ==
    /\ pc[t] = "idle" /\ Runs(t) /\ pc'[t] = "idle"
    /\ nav'[t] = nav[t] /\ walk'[t] = [walk[t] EXCEPT !.fresh = FALSE]
    /\ UNCHANGED storeVars

\* CR begins to store the line, reading the head and the count of the ring.
CrStores(t) ==
    /\ pc[t] = "idle" /\ Runs(t)
    /\ store' = [u \in Tty |->
         IF u = t
           THEN [slot |-> cmd_history_head, count |-> cmd_history_count, cut |-> FALSE]
           ELSE [store[u] EXCEPT !.cut = store[u].cut \/ pc[u] = "copy"]]
    /\ torn' = (torn \/ \E u \in Tty : pc[u] \in Storing)
    /\ pc' = [pc EXCEPT ![t] = "copy"]
    /\ UNCHANGED <<editVars, walk, ringVars, log>>

\* The steps of a terminal that the history is about.
HistStep(t) ==
    \/ Touches(t) /\ NewLine(t) /\ (Resets(t) \/ Edits(t))
    \/ Prev(t) \/ NextEntry(t) \/ Show(t)
    \/ CrStores(t) \/ StoreCopy(t) \/ StoreHead(t) \/ StoreCount(t)

HistNext ==
    UNCHANGED <<editVars, storeVars, pc, walk>> \/ \E t \in Tty : HistStep(t)

\* A key arrives when the terminal's handler has returned.
LEMMA KeyIdle ==
    ASSUME NEW t \in Tty, NEW k, Key(t, k)
    PROVE  pc[t] = "idle" /\ Runs(t)
BY Zenon DEF Key, Ready

LEMMA KeyByteIdle ==
    ASSUME NEW t \in Tty, NEW b, NEW k, KeyByte(t, b, k)
    PROVE  pc[t] = "idle" /\ Runs(t)
BY Zenon DEF KeyByte, Ready

\* Edit and ResetNav touch one terminal.
LEMMA EditTouches ==
    ASSUME LineOK, NEW t \in Tty, NEW l, NEW c, Edit(t, l, c)
    PROVE  /\ line' = [line EXCEPT ![t] = line'[t]] /\ line'[t] = l
           /\ cursor' = [cursor EXCEPT ![t] = cursor'[t]] /\ cursor'[t] = c
BY DEF LineOK, Edit

\* A step that leaves the line alone, ...
LEMMA NoEditTouches ==
    ASSUME LineOK, NEW t \in Tty, UNCHANGED <<line, cursor>>
    PROVE  /\ line' = [line EXCEPT ![t] = line'[t]] /\ line'[t] = line[t]
           /\ cursor' = [cursor EXCEPT ![t] = cursor'[t]] /\ cursor'[t] = cursor[t]
           /\ NewLine(t)
BY DEF LineOK, NewLine

\* ... ends a walk, ...
LEMMA ResetTouches ==
    ASSUME LineOK, NEW t \in Tty, ResetNav(t)
    PROVE  /\ nav' = [nav EXCEPT ![t] = nav'[t]] /\ nav'[t] = NoNav
           /\ walk' = [walk EXCEPT ![t] = walk'[t]] /\ walk'[t] = NoWalk
BY DEF LineOK, ResetNav

\* ... leaves the handler alone, ...
LEMMA SamePcTouches ==
    ASSUME LineOK, NEW t \in Tty, pc' = pc
    PROVE  pc' = [pc EXCEPT ![t] = pc'[t]] /\ pc'[t] = pc[t]
BY DEF LineOK

\* ... or touches the line without ending the walk.
LEMMA TouchedTouches ==
    ASSUME LineOK, NEW t \in Tty, Touched(t), nav' = nav
    PROVE  /\ nav' = [nav EXCEPT ![t] = nav'[t]] /\ nav'[t] = nav[t]
           /\ walk' = [walk EXCEPT ![t] = walk'[t]]
           /\ walk'[t] = [walk[t] EXCEPT !.fresh = FALSE]
BY DEF LineOK, Touched

\* Typing, deleting and giving up a line end the walk; the cursor keys do not.
LEMMA InsertIs ==
    ASSUME LineOK, NEW t \in Tty, NEW b, Insert(t, b)
    PROVE  Touches(t) /\ NewLine(t) /\ Resets(t)
<1>1. pc[t] = "idle" /\ Runs(t) /\ ResetNav(t) /\ pc' = pc /\ UNCHANGED storeVars
  BY KeyByteIdle, Zenon DEF Insert
<1>2. /\ line' = [line EXCEPT ![t] = line'[t]]
      /\ cursor' = [cursor EXCEPT ![t] = cursor'[t]] /\ NewLine(t)
  <2>1. CASE b \in Printable /\ Len(line[t]) < CmdBufLen
    <3>1. Edit(t, Append(Before(t), b) \o After(t), cursor[t] + 1)
      BY <2>1, Zenon DEF Insert
    <3>2. /\ Append(Before(t), b) \o After(t) \in Line
          /\ cursor[t] + 1 \in 0 .. CmdBufLen
          /\ cursor[t] + 1 <= Len(Append(Before(t), b) \o After(t))
      BY <2>1, InsertedLine
    <3> QED
      BY <3>1, <3>2, EditTouches, Zenon DEF NewLine
  <2>2. CASE ~(b \in Printable /\ Len(line[t]) < CmdBufLen)
    <3>1. UNCHANGED <<line, cursor>>
      BY <2>2, Zenon DEF Insert
    <3> QED
      BY <3>1, NoEditTouches, Zenon
  <2> QED
    BY <2>1, <2>2
<1> QED
  BY <1>1, <1>2, ResetTouches, SamePcTouches, Zenon DEF Touches, Resets

\* Likewise a backspace, ...
LEMMA BackspaceIs ==
    ASSUME LineOK, NEW t \in Tty, Backspace(t)
    PROVE  Touches(t) /\ NewLine(t) /\ Resets(t)
<1>1. pc[t] = "idle" /\ Runs(t) /\ ResetNav(t) /\ pc' = pc /\ UNCHANGED storeVars
  BY KeyIdle, Zenon DEF Backspace
<1>2. /\ line' = [line EXCEPT ![t] = line'[t]]
      /\ cursor' = [cursor EXCEPT ![t] = cursor'[t]] /\ NewLine(t)
  <2>1. CASE cursor[t] > 0
    <3>1. Edit(t, SubSeq(line[t], 1, cursor[t] - 1) \o After(t), cursor[t] - 1)
      BY <2>1, Zenon DEF Backspace
    <3> QED
      BY <2>1, <3>1, BackspacedLine, EditTouches, Zenon DEF NewLine
  <2>2. CASE ~(cursor[t] > 0)
    <3>1. UNCHANGED <<line, cursor>>
      BY <2>2, Zenon DEF Backspace
    <3> QED
      BY <3>1, NoEditTouches, Zenon
  <2> QED
    BY <2>1, <2>2
<1> QED
  BY <1>1, <1>2, ResetTouches, SamePcTouches, Zenon DEF Touches, Resets

\* An empty line.
LEMMA EmptyNewLine ==
    ASSUME LineOK, NEW t \in Tty, Edit(t, <<>>, 0)
    PROVE  /\ line' = [line EXCEPT ![t] = line'[t]]
           /\ cursor' = [cursor EXCEPT ![t] = cursor'[t]] /\ NewLine(t)
<1>1. 0 \in 0 .. CmdBufLen /\ 0 <= Len(<<>>)
  BY TerminalAssumption
<1>2. line'[t] = <<>> /\ cursor'[t] = 0
  BY EditTouches
<1> QED
  BY <1>1, <1>2, EmptyLine, EditTouches DEF NewLine

\* Likewise control-C.
LEMMA CtrlCIs ==
    ASSUME LineOK, NEW t \in Tty, CtrlC(t)
    PROVE  Touches(t) /\ NewLine(t) /\ Resets(t)
<1>1. /\ pc[t] = "idle" /\ Runs(t) /\ ResetNav(t) /\ pc' = pc /\ UNCHANGED storeVars
      /\ Edit(t, <<>>, 0)
  BY KeyIdle, Zenon DEF CtrlC
<1> QED
  BY <1>1, EmptyNewLine, ResetTouches, SamePcTouches, Zenon DEF Touches, Resets

\* A delete edits the line and keeps the walk, ...
LEMMA DeleteIs ==
    ASSUME LineOK, NEW t \in Tty, Delete(t)
    PROVE  Touches(t) /\ NewLine(t) /\ Edits(t)
<1>1. pc[t] = "idle" /\ Runs(t) /\ Touched(t) /\ nav' = nav /\ pc' = pc /\ UNCHANGED storeVars
  BY KeyIdle, Zenon DEF Delete
<1>2. /\ line' = [line EXCEPT ![t] = line'[t]]
      /\ cursor' = [cursor EXCEPT ![t] = cursor'[t]] /\ NewLine(t)
  <2>1. CASE cursor[t] < Len(line[t])
    <3>1. Edit(t, Before(t) \o Tail(After(t)), cursor[t])
      BY <2>1, Zenon DEF Delete
    <3>2. cursor[t] \in 0 .. CmdBufLen
      BY DEF LineOK
    <3> QED
      BY <2>1, <3>1, <3>2, DeletedLine, EditTouches, Zenon DEF NewLine
  <2>2. CASE ~(cursor[t] < Len(line[t]))
    <3>1. UNCHANGED <<line, cursor>>
      BY <2>2, Zenon DEF Delete
    <3> QED
      BY <3>1, NoEditTouches, Zenon
  <2> QED
    BY <2>1, <2>2
<1> QED
  BY <1>1, <1>2, TouchedTouches, SamePcTouches, Zenon DEF Touches, Edits

\* ... and so does a cursor key.
LEMMA MoveIs ==
    ASSUME LineOK, NEW t \in Tty, MoveCursor(t)
    PROVE  Touches(t) /\ NewLine(t) /\ Edits(t)
<1>1. /\ line[t] \in Line /\ Len(line[t]) \in 0 .. CmdBufLen
      /\ cursor[t] \in 0 .. Len(line[t])
  BY LineAround
<1>2. PICK key \in EditKey, c \in 0 .. Len(line[t]) : Move(t, key, c)
  <2>1. /\ (IF cursor[t] > 0 THEN cursor[t] - 1 ELSE 0) \in 0 .. Len(line[t])
        /\ (IF cursor[t] < Len(line[t]) THEN cursor[t] + 1 ELSE cursor[t])
             \in 0 .. Len(line[t])
        /\ 0 \in 0 .. Len(line[t]) /\ Len(line[t]) \in 0 .. Len(line[t])
    BY <1>1, TerminalAssumption
  <2>2. {"left", "right", "home", "end"} \subseteq EditKey
    BY DEF EditKey
  <2> QED
    BY <2>1, <2>2, Zenon DEF MoveCursor
<1>3. /\ pc[t] = "idle" /\ Runs(t) /\ Touched(t) /\ nav' = nav /\ pc' = pc /\ UNCHANGED storeVars
      /\ Edit(t, line[t], c)
  BY <1>2, KeyIdle, Zenon DEF Move
<1>4. c \in 0 .. CmdBufLen /\ c <= Len(line[t])
  BY <1>1, <1>2, TerminalAssumption
<1>5. /\ line' = [line EXCEPT ![t] = line'[t]]
      /\ cursor' = [cursor EXCEPT ![t] = cursor'[t]] /\ NewLine(t)
  BY <1>1, <1>3, <1>4, EditTouches, Zenon DEF NewLine
<1> QED
  BY <1>3, <1>5, TouchedTouches, SamePcTouches, Zenon DEF Touches, Edits

\* CR empties the line, or begins to store it.
LEMMA CrIs ==
    ASSUME LineOK, NEW t \in Tty, Cr(t)
    PROVE  (Touches(t) /\ NewLine(t) /\ Resets(t)) \/ CrStores(t)
<1>1. pc[t] = "idle" /\ Runs(t)
  BY KeyIdle, Zenon DEF Cr
<1>2. CASE line[t] = <<>> \/ (cmd_history_count > 0 /\ LastStored = line[t])
  <2>1. ResetNav(t) /\ pc' = pc /\ UNCHANGED storeVars /\ Edit(t, <<>>, 0)
    BY <1>2, Zenon DEF Cr
  <2> QED
    BY <1>1, <2>1, EmptyNewLine, ResetTouches, SamePcTouches, Zenon DEF Touches, Resets
<1>3. CASE ~(line[t] = <<>> \/ (cmd_history_count > 0 /\ LastStored = line[t]))
  <2>1. /\ store' = [u \in Tty |->
             IF u = t
               THEN [slot |-> cmd_history_head, count |-> cmd_history_count, cut |-> FALSE]
               ELSE [store[u] EXCEPT !.cut = store[u].cut \/ pc[u] = "copy"]]
        /\ torn' = (torn \/ \E u \in Tty : pc[u] \in Storing)
        /\ pc' = [pc EXCEPT ![t] = "copy"]
        /\ UNCHANGED <<editVars, walk, ringVars, log>>
    BY <1>3, Zenon DEF Cr
  <2> QED
    BY <1>1, <2>1, Zenon DEF CrStores
<1> QED
  BY <1>2, <1>3

\* Every step is one of those.
LEMMA StepHist == LineOK /\ [Next]_vars => HistNext
<1> SUFFICES ASSUME LineOK, [Next]_vars
             PROVE  HistNext
  OBVIOUS
<1>1. CASE UNCHANGED vars
  BY <1>1, Zenon DEF vars, HistNext
<1>2. ASSUME NEW t \in Tty, NEW b, KissKey(t, b)
      PROVE  HistNext
  BY <1>2, Zenon DEF KissKey, HistNext
<1>3. ASSUME NEW t \in Tty, NEW f, HostLose(t) \/ HostBegin(t, f) \/ Tick
      PROVE  HistNext
  BY <1>3, Zenon DEF HostLose, HostBegin, Tick, HistNext
<1>4. ASSUME NEW t \in Tty, NEW b, Insert(t, b)
      PROVE  HistNext
  BY <1>4, InsertIs, Zenon DEF HistStep, HistNext
<1>5. ASSUME NEW t \in Tty, Backspace(t) \/ Delete(t) \/ MoveCursor(t) \/ CtrlC(t) \/ Cr(t)
      PROVE  HistNext
  BY <1>5, BackspaceIs, DeleteIs, MoveIs, CtrlCIs, CrIs, Zenon DEF HistStep, HistNext
<1>6. ASSUME NEW t \in Tty, Prev(t) \/ NextEntry(t) \/ Show(t) \/ StoreCopy(t) \/ StoreHead(t)
             \/ StoreCount(t)
      PROVE  HistNext
  BY <1>6, Zenon DEF HistStep, HistNext
<1>7. ASSUME Tick
      PROVE  HistNext
  BY <1>7, Zenon DEF Tick, HistNext
<1>8. ASSUME NEW t \in Tty, NoKey(t)
      PROVE  HistNext
  BY <1>8, Zenon DEF NoKey, HistNext
<1> QED
  BY <1>1, <1>2, <1>3, <1>4, <1>5, <1>6, <1>7, <1>8, Zenon DEF Next, Terminal
-----------------------------------------------------------------------------
(* Types *)


\* The place from which up goes on.
NavFrom(t) == IF nav[t].active THEN nav[t] ELSE StartNav(t)

\* Up has nowhere to go.
AtOldest(t) == cmd_history_count = 0 \/ (nav[t].active /\ nav[t].index = OldestSlot)

\* Up or down has chosen entry i.
GoesTo(t, n, i) ==
    /\ nav'[t] = [n EXCEPT !.active = TRUE, !.index = i]
    /\ pc'[t] = "show"

\* tty_history_prev.
LEMMA PrevIs ==
    ASSUME LineOK, NEW t \in Tty, Prev(t)
    PROVE  /\ Touches(t) /\ line'[t] = line[t] /\ cursor'[t] = cursor[t]
           /\ pc[t] = "idle" /\ Runs(t) /\ UNCHANGED storeVars
           /\ walk'[t] = UpFrom(t)
           /\ IF AtOldest(t)
                THEN nav'[t] = nav[t] /\ pc'[t] = "idle"
                ELSE GoesTo(t, NavFrom(t), Slot(NavFrom(t).index + Slots - 1))
<1>1. /\ pc[t] = "idle" /\ Runs(t) /\ UNCHANGED <<line, cursor>> /\ UNCHANGED storeVars
      /\ walk' = [walk EXCEPT ![t] = UpFrom(t)]
  BY KeyIdle, Zenon DEF Prev
<1>2. walk' = [walk EXCEPT ![t] = walk'[t]] /\ walk'[t] = UpFrom(t)
  BY <1>1 DEF LineOK
<1>3. CASE AtOldest(t)
  <2>1. UNCHANGED <<nav, pc>>
    BY <1>3, Zenon DEF Prev, AtOldest
  <2>2. nav' = [nav EXCEPT ![t] = nav'[t]] /\ nav'[t] = nav[t]
    BY <2>1 DEF LineOK
  <2> QED
    BY <1>1, <1>2, <1>3, <2>1, <2>2, NoEditTouches, SamePcTouches, Zenon DEF Touches
<1>4. CASE ~AtOldest(t)
  <2>1. NavTo(t, NavFrom(t), Slot(NavFrom(t).index + Slots - 1))
    BY <1>4, Zenon DEF Prev, AtOldest, NavFrom
  <2>2. /\ nav' = [nav EXCEPT ![t] = nav'[t]] /\ pc' = [pc EXCEPT ![t] = pc'[t]]
        /\ GoesTo(t, NavFrom(t), Slot(NavFrom(t).index + Slots - 1))
    BY <2>1, Zenon DEF NavTo, GoesTo, LineOK
  <2> QED
    BY <1>1, <1>2, <1>4, <2>2, NoEditTouches, Zenon DEF Touches
<1> QED
  BY <1>3, <1>4

\* Down has nowhere to go: the user is at the line being typed, or an index at the
\* head of a ring that is not full.
AtDraft(t) == ~nav[t].active \/ (nav[t].index = cmd_history_head /\ cmd_history_count < Slots)
\* Down from the newest entry.
AtNewest(t) ==
    /\ nav[t].active /\ nav[t].index # cmd_history_head
    /\ Slot(nav[t].index + 1) = cmd_history_head

\* tty_history_next.
LEMMA NextIs ==
    ASSUME LineOK, NEW t \in Tty, NextEntry(t)
    PROVE  /\ Touches(t) /\ pc[t] = "idle" /\ Runs(t) /\ UNCHANGED storeVars
           /\ walk'[t] = DownFrom(t)
           /\ IF AtNewest(t)
                THEN /\ line'[t] = nav[t].saved /\ cursor'[t] = nav[t].at
                     /\ nav'[t] = NoNav /\ pc'[t] = "idle"
                ELSE /\ line'[t] = line[t] /\ cursor'[t] = cursor[t]
                     /\ IF AtDraft(t) THEN nav'[t] = nav[t] /\ pc'[t] = "idle"
                                      ELSE GoesTo(t, nav[t], Slot(nav[t].index + 1))
<1>1. /\ pc[t] = "idle" /\ Runs(t) /\ UNCHANGED storeVars
      /\ walk' = [walk EXCEPT ![t] = DownFrom(t)]
  BY KeyIdle, Zenon DEF NextEntry
<1>2. walk' = [walk EXCEPT ![t] = walk'[t]] /\ walk'[t] = DownFrom(t)
  BY <1>1 DEF LineOK
<1>3. ~(AtDraft(t) /\ AtNewest(t))
  BY Zenon DEF AtDraft, AtNewest
<1>4. CASE AtDraft(t)
  <2>1. UNCHANGED <<editVars, pc>>
    BY <1>3, <1>4, Zenon DEF NextEntry, AtDraft, AtNewest
  <2>2. nav' = [nav EXCEPT ![t] = nav'[t]] /\ nav'[t] = nav[t]
    BY <2>1 DEF LineOK, editVars
  <2>3. UNCHANGED <<line, cursor>> /\ pc' = pc
    BY <2>1 DEF editVars
  <2> QED
    BY <1>1, <1>2, <1>3, <1>4, <2>2, <2>3, NoEditTouches, SamePcTouches, Zenon DEF Touches
<1>5. CASE AtNewest(t)
  <2>1. /\ Edit(t, nav[t].saved, nav[t].at)
        /\ nav' = [nav EXCEPT ![t] = NoNav] /\ pc' = pc
    BY <1>3, <1>5, Zenon DEF NextEntry, AtDraft, AtNewest
  <2>2. nav' = [nav EXCEPT ![t] = nav'[t]] /\ nav'[t] = NoNav
    BY <2>1 DEF LineOK
  <2>3. /\ line' = [line EXCEPT ![t] = line'[t]] /\ line'[t] = nav[t].saved
        /\ cursor' = [cursor EXCEPT ![t] = cursor'[t]] /\ cursor'[t] = nav[t].at
    BY <2>1, EditTouches
  <2>4. pc' = [pc EXCEPT ![t] = pc'[t]] /\ pc'[t] = "idle"
    BY <1>1, <2>1, SamePcTouches
  <2>5. Touches(t)
    BY <1>2, <2>2, <2>3, <2>4, Zenon DEF Touches
  <2> QED
    BY <1>1, <1>2, <1>5, <2>2, <2>3, <2>4, <2>5, Zenon
<1>6. CASE ~AtDraft(t) /\ ~AtNewest(t)
  <2>1. NavTo(t, nav[t], Slot(nav[t].index + 1)) /\ UNCHANGED <<line, cursor>>
    BY <1>6, Zenon DEF NextEntry, AtDraft, AtNewest
  <2>2. /\ nav' = [nav EXCEPT ![t] = nav'[t]] /\ pc' = [pc EXCEPT ![t] = pc'[t]]
        /\ GoesTo(t, nav[t], Slot(nav[t].index + 1))
    BY <2>1, Zenon DEF NavTo, GoesTo, LineOK
  <2> QED
    BY <1>1, <1>2, <1>6, <2>1, <2>2, NoEditTouches, Zenon DEF Touches
<1> QED
  BY <1>4, <1>5, <1>6

\* The entry chosen becomes the line.
LEMMA ShowIs ==
    ASSUME LineOK, NEW t \in Tty, Show(t)
    PROVE  /\ Touches(t) /\ pc[t] = "show" /\ Runs(t) /\ pc'[t] = "idle" /\ UNCHANGED storeVars
           /\ nav'[t] = nav[t] /\ walk'[t] = walk[t]
           /\ line'[t] = cmd_history[nav[t].index] /\ cursor'[t] = Len(line'[t])
<1>1. /\ pc[t] = "show" /\ Runs(t) /\ pc' = [pc EXCEPT ![t] = "idle"]
      /\ nav' = nav /\ walk' = walk /\ UNCHANGED storeVars
      /\ Edit(t, cmd_history[nav[t].index], Len(cmd_history[nav[t].index]))
  BY Zenon DEF Show
<1>2. /\ pc' = [pc EXCEPT ![t] = pc'[t]] /\ pc'[t] = "idle"
      /\ nav' = [nav EXCEPT ![t] = nav'[t]] /\ nav'[t] = nav[t]
      /\ walk' = [walk EXCEPT ![t] = walk'[t]] /\ walk'[t] = walk[t]
  BY <1>1 DEF LineOK
<1>3. /\ line' = [line EXCEPT ![t] = line'[t]] /\ line'[t] = cmd_history[nav[t].index]
      /\ cursor' = [cursor EXCEPT ![t] = cursor'[t]]
      /\ cursor'[t] = Len(cmd_history[nav[t].index])
  BY <1>1, EditTouches, Zenon
<1> QED
  BY <1>1, <1>2, <1>3, Zenon DEF Touches

\* Where a handler is.
LEMMA PcHas == "idle" \in Pc /\ "show" \in Pc /\ "copy" \in Pc /\ "count" \in Pc
BY DEF Pc, Storing

\* A step that touches one terminal leaves the others' state and keeps the types.
LEMMA TouchesOK ==
    ASSUME LineOK, NEW t \in Tty, Touches(t), NewLine(t),
           nav'[t] \in Nav, nav'[t].at <= Len(nav'[t].saved),
           pc'[t] \in Pc, walk'[t] \in WalkOf
    PROVE  LineOK'
<1>1. /\ line' \in [Tty -> Line] /\ cursor' \in [Tty -> 0 .. CmdBufLen]
      /\ nav' \in [Tty -> Nav] /\ walk' \in [Tty -> WalkOf]
      /\ pc' \in [Tty -> Pc]
  BY DEF LineOK, Touches, NewLine
<1>2. ASSUME NEW u \in Tty
      PROVE  cursor'[u] <= Len(line'[u]) /\ nav'[u].at <= Len(nav'[u].saved)
  <2>1. CASE u = t
    BY <2>1 DEF NewLine
  <2>2. CASE u # t
    <3>1. cursor'[u] = cursor[u] /\ line'[u] = line[u] /\ nav'[u] = nav[u]
      BY <2>2 DEF LineOK, Touches
    <3> QED
      BY <3>1, Zenon DEF LineOK
  <2> QED
    BY <2>1, <2>2
<1> QED
  BY <1>1, <1>2 DEF LineOK

\* What the keys and the copies make of a place in the history is one.
LEMMA NavOK ==
    ASSUME LineOK, RingOK, NEW t \in Tty
    PROVE  /\ NoNav \in Nav /\ NoNav.at <= Len(NoNav.saved)
           /\ nav[t] \in Nav /\ nav[t].at <= Len(nav[t].saved)
           /\ NavFrom(t) \in Nav /\ NavFrom(t).at <= Len(NavFrom(t).saved)
<1>1. NoNav \in Nav /\ NoNav.at <= Len(NoNav.saved)
  <2>1. NoNav.saved = <<>> /\ NoNav.at = 0 /\ 0 <= Len(<<>>)
    BY DEF NoNav
  <2>2. 0 \in 0 .. Slots - 1 /\ 0 \in 0 .. CmdBufLen
    BY TerminalAssumption
  <2>3. NoNav \in Nav
    BY <2>2, EmptyLine DEF NoNav, Nav
  <2> QED
    BY <2>1, <2>3
<1>2. nav[t] \in Nav /\ nav[t].at <= Len(nav[t].saved)
  BY DEF LineOK
<1>3. StartNav(t) \in Nav /\ StartNav(t).at <= Len(StartNav(t).saved)
  BY DEF LineOK, RingOK, StartNav, Nav
<1> QED
  BY <1>1, <1>2, <1>3, Zenon DEF NavFrom

\* An entry chosen is in the ring.
LEMMA GoesOK ==
    ASSUME NEW t \in Tty, NEW n \in Nav, n.at <= Len(n.saved),
           NEW i \in 0 .. Slots - 1, GoesTo(t, n, i)
    PROVE  /\ nav'[t] \in Nav /\ nav'[t].at <= Len(nav'[t].saved)
           /\ nav'[t].active = TRUE /\ nav'[t].index = i
           /\ nav'[t].saved = n.saved /\ nav'[t].at = n.at
BY DEF GoesTo, Nav

\* Where the list begins, and the ring.
LEMMA ListIs ==
    ASSUME RingOK
    PROVE  /\ Len(log) \in Nat /\ Counted \in Int /\ Listed \in Nat \ {0} /\ Held \in Nat \ {0}
           /\ Held = IF Len(log) > Slots THEN Len(log) - Slots + 1 ELSE 1
<1>1. Len(log) \in Nat
  BY DEF RingOK
<1>2. Counted \in Int
  BY <1>1 DEF Counted
<1>3. Held = IF Len(log) > Slots THEN Len(log) - Slots + 1 ELSE 1
  BY DEF Held, LastLines
<1>4. Held \in Nat \ {0}
  BY <1>1, <1>3, TerminalAssumption
<1>5. Listed \in Nat \ {0}
  BY <1>1, <1>2, TerminalAssumption DEF Listed, LastLines
<1> QED
  BY <1>1, <1>2, <1>3, <1>4, <1>5

\* A user who has moved is somewhere.
LEMMA AtIs ==
    ASSUME NEW w \in WalkOf, NEW n \in Nat
    PROVE  /\ At(w, n) \in WalkOf
           /\ At(w, n).at = n /\ At(w, n).fresh = TRUE
           /\ At(w, n).kept <=> (w.kept /\ ~Overwritten(n))
           /\ At(w, n).line = w.line /\ At(w, n).cursor = w.cursor
<1>1. (w.kept /\ ~Overwritten(n)) \in BOOLEAN
  OBVIOUS
<1> QED
  BY <1>1 DEF At, WalkOf

\* He who was typing leaves his line behind.
LEMMA AtNewestIs ==
    ASSUME LineOK, RingOK, NEW t \in Tty
    PROVE  LET w == [At(walk[t], Len(log)) EXCEPT !.line = line[t], !.cursor = cursor[t]] IN
           /\ w \in WalkOf /\ w.at = Len(log) /\ w.fresh = TRUE
           /\ w.kept <=> (walk[t].kept /\ ~Overwritten(Len(log)))
           /\ w.line = line[t] /\ w.cursor = cursor[t]
<1>1. /\ walk[t] \in WalkOf /\ Len(log) \in Nat
      /\ line[t] \in Line /\ cursor[t] \in 0 .. CmdBufLen
  BY DEF LineOK, RingOK
<1>2. PICK v \in WalkOf : /\ v = At(walk[t], Len(log)) /\ v.at = Len(log) /\ v.fresh = TRUE
                          /\ v.kept <=> (walk[t].kept /\ ~Overwritten(Len(log)))
  BY <1>1, AtIs
<1>3. LET w == [v EXCEPT !.line = line[t], !.cursor = cursor[t]] IN
      /\ w \in WalkOf /\ w.at = v.at /\ w.fresh = v.fresh /\ w.kept = v.kept
      /\ w.line = line[t] /\ w.cursor = cursor[t]
  BY <1>1 DEF WalkOf
<1> QED
  BY <1>2, <1>3, Zenon

\* Up, by where the user was.
LEMMA UpIs ==
    ASSUME LineOK, RingOK, NEW t \in Tty
    PROVE  LET w == walk[t] IN
           /\ w.at = 0 /\ Listed <= Len(log) =>
                UpFrom(t) = [At(w, Len(log)) EXCEPT !.line = line[t], !.cursor = cursor[t]]
           /\ w.at # 0 /\ w.at > Listed => UpFrom(t) = At(w, w.at - 1)
           /\ w.at # 0 /\ w.at < Listed => UpFrom(t) = [w EXCEPT !.kept = FALSE]
           /\ (w.at = 0 /\ ~(Listed <= Len(log))) \/ w.at = Listed => UpFrom(t) = w
<1>1. walk[t].at \in Nat /\ Listed \in Nat \ {0}
  BY ListIs DEF LineOK, WalkOf
<1>2. ~(walk[t].at > Listed /\ walk[t].at < Listed) /\ Listed # 0
  BY <1>1
<1>3. walk[t].at = Listed => ~(walk[t].at > Listed) /\ ~(walk[t].at < Listed)
  BY <1>1
<1> QED
  BY <1>2, <1>3, Zenon DEF UpFrom

\* Down, likewise.
LEMMA DownIs ==
    ASSUME NEW t \in Tty
    PROVE  LET w == walk[t]
               kept == w.kept /\ w.at >= Listed IN
           /\ w.at = 0 => DownFrom(t) = w
           /\ w.at # 0 /\ kept =>
                DownFrom(t) = [w EXCEPT !.at = IF w.at = Len(log) THEN 0 ELSE w.at + 1,
                                        !.fresh = TRUE]
           /\ w.at # 0 /\ ~kept /\ nav'[t].active => DownFrom(t) = [w EXCEPT !.kept = FALSE]
           /\ w.at # 0 /\ ~kept /\ ~nav'[t].active =>
                DownFrom(t) = [w EXCEPT !.at = 0, !.kept = TRUE, !.fresh = TRUE]
BY Zenon DEF DownFrom

\* So every user is somewhere.
LEMMA WalkOK ==
    ASSUME LineOK, RingOK, NEW t \in Tty
    PROVE  /\ NoWalk \in WalkOf /\ [walk[t] EXCEPT !.fresh = FALSE] \in WalkOf
           /\ walk[t] \in WalkOf /\ UpFrom(t) \in WalkOf /\ DownFrom(t) \in WalkOf
<1>1. NoWalk \in WalkOf
  <2>1. 0 \in 0 .. CmdBufLen /\ 0 \in Nat
    BY TerminalAssumption
  <2> QED
    BY <2>1, EmptyLine DEF NoWalk, WalkOf
<1>2. walk[t] \in WalkOf /\ walk[t].at \in Nat /\ Listed \in Nat \ {0}
  BY ListIs DEF LineOK, WalkOf
<1>3. [walk[t] EXCEPT !.fresh = FALSE] \in WalkOf /\ [walk[t] EXCEPT !.kept = FALSE] \in WalkOf
  BY <1>2 DEF WalkOf
<1>4. UpFrom(t) \in WalkOf
  <2>1. ASSUME walk[t].at > Listed
        PROVE  At(walk[t], walk[t].at - 1) \in WalkOf
    <3>1. walk[t].at - 1 \in Nat
      BY <1>2, <2>1
    <3> QED
      BY <1>2, <3>1, AtIs
  <2>2. [At(walk[t], Len(log)) EXCEPT !.line = line[t], !.cursor = cursor[t]] \in WalkOf
    BY AtNewestIs
  <2>3. \/ walk[t].at = 0 /\ Listed <= Len(log)
        \/ walk[t].at # 0 /\ walk[t].at > Listed
        \/ walk[t].at # 0 /\ walk[t].at < Listed
        \/ (walk[t].at = 0 /\ ~(Listed <= Len(log))) \/ walk[t].at = Listed
    BY <1>2
  <2> QED
    BY <1>2, <1>3, <2>1, <2>2, <2>3, UpIs, Zenon
<1>5. DownFrom(t) \in WalkOf
  <2>1. [walk[t] EXCEPT !.at = 0, !.kept = TRUE, !.fresh = TRUE] \in WalkOf
    BY <1>2 DEF WalkOf
  <2>2. [walk[t] EXCEPT !.at = IF walk[t].at = Len(log) THEN 0 ELSE walk[t].at + 1,
                        !.fresh = TRUE] \in WalkOf
    <3>1. (IF walk[t].at = Len(log) THEN 0 ELSE walk[t].at + 1) \in Nat
      BY <1>2
    <3> QED
      BY <1>2, <3>1 DEF WalkOf
  <2> QED
    BY <1>2, <1>3, <2>1, <2>2, DownIs, Zenon
<1> QED
  BY <1>1, <1>2, <1>3, <1>4, <1>5

\* The types of the lines, after a step of one terminal ...
LEMMA TouchedLineOK ==
    ASSUME LineOK, RingOK, NEW t \in Tty,
           \/ Touches(t) /\ NewLine(t) /\ (Resets(t) \/ Edits(t))
           \/ Prev(t) \/ NextEntry(t) \/ Show(t)
    PROVE  LineOK'
<1>1. CASE Touches(t) /\ NewLine(t) /\ (Resets(t) \/ Edits(t))
  <2>1. nav'[t] \in Nav /\ nav'[t].at <= Len(nav'[t].saved)
    BY <1>1, NavOK, Zenon DEF Resets, Edits
  <2>2. pc'[t] \in Pc /\ walk'[t] \in WalkOf
    BY <1>1, WalkOK, PcHas, Zenon DEF Resets, Edits
  <2> QED
    BY <1>1, <2>1, <2>2, TouchesOK, Zenon
<1>2. CASE Prev(t)
  <2>1. NewLine(t) /\ walk'[t] \in WalkOf /\ Touches(t)
    BY <1>2, PrevIs, WalkOK, Zenon DEF NewLine, LineOK
  <2>2. nav'[t] \in Nav /\ nav'[t].at <= Len(nav'[t].saved) /\ pc'[t] \in Pc
    <3>1. CASE AtOldest(t)
      BY <1>2, <3>1, PrevIs, NavOK, PcHas, Zenon
    <3>2. CASE ~AtOldest(t)
      <4>1. NavFrom(t) \in Nav /\ NavFrom(t).at <= Len(NavFrom(t).saved)
        BY NavOK
      <4>2. NavFrom(t).index \in 0 .. Slots - 1
        BY <4>1 DEF Nav
      <4>3. NavFrom(t).index + Slots - 1 \in 0 .. 2 * Slots - 1
        BY <4>2, TerminalAssumption
      <4>4. Slot(NavFrom(t).index + Slots - 1) \in 0 .. Slots - 1
        BY <4>3, SlotInRing
      <4>5. GoesTo(t, NavFrom(t), Slot(NavFrom(t).index + Slots - 1))
        BY <1>2, <3>2, PrevIs, Zenon
      <4> HIDE DEF GoesTo
      <4>6. nav'[t] \in Nav /\ nav'[t].at <= Len(nav'[t].saved)
        BY <4>1, <4>4, <4>5, GoesOK, Zenon
      <4> QED
        BY <4>5, <4>6, PcHas, Zenon DEF GoesTo
    <3> QED
      BY <3>1, <3>2
  <2> QED
    BY <2>1, <2>2, TouchesOK, Zenon
<1>3. CASE NextEntry(t)
  <2>1. walk'[t] \in WalkOf /\ Touches(t)
    BY <1>3, NextIs, WalkOK, Zenon
  <2>2. /\ nav[t] \in Nav /\ nav[t].at <= Len(nav[t].saved)
        /\ line[t] \in Line /\ cursor[t] \in 0 .. CmdBufLen /\ cursor[t] <= Len(line[t])
    BY DEF LineOK
  <2>3. nav[t].saved \in Line /\ nav[t].at \in 0 .. CmdBufLen /\ nav[t].index \in 0 .. Slots - 1
    BY <2>2 DEF Nav
  <2>4. CASE AtNewest(t)
    <3>1. NewLine(t) /\ nav'[t] = NoNav /\ pc'[t] = "idle"
      BY <1>3, <2>2, <2>3, <2>4, NextIs, Zenon DEF NewLine
    <3> QED
      BY <2>1, <3>1, NavOK, TouchesOK, PcHas, Zenon
  <2>5. CASE ~AtNewest(t) /\ AtDraft(t)
    <3>1. NewLine(t) /\ nav'[t] = nav[t] /\ pc'[t] = "idle"
      BY <1>3, <2>2, <2>5, NextIs, Zenon DEF NewLine
    <3> QED
      BY <2>1, <3>1, NavOK, TouchesOK, PcHas, Zenon
  <2>6. CASE ~AtNewest(t) /\ ~AtDraft(t)
    <3>1. NewLine(t) /\ GoesTo(t, nav[t], Slot(nav[t].index + 1))
      BY <1>3, <2>2, <2>6, NextIs, Zenon DEF NewLine
    <3>2. nav[t].index + 1 \in 0 .. 2 * Slots - 1
      BY <2>3, TerminalAssumption
    <3>3. Slot(nav[t].index + 1) \in 0 .. Slots - 1
      BY <3>2, SlotInRing
    <3>4. nav'[t] \in Nav /\ nav'[t].at <= Len(nav'[t].saved)
      BY <2>2, <3>1, <3>3, GoesOK, Zenon
    <3> QED
      BY <2>1, <3>1, <3>4, TouchesOK, PcHas, Zenon DEF GoesTo
  <2> QED
    BY <2>4, <2>5, <2>6
<1>4. CASE Show(t)
  <2>1. nav'[t] \in Nav /\ nav'[t].at <= Len(nav'[t].saved) /\ walk'[t] \in WalkOf /\ Touches(t)
    BY <1>4, ShowIs, NavOK, WalkOK, Zenon
  <2>2. cmd_history[nav[t].index] \in Line
    BY NavOK DEF Nav, RingOK
  <2>3. NewLine(t)
    <3>1. line'[t] \in Line /\ cursor'[t] = Len(line'[t])
      BY <1>4, <2>2, ShowIs, Zenon
    <3>2. Len(line'[t]) \in Nat /\ Len(line'[t]) <= CmdBufLen
      BY <3>1 DEF Line
    <3> QED
      BY <3>1, <3>2, TerminalAssumption DEF NewLine
  <2> QED
    BY <1>4, <2>1, <2>3, ShowIs, TouchesOK, PcHas, Zenon
<1> QED
  BY <1>1, <1>2, <1>3, <1>4

\* What a copy that is not over leaves in its slot is a line, ...
LEMMA MixedIsLine ==
    ASSUME NEW l \in Line, NEW other \in Line, NEW m \in Mixed(l, other)
    PROVE  m \in Line
<1>1. /\ l \in Seq(Printable) /\ Len(l) \in Nat
      /\ other \in Seq(Printable) /\ Len(other) \in Nat /\ Len(other) <= CmdBufLen
  BY DEF Line
<1>2. PICK k \in 0 .. Len(l) :
        m = [i \in 1 .. Len(other) |-> IF i <= k /\ i <= Len(l) THEN l[i] ELSE other[i]]
  BY DEF Mixed
<1>3. m \in [1 .. Len(other) -> Printable]
  BY <1>1, <1>2
<1>4. m \in Seq(Printable) /\ Len(m) = Len(other)
  BY <1>1, <1>3
<1> QED
  BY <1>1, <1>4 DEF Line

\* ... and so is what one leaves that is over.
LEMMA CopiedIsLine ==
    ASSUME LineOK, RingOK, NEW t \in Tty, NEW l \in Copied(t)
    PROVE  l \in Line
<1>1. line[t] \in Line /\ cmd_history[store[t].slot] \in Line
  BY DEF LineOK, RingOK
<1>2. l \in Mixed(cmd_history[store[t].slot], line[t]) \/ l = cmd_history[store[t].slot]
        \/ l = line[t]
  BY Zenon DEF Copied
<1> QED
  BY <1>1, <1>2, MixedIsLine

\* A part of a store ...
LEMMA StoreCopyOK ==
    ASSUME LineOK, RingOK, NEW t \in Tty, StoreCopy(t)
    PROVE  LineOK' /\ RingOK'
<1>1. PICK l \in Mixed(line[t], cmd_history[store[t].slot]) \cup {line[t]} :
        cmd_history' = [cmd_history EXCEPT ![store[t].slot] = l]
  BY Zenon DEF StoreCopy
<1>2. /\ UNCHANGED <<line, cursor, nav, pc, walk>>
      /\ UNCHANGED <<cmd_history_head, cmd_history_count, store, log, torn>>
  BY DEF StoreCopy, editVars
<1>3. line[t] \in Line /\ cmd_history[store[t].slot] \in Line
  BY DEF LineOK, RingOK
<1>4. l \in Line
  BY <1>1, <1>3, MixedIsLine
<1>5. cmd_history' \in [0 .. Slots - 1 -> Line]
  BY <1>1, <1>4 DEF RingOK
<1> QED
  BY <1>2, <1>5 DEF LineOK, RingOK

\* ... its end, when the head moves ...
LEMMA StoreHeadOK ==
    ASSUME LineOK, RingOK, NEW t \in Tty, StoreHead(t)
    PROVE  LineOK' /\ RingOK'
<1>1. /\ line[t] \in Line
      /\ store[t] \in [slot : 0 .. Slots - 1, count : 0 .. Slots, cut : BOOLEAN]
  BY DEF LineOK, RingOK
<1>2. cmd_history' \in [0 .. Slots - 1 -> Line]
  <2>1. PICK l \in Copied(t) : cmd_history' = [cmd_history EXCEPT ![store[t].slot] = l]
    BY Zenon DEF StoreHead
  <2>2. l \in Line
    BY <2>1, CopiedIsLine
  <2> QED
    BY <2>1, <2>2 DEF RingOK
<1>3. cmd_history_head' \in 0 .. Slots - 1
  <2>1. store[t].slot + 1 \in 0 .. 2 * Slots - 1
    BY <1>1, TerminalAssumption
  <2> QED
    BY <2>1, SlotInRing, Zenon DEF StoreHead
<1>4. log' \in Seq(Line)
  <2>1. log' = Append(log, line[t])
    BY Zenon DEF StoreHead
  <2> QED
    BY <1>1, <2>1, AppendProperties DEF RingOK
<1>5. RingOK'
  <2>1. UNCHANGED <<cmd_history_count, store, torn>>
    BY DEF StoreHead
  <2> QED
    BY <1>2, <1>3, <1>4, <2>1 DEF RingOK
<1>6. /\ UNCHANGED <<line, cursor, nav>> /\ pc' = [pc EXCEPT ![t] = "count"]
      /\ walk' = [u \in Tty |->
           [walk[u] EXCEPT !.kept = @ /\ (walk[u].at = 0 \/ walk[u].at >= Held')]]
  BY Zenon DEF StoreHead, editVars
<1>7. walk' \in [Tty -> WalkOf]
  <2>1. ASSUME NEW u \in Tty
        PROVE  [walk[u] EXCEPT !.kept = @ /\ (walk[u].at = 0 \/ walk[u].at >= Held')]
                 \in WalkOf
    <3>1. walk[u] \in WalkOf
      BY DEF LineOK
    <3> QED
      BY <3>1 DEF WalkOf
  <2> QED
    BY <1>6, <2>1, Zenon
<1>8. pc' \in [Tty -> Pc]
  BY <1>6, PcHas DEF LineOK
<1>9. LineOK'
  BY <1>6, <1>7, <1>8 DEF LineOK
<1> QED
  BY <1>5, <1>9

\* ... and its count.
LEMMA StoreCountIs ==
    ASSUME LineOK, NEW t \in Tty, StoreCount(t)
    PROVE  /\ Touches(t) /\ NewLine(t)
           /\ pc[t] = "count" /\ Runs(t) /\ pc'[t] = "idle"
           /\ nav'[t] = NoNav /\ walk'[t] = NoWalk
           /\ cmd_history_count' = IF store[t].count < Slots THEN store[t].count + 1 ELSE Slots
           /\ store' = [store EXCEPT ![t] = NoStore]
           /\ UNCHANGED <<cmd_history, cmd_history_head, log, torn>>
<1>1. /\ pc[t] = "count" /\ Runs(t) /\ pc' = [pc EXCEPT ![t] = "idle"]
      /\ ResetNav(t) /\ Edit(t, <<>>, 0)
      /\ cmd_history_count' = IF store[t].count < Slots THEN store[t].count + 1 ELSE Slots
      /\ store' = [store EXCEPT ![t] = NoStore]
      /\ UNCHANGED <<cmd_history, cmd_history_head, log, torn>>
  BY Zenon DEF StoreCount
<1>2. pc' = [pc EXCEPT ![t] = pc'[t]] /\ pc'[t] = "idle"
  BY <1>1 DEF LineOK
<1> QED
  BY <1>1, <1>2, EmptyNewLine, ResetTouches, Zenon DEF Touches

LEMMA StoreCountOK ==
    ASSUME LineOK, RingOK, NEW t \in Tty, StoreCount(t)
    PROVE  LineOK' /\ RingOK'
<1>1. LineOK'
  BY StoreCountIs, NavOK, WalkOK, PcHas, TouchesOK, Zenon
<1>2. store[t] \in [slot : 0 .. Slots - 1, count : 0 .. Slots, cut : BOOLEAN]
  BY DEF RingOK
<1>3. cmd_history_count' \in 0 .. Slots
  <2>1. cmd_history_count' = IF store[t].count < Slots THEN store[t].count + 1 ELSE Slots
    BY StoreCountIs
  <2> QED
    BY <1>2, <2>1, TerminalAssumption
<1>4. store' \in [Tty -> [slot : 0 .. Slots - 1, count : 0 .. Slots, cut : BOOLEAN]]
  <2>1. store' = [store EXCEPT ![t] = NoStore]
    BY StoreCountIs, Zenon
  <2>2. NoStore \in [slot : 0 .. Slots - 1, count : 0 .. Slots, cut : BOOLEAN]
    BY TerminalAssumption DEF NoStore
  <2> QED
    BY <2>1, <2>2 DEF RingOK
<1>5. UNCHANGED <<cmd_history, cmd_history_head, log, torn>>
  BY StoreCountIs, Zenon
<1> QED
  BY <1>1, <1>3, <1>4, <1>5 DEF RingOK

\* The types of the lines and of the history.
LEMMA HistOK ==
    ASSUME LineOK, RingOK, HistNext
    PROVE  LineOK' /\ RingOK'
<1>1. CASE UNCHANGED <<editVars, storeVars, pc, walk>>
  BY <1>1 DEF LineOK, RingOK, editVars, storeVars, ringVars
<1>2. ASSUME NEW t \in Tty,
             \/ Touches(t) /\ NewLine(t) /\ (Resets(t) \/ Edits(t))
             \/ Prev(t) \/ NextEntry(t) \/ Show(t)
      PROVE  LineOK' /\ RingOK'
  <2>1. UNCHANGED storeVars
    BY <1>2, PrevIs, NextIs, ShowIs, Zenon DEF Resets, Edits
  <2>2. RingOK'
    BY <2>1 DEF RingOK, storeVars, ringVars
  <2> QED
    BY <1>2, <2>2, TouchedLineOK, Zenon
<1>3. ASSUME NEW t \in Tty, CrStores(t)
      PROVE  LineOK' /\ RingOK'
  <2>1. UNCHANGED <<line, cursor, nav, walk, cmd_history, cmd_history_head, cmd_history_count, log>>
    BY <1>3 DEF CrStores, editVars, ringVars
  <2>2. pc' \in [Tty -> Pc]
    BY <1>3, PcHas DEF CrStores, LineOK
  <2>3. torn' \in BOOLEAN
    BY <1>3 DEF CrStores, RingOK
  <2>4. store' \in [Tty -> [slot : 0 .. Slots - 1, count : 0 .. Slots, cut : BOOLEAN]]
    <3>1. ASSUME NEW u \in Tty
          PROVE  [store[u] EXCEPT !.cut = store[u].cut \/ pc[u] = "copy"]
                   \in [slot : 0 .. Slots - 1, count : 0 .. Slots, cut : BOOLEAN]
      BY DEF RingOK
    <3>2. [slot |-> cmd_history_head, count |-> cmd_history_count, cut |-> FALSE]
             \in [slot : 0 .. Slots - 1, count : 0 .. Slots, cut : BOOLEAN]
      BY DEF RingOK
    <3> QED
      BY <1>3, <3>1, <3>2, Zenon DEF CrStores
  <2> QED
    BY <2>1, <2>2, <2>3, <2>4 DEF LineOK, RingOK
<1> QED
  BY <1>1, <1>2, <1>3, StoreCopyOK, StoreHeadOK, StoreCountOK, Zenon DEF HistNext, HistStep
-----------------------------------------------------------------------------
(* The history and those who walk in it *)

\* The slot k before slot h.
Back(h, k) == IF h >= k THEN h - k ELSE h + Slots - k

\* The inductive invariant of the history.  While no store has been interrupted by
\* another, the ring holds the last lines of the log, newest before the head, but for
\* the one whose slot is being filled again, and the count is that of the lines
\* counted; ...
HoldsLog ==
    /\ Counted \in Nat
    /\ cmd_history_count = IF Counted < Slots THEN Counted ELSE Slots
    /\ Len(log) < Slots => cmd_history_head = Len(log)
    /\ \A a \in Held .. Len(log) : ~Overwritten(a) =>
         cmd_history[Back(cmd_history_head, Len(log) - a + 1)] = log[a]

\* ... and a store under way is the only one, and knows the head until it moves it, and
\* the count.
StoresAlone ==
    /\ \A t, u \in Tty : pc[t] \in Storing /\ pc[u] \in Storing => t = u
    /\ \A t \in Tty : pc[t] = "copy" =>
         store[t] = [slot |-> cmd_history_head, count |-> cmd_history_count, cut |-> FALSE]
    /\ \A t \in Tty : pc[t] = "count" => store[t].count = cmd_history_count

\* All of that holds until a store is torn.
RingInv == ~torn => HoldsLog /\ StoresAlone

\* A user whose line is still in the ring is at the slot that holds it, and sees it
\* before it is overwritten: the UART terminal's store waits for the USB terminal's
\* handler, which shows at once the line it has chosen.
Kept(t) == walk[t].at # 0 /\ walk[t].kept

InPlace(t) ==
    /\ nav[t].active <=> walk[t].at # 0
    /\ walk[t].at # 0 => nav[t].saved = walk[t].line /\ nav[t].at = walk[t].cursor
    /\ Kept(t) =>
         /\ walk[t].at \in Held .. Len(log)
         /\ nav[t].index = Back(cmd_history_head, Len(log) - walk[t].at + 1)
    /\ ~walk[t].kept => walk[t].at # 0
    /\ pc[t] = "show" => walk[t].at # 0
    /\ t = "usb" /\ pc[t] = "show" /\ walk[t].kept => ~Overwritten(walk[t].at)

\* What the terminal shows.
Shown(t) ==
    pc[t] = "idle" /\ walk[t].fresh =>
      IF walk[t].at = 0 THEN DraftShown(t) ELSE EntryShown(t)

\* That, for every terminal, until a store is torn.
WalkInv == ~torn => \A t \in Tty : InPlace(t) /\ Shown(t)

\* Places on the ring of slots.
LEMMA BackFacts ==
    ASSUME NEW h \in 0 .. Slots - 1
    PROVE  /\ \A k \in 1 .. Slots : Back(h, k) \in 0 .. Slots - 1
           /\ \A k \in 1 .. Slots - 1 : Back(h, k) # h
           /\ \A k, l \in 1 .. Slots : Back(h, k) = Back(h, l) => k = l
           /\ Back(h, Slots) = h
BY TerminalAssumption DEF Back

\* The code finds them modulo Slots.
LEMMA SlotBack ==
    ASSUME NEW h \in 0 .. Slots - 1
    PROVE  /\ Slot(h + Slots - 1) = Back(h, 1)
           /\ \A k \in 1 .. Slots : Slot(h + Slots - k) = Back(h, k)
           /\ \A k \in 1 .. Slots - 1 : Slot(Back(h, k) + Slots - 1) = Back(h, k + 1)
           /\ \A k \in 2 .. Slots : Slot(Back(h, k) + 1) = Back(h, k - 1)
           /\ Slot(Back(h, 1) + 1) = h
<1>1. \A k \in 1 .. Slots : Slot(h + Slots - k) = Back(h, k)
  <2> SUFFICES ASSUME NEW k \in 1 .. Slots
               PROVE  Slot(h + Slots - k) = Back(h, k)
    OBVIOUS
  <2>1. h + Slots - k \in 0 .. 2 * Slots - 1
    BY TerminalAssumption
  <2> QED
    BY <2>1, SlotIs, TerminalAssumption DEF Back
<1>2. Slot(h + Slots - 1) = Back(h, 1)
  BY <1>1, TerminalAssumption
<1>3. \A k \in 1 .. Slots - 1 : Slot(Back(h, k) + Slots - 1) = Back(h, k + 1)
  <2> SUFFICES ASSUME NEW k \in 1 .. Slots - 1
               PROVE  Slot(Back(h, k) + Slots - 1) = Back(h, k + 1)
    OBVIOUS
  <2>1. Back(h, k) + Slots - 1 \in 0 .. 2 * Slots - 1
    BY TerminalAssumption DEF Back
  <2> QED
    BY <2>1, SlotIs, TerminalAssumption DEF Back
<1>4. \A k \in 2 .. Slots : Slot(Back(h, k) + 1) = Back(h, k - 1)
  <2> SUFFICES ASSUME NEW k \in 2 .. Slots
               PROVE  Slot(Back(h, k) + 1) = Back(h, k - 1)
    OBVIOUS
  <2>1. Back(h, k) + 1 \in 0 .. 2 * Slots - 1
    BY TerminalAssumption DEF Back
  <2> QED
    BY <2>1, SlotIs, TerminalAssumption DEF Back
<1>5. Slot(Back(h, 1) + 1) = h
  <2>1. Back(h, 1) + 1 \in 0 .. 2 * Slots - 1
    BY TerminalAssumption DEF Back
  <2> QED
    BY <2>1, SlotIs, TerminalAssumption DEF Back
<1> QED
  BY <1>1, <1>2, <1>3, <1>4, <1>5

\* The head goes on by one slot.
LEMMA BackOn ==
    ASSUME NEW h \in 0 .. Slots - 1
    PROVE  /\ Slot(h + 1) \in 0 .. Slots - 1
           /\ Back(Slot(h + 1), 1) = h
           /\ \A k \in 1 .. Slots - 1 : Back(Slot(h + 1), k + 1) = Back(h, k)
           /\ h + 1 < Slots => Slot(h + 1) = h + 1
<1>1. h + 1 \in 0 .. 2 * Slots - 1
  BY TerminalAssumption
<1>2. Slot(h + 1) = IF h + 1 < Slots THEN h + 1 ELSE (h + 1) - Slots
  BY <1>1, SlotIs
<1>3. Slot(h + 1) = IF h + 1 < Slots THEN h + 1 ELSE 0
  BY <1>2, TerminalAssumption
<1> HIDE DEF Slot
<1> QED
  BY <1>3, TerminalAssumption DEF Back


\* Where the list begins, by the count.
LEMMA ListedIs ==
    ASSUME RingOK, HoldsLog
    PROVE  /\ Listed = Len(log) - cmd_history_count + 1
           /\ cmd_history_count \in 0 .. Slots /\ cmd_history_count <= Len(log)
           /\ Held <= Listed
<1>1. /\ Len(log) \in Nat /\ Counted \in Nat /\ Counted <= Len(log)
      /\ cmd_history_count = IF Counted < Slots THEN Counted ELSE Slots
  BY DEF RingOK, HoldsLog, Counted
<1>2. /\ cmd_history_count \in 0 .. Slots /\ cmd_history_count <= Len(log)
      /\ Listed = LastLines(cmd_history_count)
  BY <1>1, TerminalAssumption DEF Listed
<1>3. Listed = Len(log) - cmd_history_count + 1
  BY <1>1, <1>2 DEF LastLines
<1>4. Held <= Listed
  BY <1>1, <1>2, <1>3, ListIs, TerminalAssumption
<1> QED
  BY <1>2, <1>3, <1>4

\* Where a user's line lies in the ring.
LEMMA PlaceOf ==
    ASSUME RingOK, NEW a \in Held .. Len(log)
    PROVE  /\ Len(log) - a + 1 \in 1 .. Slots /\ a \in 1 .. Len(log)
           /\ a # Held \/ Len(log) < Slots => Len(log) - a + 1 \in 1 .. Slots - 1
           /\ HoldsLog /\ ~Overwritten(a) =>
                cmd_history[Back(cmd_history_head, Len(log) - a + 1)] = log[a]
<1>1. /\ Len(log) \in Nat /\ Held \in Nat \ {0}
      /\ Held = IF Len(log) > Slots THEN Len(log) - Slots + 1 ELSE 1
  BY ListIs
<1>2. PICK n \in Nat, o \in Nat : n = Len(log) /\ o = Held
  BY <1>1
<1>3. /\ n - a + 1 \in 1 .. Slots /\ a \in 1 .. n
      /\ a # o \/ n < Slots => n - a + 1 \in 1 .. Slots - 1
  BY <1>1, <1>2, TerminalAssumption
<1> QED
  BY <1>2, <1>3, Zenon DEF HoldsLog

\* A step that begins or ends no store leaves the list as it is.
LEMMA SameStores ==
    ASSUME LineOK, NEW t \in Tty, Touches(t), log' = log,
           pc[t] \notin Storing, pc'[t] \notin Storing
    PROVE  /\ Counted' = Counted /\ Listed' = Listed /\ Held' = Held
           /\ \A a : Overwritten(a)' <=> Overwritten(a)
<1>1. \A u \in Tty : u # t => pc'[u] = pc[u]
  BY DEF LineOK, Touches
<1>2. /\ pc[t] # "copy" /\ pc[t] # "count" /\ pc'[t] # "copy" /\ pc'[t] # "count"
  BY DEF Storing
<1>3. (\E u \in Tty : pc'[u] = "count") <=> (\E u \in Tty : pc[u] = "count")
  BY <1>1, <1>2, Zenon
<1>4. (\E u \in Tty : pc'[u] = "copy") <=> (\E u \in Tty : pc[u] = "copy")
  BY <1>1, <1>2, Zenon
<1>5. Counted' = Counted
  BY <1>3 DEF Counted
<1>6. Held' = Held /\ Listed' = Listed
  BY <1>5 DEF Held, Listed, LastLines
<1>7. \A a : Overwritten(a)' <=> Overwritten(a)
  BY <1>4, <1>6, Zenon DEF Overwritten
<1> QED
  BY <1>5, <1>6, <1>7

\* The ring stays as it is as long as no store begins or ends, whatever else is typed.
LEMMA KeepsRing ==
    ASSUME LineOK, RingOK, RingInv, NEW t \in Tty, Touches(t), UNCHANGED storeVars,
           pc[t] \notin Storing, pc'[t] \notin Storing
    PROVE  RingInv'
<1> SUFFICES ASSUME ~torn'
             PROVE  HoldsLog' /\ StoresAlone'
  BY DEF RingInv
<1>1. /\ cmd_history' = cmd_history /\ cmd_history_head' = cmd_history_head
      /\ cmd_history_count' = cmd_history_count /\ log' = log /\ store' = store
      /\ torn' = torn
  BY DEF storeVars, ringVars
<1>2. HoldsLog /\ StoresAlone
  BY <1>1, Zenon DEF RingInv
<1>3. /\ Counted' = Counted /\ Held' = Held /\ \A a : Overwritten(a)' <=> Overwritten(a)
  BY <1>1, SameStores, Zenon
<1>4. HoldsLog'
  BY <1>1, <1>2, <1>3, Zenon DEF HoldsLog
<1>5. \A u \in Tty : u # t => pc'[u] = pc[u]
  BY DEF LineOK, Touches
<1>6. \A u \in Tty : pc'[u] \in Storing => pc'[u] = pc[u]
  BY <1>5, Zenon
<1>7. {"copy", "count"} \subseteq Storing
  BY DEF Storing
<1>8. StoresAlone'
  BY <1>1, <1>2, <1>6, <1>7, Zenon DEF StoresAlone
<1> QED
  BY <1>4, <1>8

\* CR begins a store, which reads the head and the count.
LEMMA CrRing ==
    ASSUME LineOK, RingOK, RingInv, NEW t \in Tty, CrStores(t)
    PROVE  RingInv'
<1> SUFFICES ASSUME ~torn'
             PROVE  HoldsLog' /\ StoresAlone'
  BY DEF RingInv
<1>1. /\ torn' = (torn \/ \E u \in Tty : pc[u] \in Storing)
      /\ pc' = [pc EXCEPT ![t] = "copy"]
      /\ cmd_history' = cmd_history /\ cmd_history_head' = cmd_history_head
      /\ cmd_history_count' = cmd_history_count /\ log' = log
  BY DEF CrStores, ringVars
<1>2. ~torn /\ \A u \in Tty : pc[u] \notin Storing
  BY <1>1, Zenon
<1>3. HoldsLog
  BY <1>2, Zenon DEF RingInv
<1>4. /\ pc'[t] = "copy" /\ \A u \in Tty : u # t => pc'[u] = pc[u]
  BY <1>1 DEF LineOK
<1>5. \A u \in Tty : pc[u] # "copy" /\ pc[u] # "count"
  BY <1>2 DEF Storing
<1>6. \A u \in Tty : pc'[u] # "count"
  BY <1>4, <1>5
<1>7. Counted' = Counted
  BY <1>1, <1>5, <1>6 DEF Counted
<1>8. Held' = Held /\ \A a : ~Overwritten(a)
  BY <1>1, <1>5, Zenon DEF Held, LastLines, Overwritten
<1>9. HoldsLog'
  BY <1>1, <1>3, <1>7, <1>8, Zenon DEF HoldsLog
<1>10. store'[t] = [slot |-> cmd_history_head', count |-> cmd_history_count', cut |-> FALSE]
  BY <1>1, Zenon DEF CrStores
<1>11. \A u \in Tty : pc'[u] \in Storing => u = t
  BY <1>2, <1>4, Zenon
<1>12. {"copy", "count"} \subseteq Storing
  BY DEF Storing
<1>13. StoresAlone'
  <2>1. \A u, v \in Tty : pc'[u] \in Storing /\ pc'[v] \in Storing => u = v
    BY <1>11, Zenon
  <2>2. \A u \in Tty : pc'[u] = "copy" =>
          store'[u] = [slot |-> cmd_history_head', count |-> cmd_history_count', cut |-> FALSE]
    BY <1>10, <1>11, <1>12, Zenon
  <2>3. \A u \in Tty : pc'[u] = "count" => store'[u].count = cmd_history_count'
    BY <1>6, Zenon
  <2> QED
    BY <2>1, <2>2, <2>3 DEF StoresAlone
<1> QED
  BY <1>9, <1>13

\* What is known of the ring while t copies a line into it, alone.
LEMMA CopyAlone ==
    ASSUME RingOK, RingInv, ~torn, NEW t \in Tty, pc[t] = "copy"
    PROVE  /\ HoldsLog /\ StoresAlone
           /\ store[t].slot = cmd_history_head /\ store[t].count = cmd_history_count
           /\ store[t].cut = FALSE
           /\ \A u \in Tty : u # t => pc[u] \notin Storing
           /\ Counted = Len(log)
<1>1. HoldsLog /\ StoresAlone
  BY Zenon DEF RingInv
<1>2. store[t] = [slot |-> cmd_history_head, count |-> cmd_history_count, cut |-> FALSE]
  BY <1>1, Zenon DEF StoresAlone
<1>3. \A u \in Tty : u # t => pc[u] \notin Storing
  <2>1. "copy" \in Storing
    BY DEF Storing
  <2> QED
    BY <1>1, <2>1, Zenon DEF StoresAlone
<1>4. \A u \in Tty : pc[u] # "count"
  <2>1. "count" \in Storing /\ "count" # "copy"
    BY DEF Storing
  <2> QED
    BY <1>3, <2>1, Zenon
<1>5. Counted = Len(log)
  BY <1>4 DEF Counted, RingOK
<1> QED
  BY <1>1, <1>2, <1>3, <1>5

\* A slot other than the one being filled keeps its line.
LEMMA OtherSlot ==
    ASSUME RingOK, NEW a \in Held .. Len(log), a # Held \/ Len(log) < Slots, NEW l,
           cmd_history' = [cmd_history EXCEPT ![cmd_history_head] = l]
    PROVE  cmd_history'[Back(cmd_history_head, Len(log) - a + 1)]
             = cmd_history[Back(cmd_history_head, Len(log) - a + 1)]
<1>1. cmd_history_head \in 0 .. Slots - 1 /\ Len(log) - a + 1 \in 1 .. Slots - 1
  BY PlaceOf DEF RingOK
<1>2. Back(cmd_history_head, Len(log) - a + 1) # cmd_history_head
  BY <1>1, BackFacts
<1>3. Len(log) - a + 1 \in 1 .. Slots
  BY PlaceOf
<1>4. Back(cmd_history_head, Len(log) - a + 1) \in 0 .. Slots - 1
  BY <1>1, <1>3, BackFacts
<1> QED
  BY <1>2, <1>4 DEF RingOK

\* A part of the copy touches no line but the one that is not there any more.
LEMMA CopyRing ==
    ASSUME LineOK, RingOK, RingInv, NEW t \in Tty, StoreCopy(t)
    PROVE  RingInv'
<1> SUFFICES ASSUME ~torn'
             PROVE  HoldsLog' /\ StoresAlone'
  BY DEF RingInv
<1>1. PICK l : cmd_history' = [cmd_history EXCEPT ![store[t].slot] = l]
  BY Zenon DEF StoreCopy
<1>2. /\ UNCHANGED <<cmd_history_head, cmd_history_count, store, log, torn, pc>>
      /\ pc[t] = "copy"
  BY DEF StoreCopy
<1>3. HoldsLog /\ StoresAlone /\ store[t].slot = cmd_history_head
  BY <1>2, CopyAlone
<1>4. Counted' = Counted /\ Held' = Held /\ \A a : Overwritten(a)' <=> Overwritten(a)
  BY <1>2 DEF Counted, Held, LastLines, Overwritten
<1>5. ASSUME NEW a \in Held .. Len(log), ~Overwritten(a)
      PROVE  cmd_history'[Back(cmd_history_head, Len(log) - a + 1)] = log[a]
  <2>1. Len(log) \in Nat
    BY DEF RingOK
  <2>2. a # Held \/ Len(log) < Slots
    <3>1. ~(Len(log) >= Slots) => Len(log) < Slots
      BY <2>1, TerminalAssumption
    <3> QED
      BY <1>2, <1>5, <3>1, Zenon DEF Overwritten
  <2>3. cmd_history' = [cmd_history EXCEPT ![cmd_history_head] = l]
    BY <1>1, <1>3, Zenon
  <2>4. cmd_history[Back(cmd_history_head, Len(log) - a + 1)] = log[a]
    BY <1>3, <1>5, Zenon DEF HoldsLog
  <2> QED
    BY <2>2, <2>3, <2>4, OtherSlot
<1>6. HoldsLog'
  BY <1>2, <1>3, <1>4, <1>5, Zenon DEF HoldsLog
<1>7. StoresAlone'
  BY <1>2, <1>3 DEF StoresAlone
<1> QED
  BY <1>6, <1>7

\* The end of a copy that no other store has interrupted: the slots keep the lines
\* stored last, the newest before the head.
LEMMA HeadIs ==
    ASSUME LineOK, RingOK, RingInv, NEW t \in Tty, StoreHead(t), ~torn'
    PROVE  /\ ~torn /\ HoldsLog /\ StoresAlone /\ Counted = Len(log)
           /\ pc[t] = "copy" /\ \A u \in Tty : u # t => pc[u] \notin Storing
           /\ store[t].count = cmd_history_count
           /\ cmd_history' = [cmd_history EXCEPT ![cmd_history_head] = line[t]]
           /\ cmd_history_head' = Slot(cmd_history_head + 1)
           /\ pc' = [pc EXCEPT ![t] = "count"]
           /\ log' = Append(log, line[t])
           /\ UNCHANGED <<line, cursor, nav, cmd_history_count, store>>
<1>1. /\ pc[t] = "copy" /\ torn' = torn /\ pc' = [pc EXCEPT ![t] = "count"]
      /\ cmd_history_head' = Slot(store[t].slot + 1) /\ log' = Append(log, line[t])
      /\ UNCHANGED <<line, cursor, nav, cmd_history_count, store>>
  BY Zenon DEF StoreHead, editVars
<1>2. /\ ~torn /\ HoldsLog /\ StoresAlone /\ Counted = Len(log)
      /\ store[t].slot = cmd_history_head /\ store[t].count = cmd_history_count
      /\ store[t].cut = FALSE /\ \A u \in Tty : u # t => pc[u] \notin Storing
  BY <1>1, CopyAlone
<1>3. cmd_history' = [cmd_history EXCEPT ![store[t].slot] = line[t]]
  <2>1. Copied(t) = {line[t]}
    BY <1>2 DEF Copied
  <2> QED
    BY <2>1 DEF StoreHead
<1> QED
  BY <1>1, <1>2, <1>3, Zenon

LEMMA HeadRing ==
    ASSUME LineOK, RingOK, RingInv, NEW t \in Tty, StoreHead(t)
    PROVE  RingInv'
<1> SUFFICES ASSUME ~torn'
             PROVE  HoldsLog' /\ StoresAlone'
  BY DEF RingInv
<1> DEFINE h == cmd_history_head
           n == Len(log)
<1>1. /\ HoldsLog /\ Counted = n
      /\ pc[t] = "copy" /\ (\A u \in Tty : u # t => pc[u] \notin Storing)
      /\ store[t].count = cmd_history_count
      /\ cmd_history' = [cmd_history EXCEPT ![h] = line[t]]
      /\ cmd_history_head' = Slot(h + 1)
      /\ pc' = [pc EXCEPT ![t] = "count"]
      /\ log' = Append(log, line[t]) /\ cmd_history_count' = cmd_history_count
      /\ store' = store
  BY HeadIs
<1>2. /\ cmd_history \in [0 .. Slots - 1 -> Line] /\ h \in 0 .. Slots - 1
      /\ log \in Seq(Line) /\ n \in Nat /\ line[t] \in Line
  BY DEF RingOK, LineOK
<1>3. /\ Len(log') = n + 1 /\ log'[n + 1] = line[t]
      /\ \A i \in 1 .. n : log'[i] = log[i]
  BY <1>1, <1>2, AppendProperties
<1>4. /\ pc'[t] = "count" /\ \A u \in Tty : u # t => pc'[u] = pc[u]
  BY <1>1 DEF LineOK
<1>5. Counted' = n
  BY <1>2, <1>3, <1>4 DEF Counted
<1>6. /\ Held = IF n > Slots THEN n - Slots + 1 ELSE 1
      /\ Held' = IF n + 1 > Slots THEN (n + 1) - Slots + 1 ELSE 1
  BY <1>3, ListIs DEF Held, LastLines
<1>7. Len(log') < Slots => cmd_history_head' = Len(log')
  <2>1. h + 1 < Slots => Slot(h + 1) = h + 1
    BY <1>2, BackOn
  <2>2. n < Slots => h = n
    BY <1>1 DEF HoldsLog
  <2> HIDE DEF n, h
  <2> QED
    BY <1>1, <1>2, <1>3, <2>1, <2>2, TerminalAssumption
<1>8. ASSUME NEW a \in Held' .. n + 1
      PROVE  cmd_history'[Back(cmd_history_head', (n + 1) - a + 1)] = log'[a]
  <2>1. CASE a = n + 1
    <3>1. Back(cmd_history_head', 1) = h
      BY <1>1, <1>2, BackOn
    <3>2. (n + 1) - a + 1 = 1
      BY <1>2, <2>1
    <3> QED
      BY <1>1, <1>2, <1>3, <2>1, <3>1, <3>2
  <2>2. CASE a # n + 1
    <3>1. /\ a \in Held .. n /\ (a # Held \/ n < Slots) /\ a \in 1 .. n
          /\ (n + 1) - a + 1 = (n - a + 1) + 1
      BY <1>2, <1>6, <2>2, TerminalAssumption
    <3>2. n - a + 1 \in 1 .. Slots - 1
      BY <3>1, PlaceOf
    <3>3. Back(cmd_history_head', (n - a + 1) + 1) = Back(h, n - a + 1)
      BY <1>1, <1>2, <3>2, BackOn
    <3>4. cmd_history'[Back(h, n - a + 1)] = cmd_history[Back(h, n - a + 1)]
      BY <1>1, <3>1, OtherSlot
    <3>5. ~Overwritten(a)
      <4>1. a = Held => ~(n >= Slots)
        BY <1>2, <3>1, TerminalAssumption
      <4> QED
        BY <4>1, Zenon DEF Overwritten
    <3>6. cmd_history[Back(h, n - a + 1)] = log[a]
      BY <1>1, <3>1, <3>5, Zenon DEF HoldsLog
    <3> QED
      BY <1>3, <3>1, <3>3, <3>4, <3>6
  <2> QED
    BY <2>1, <2>2
<1>9. HoldsLog'
  <2>1. cmd_history_count' = IF n < Slots THEN n ELSE Slots
    BY <1>1 DEF HoldsLog
  <2> HIDE DEF n, h
  <2> QED
    BY <1>2, <1>3, <1>5, <1>7, <1>8, <2>1 DEF HoldsLog
<1>10. StoresAlone'
  <2>1. \A u \in Tty : pc'[u] \in Storing => u = t
    BY <1>1, <1>4, Zenon
  <2>2. \A u \in Tty : pc'[u] # "copy"
    <3>1. "copy" \in Storing /\ "count" # "copy"
      BY DEF Storing
    <3> QED
      BY <1>4, <2>1, <3>1, Zenon
  <2>3. \A u \in Tty : pc'[u] = "count" => store'[u].count = cmd_history_count'
    <3>1. "count" \in Storing
      BY DEF Storing
    <3> QED
      BY <1>1, <2>1, <3>1, Zenon
  <2> QED
    BY <2>1, <2>2, <2>3, Zenon DEF StoresAlone
<1> QED
  BY <1>9, <1>10

\* Then the line is counted.
LEMMA CountRing ==
    ASSUME LineOK, RingOK, RingInv, NEW t \in Tty, StoreCount(t)
    PROVE  RingInv'
<1> SUFFICES ASSUME ~torn'
             PROVE  HoldsLog' /\ StoresAlone'
  BY DEF RingInv
<1>1. /\ Touches(t) /\ pc[t] = "count" /\ pc'[t] = "idle"
      /\ cmd_history_count' = IF store[t].count < Slots THEN store[t].count + 1 ELSE Slots
      /\ cmd_history' = cmd_history /\ cmd_history_head' = cmd_history_head
      /\ log' = log /\ torn' = torn
  BY StoreCountIs
<1>2. HoldsLog /\ StoresAlone
  BY <1>1, Zenon DEF RingInv
<1>3. /\ \A u \in Tty : u # t => pc[u] \notin Storing
      /\ store[t].count = cmd_history_count
  <2>1. "count" \in Storing
    BY DEF Storing
  <2> QED
    BY <1>1, <1>2, <2>1, Zenon DEF StoresAlone
<1>4. /\ \A u \in Tty : u # t => pc'[u] = pc[u]
  BY <1>1 DEF LineOK, Touches
<1>5. \A u \in Tty : pc'[u] \notin Storing
  <2>1. "idle" \notin Storing
    BY DEF Storing
  <2> QED
    BY <1>1, <1>3, <1>4, <2>1, Zenon
<1>6. \A u \in Tty : pc'[u] # "copy" /\ pc'[u] # "count" /\ pc[u] # "copy"
  <2>1. "count" \in Storing /\ "copy" \in Storing /\ "count" # "copy"
    BY DEF Storing
  <2> QED
    BY <1>1, <1>3, <1>5, <2>1, Zenon
<1>7. Len(log) \in Nat /\ Counted = Len(log) - 1 /\ Counted' = Len(log)
  <2>1. Len(log) \in Nat
    BY DEF RingOK
  <2>2. Counted = Len(log) - 1
    BY <1>1 DEF Counted
  <2>3. Counted' = Len(log)
    BY <1>1, <1>6, <2>1 DEF Counted
  <2> QED
    BY <2>1, <2>2, <2>3
<1>8. cmd_history_count' = IF Len(log) < Slots THEN Len(log) ELSE Slots
  <2>1. cmd_history_count = IF Len(log) - 1 < Slots THEN Len(log) - 1 ELSE Slots
    BY <1>2, <1>7 DEF HoldsLog
  <2> QED
    BY <1>1, <1>3, <1>7, <2>1, TerminalAssumption
<1>9. Held' = Held /\ \A a : ~Overwritten(a)
  BY <1>1, <1>6, Zenon DEF Held, LastLines, Overwritten
<1>10. HoldsLog'
  BY <1>1, <1>2, <1>7, <1>8, <1>9, Zenon DEF HoldsLog
<1>11. StoresAlone'
  BY <1>5, <1>6, Zenon DEF StoresAlone
<1> QED
  BY <1>10, <1>11

\* Every step keeps the ring in order.
LEMMA RingStep ==
    ASSUME LineOK, RingOK, RingInv, HistNext
    PROVE  RingInv'
<1>1. CASE UNCHANGED <<editVars, storeVars, pc, walk>>
  BY <1>1 DEF RingInv, HoldsLog, StoresAlone, Counted, Held, LastLines, Overwritten,
              editVars, storeVars, ringVars
<1>2. "idle" \notin Storing /\ "show" \notin Storing
  BY DEF Storing
<1>3. ASSUME NEW t \in Tty, Touches(t) /\ NewLine(t) /\ (Resets(t) \/ Edits(t))
      PROVE  RingInv'
  <2>1. UNCHANGED storeVars /\ pc[t] \notin Storing /\ pc'[t] \notin Storing
    BY <1>2, <1>3, Zenon DEF Resets, Edits
  <2> QED
    BY <1>3, <2>1, KeepsRing, Zenon
<1>4. ASSUME NEW t \in Tty, Prev(t)
      PROVE  RingInv'
  <2>1. Touches(t) /\ UNCHANGED storeVars /\ pc[t] \notin Storing /\ pc'[t] \notin Storing
    BY <1>2, <1>4, PrevIs, Zenon DEF GoesTo
  <2> QED
    BY <2>1, KeepsRing, Zenon
<1>5. ASSUME NEW t \in Tty, NextEntry(t)
      PROVE  RingInv'
  <2>1. Touches(t) /\ UNCHANGED storeVars /\ pc[t] \notin Storing /\ pc'[t] \notin Storing
    BY <1>2, <1>5, NextIs, Zenon DEF GoesTo
  <2> QED
    BY <2>1, KeepsRing, Zenon
<1>6. ASSUME NEW t \in Tty, Show(t)
      PROVE  RingInv'
  <2>1. Touches(t) /\ UNCHANGED storeVars /\ pc[t] \notin Storing /\ pc'[t] \notin Storing
    BY <1>2, <1>6, ShowIs, Zenon
  <2> QED
    BY <2>1, KeepsRing, Zenon
<1> QED
  BY <1>1, <1>3, <1>4, <1>5, <1>6, CrRing, CopyRing, HeadRing, CountRing, Zenon
  DEF HistNext, HistStep

\* A user who has lost his line is nowhere in particular, and only his draft is kept.
LEMMA LostInPlace ==
    ASSUME NEW t \in Tty, nav'[t].active, walk'[t].at # 0, ~walk'[t].kept,
           nav'[t].saved = walk'[t].line, nav'[t].at = walk'[t].cursor
    PROVE  InPlace(t)' /\ Shown(t)'
BY DEF InPlace, Shown, Kept, EntryShown


\* One who stays where he is, is in place.
LEMMA StaysInPlace ==
    ASSUME NEW t \in Tty, InPlace(t), Shown(t),
           pc'[t] = pc[t], ~(t = "usb" /\ pc[t] = "show"),
           nav'[t] = nav[t], walk'[t] = walk[t], line'[t] = line[t], cursor'[t] = cursor[t],
           log' = log, cmd_history_head' = cmd_history_head
    PROVE  InPlace(t)' /\ Shown(t)'
<1>1. Held' = Held
  BY DEF Held, LastLines
<1> QED
  BY <1>1 DEF InPlace, Shown, Kept, DraftShown, EntryShown

\* Up: to the next older line, and no further than the oldest.
LEMMA PrevInPlace ==
    ASSUME LineOK, RingOK, HoldsLog, NEW t \in Tty, InPlace(t), Shown(t), Prev(t)
    PROVE  InPlace(t)' /\ Shown(t)'
<1> DEFINE h == cmd_history_head
           n == Len(log)
           c == cmd_history_count
           w == walk[t]
<1>1. /\ h \in 0 .. Slots - 1 /\ n \in Nat /\ w \in WalkOf /\ w.at \in Nat
      /\ nav[t] \in Nav /\ log \in Seq(Line)
  BY DEF RingOK, LineOK, WalkOf
<1>2. /\ line'[t] = line[t] /\ cursor'[t] = cursor[t]
      /\ log' = log /\ cmd_history_head' = h
      /\ pc[t] = "idle" /\ walk'[t] = UpFrom(t) /\ Touches(t)
  BY PrevIs, Zenon DEF storeVars, ringVars
<1>3. pc'[t] \in {"idle", "show"}
  BY PrevIs, Zenon DEF GoesTo
<1>4. Held' = Held /\ \A a : Overwritten(a)' <=> Overwritten(a)
  <2>1. pc[t] \notin Storing /\ pc'[t] \notin Storing
    BY <1>2, <1>3 DEF Storing
  <2> QED
    BY <1>2, <2>1, SameStores, Zenon
<1>5. /\ Listed = n - c + 1 /\ c \in 0 .. Slots /\ c <= n /\ Held <= Listed
      /\ Listed \in Nat \ {0} /\ Held \in Nat \ {0}
  BY ListedIs, ListIs
<1>6. c # 0 => OldestSlot = Back(h, c)
  BY <1>1, <1>5, SlotBack DEF OldestSlot
<1>7. CASE w.at = 0
  <2>1. ~nav[t].active /\ w.kept
    BY <1>7 DEF InPlace
  <2>2. CASE c = 0
    <3>1. nav'[t] = nav[t] /\ pc'[t] = "idle"
      BY <2>2, PrevIs, Zenon DEF AtOldest
    <3>2. ~(Listed <= n)
      BY <1>1, <1>5, <2>2
    <3>3. walk'[t] = w
      BY <1>2, <1>7, <3>2, UpIs, Zenon
    <3> QED
      BY <1>2, <3>1, <3>3, StaysInPlace
  <2>3. CASE c # 0
    <3>1. Listed <= n /\ n \in Held .. n /\ n # 0 /\ n - n + 1 = 1
      BY <1>1, <1>5, <2>3
    <3>2. walk'[t] = [At(w, n) EXCEPT !.line = line[t], !.cursor = cursor[t]]
      BY <1>2, <1>7, <3>1, UpIs, Zenon
    <3>3. /\ walk'[t].at = n /\ walk'[t].line = line[t] /\ walk'[t].cursor = cursor[t]
          /\ walk'[t].kept => ~Overwritten(n)
      BY <3>2, AtNewestIs, Zenon
    <3>4. NavFrom(t) = StartNav(t)
      BY <2>1 DEF NavFrom
    <3>5. GoesTo(t, StartNav(t), Back(h, 1))
      <4>1. ~AtOldest(t)
        BY <2>1, <2>3, Zenon DEF AtOldest
      <4>2. GoesTo(t, NavFrom(t), Slot(NavFrom(t).index + Slots - 1))
        BY <4>1, PrevIs, Zenon
      <4>3. StartNav(t).index = h
        BY DEF StartNav
      <4>4. Slot(h + Slots - 1) = Back(h, 1)
        BY <1>1, SlotBack
      <4> QED
        BY <3>4, <4>2, <4>3, <4>4, Zenon
    <3>6. /\ nav'[t].active /\ nav'[t].index = Back(h, 1)
          /\ nav'[t].saved = line[t] /\ nav'[t].at = cursor[t] /\ pc'[t] = "show"
      <4>1. /\ StartNav(t) \in Nav /\ StartNav(t).at <= Len(StartNav(t).saved)
            /\ StartNav(t).saved = line[t] /\ StartNav(t).at = cursor[t]
        BY <3>4, NavOK DEF StartNav
      <4>2. 1 \in 1 .. Slots
        BY TerminalAssumption
      <4>3. Back(h, 1) \in 0 .. Slots - 1
        BY <1>1, <4>2, BackFacts
      <4>4. pc'[t] = "show"
        BY <3>5, Zenon DEF GoesTo
      <4> HIDE DEF GoesTo
      <4> QED
        BY <3>5, <4>1, <4>3, <4>4, GoesOK
    <3> HIDE DEF h, n
    <3> QED
      BY <1>2, <1>4, <3>1, <3>3, <3>6 DEF InPlace, Shown, Kept, n, h
  <2> QED
    BY <2>2, <2>3
<1>8. CASE w.at # 0
  <2>1. /\ nav[t].active /\ NavFrom(t) = nav[t]
        /\ nav[t].saved = w.line /\ nav[t].at = w.cursor
    BY <1>8 DEF InPlace, NavFrom
  <2>2. /\ nav'[t].active /\ nav'[t].saved = w.line /\ nav'[t].at = w.cursor
        /\ ~AtOldest(t) =>
             nav'[t].index = Slot(nav[t].index + Slots - 1) /\ pc'[t] = "show"
        /\ AtOldest(t) => nav'[t] = nav[t] /\ pc'[t] = "idle"
    <3>1. CASE AtOldest(t)
      BY <2>1, <3>1, PrevIs, Zenon
    <3>2. CASE ~AtOldest(t)
      <4>1. GoesTo(t, nav[t], Slot(nav[t].index + Slots - 1))
        BY <2>1, <3>2, PrevIs, Zenon
      <4>2. nav[t] \in Nav /\ nav[t].at <= Len(nav[t].saved) /\ nav[t].index \in 0 .. Slots - 1
        BY NavOK DEF Nav
      <4>3. nav[t].index + Slots - 1 \in 0 .. 2 * Slots - 1
        BY <4>2, TerminalAssumption
      <4>4. Slot(nav[t].index + Slots - 1) \in 0 .. Slots - 1
        BY <4>3, SlotInRing
      <4>5. pc'[t] = "show"
        BY <4>1, Zenon DEF GoesTo
      <4> HIDE DEF GoesTo
      <4> QED
        BY <2>1, <3>2, <4>1, <4>2, <4>4, <4>5, GoesOK
    <3> QED
      BY <3>1, <3>2
  <2>3. CASE w.at < Listed
    <3>1. walk'[t] = [w EXCEPT !.kept = FALSE]
      BY <1>2, <1>8, <2>3, UpIs, Zenon
    <3>2. /\ walk'[t].at = w.at /\ walk'[t].line = w.line /\ walk'[t].cursor = w.cursor
          /\ walk'[t].kept = FALSE
      BY <1>1, <3>1 DEF WalkOf
    <3> HIDE DEF w
    <3> QED
      BY <1>8, <2>2, <3>2, LostInPlace DEF w
  <2>4. CASE w.at = Listed
    <3>1. walk'[t] = w
      BY <1>2, <2>4, UpIs, Zenon
    <3>2. CASE w.kept
      <4>1. w.at \in Held .. n /\ nav[t].index = Back(h, n - w.at + 1)
        BY <1>8, <3>2 DEF InPlace, Kept
      <4>2. n - w.at + 1 = c /\ c # 0
        BY <1>1, <1>5, <2>4, <4>1
      <4>3. AtOldest(t)
        BY <1>6, <2>1, <4>1, <4>2, Zenon DEF AtOldest
      <4>4. nav'[t] = nav[t] /\ pc'[t] = "idle"
        BY <2>2, <4>3
      <4> QED
        BY <1>2, <3>1, <4>4, StaysInPlace
    <3>3. CASE ~w.kept
      BY <1>8, <2>2, <3>1, <3>3, LostInPlace
    <3> QED
      BY <3>2, <3>3
  <2>5. CASE w.at > Listed
    <3>1. walk'[t] = At(w, w.at - 1)
      BY <1>2, <1>8, <2>5, UpIs, Zenon
    <3>2. /\ w.at - 1 \in Nat /\ w.at - 1 # 0 /\ Held <= w.at - 1
          /\ n - (w.at - 1) + 1 = (n - w.at + 1) + 1
      <4>1. PICK a \in Nat, l \in Nat \ {0}, o \in Nat \ {0} : a = w.at /\ l = Listed /\ o = Held
        BY <1>1, <1>5
      <4>2. a > l /\ o <= l
        BY <1>5, <2>5, <4>1
      <4>3. a - 1 \in Nat /\ a - 1 # 0 /\ o <= a - 1 /\ n - (a - 1) + 1 = (n - a + 1) + 1
        BY <1>1, <4>1, <4>2
      <4> QED
        BY <4>1, <4>3, Zenon
    <3>3. /\ walk'[t].at = w.at - 1 /\ walk'[t].line = w.line /\ walk'[t].cursor = w.cursor
          /\ walk'[t].kept <=> (w.kept /\ ~Overwritten(w.at - 1))
      <4>1. PICK m \in Nat : m = w.at - 1
        BY <3>2
      <4>2. /\ At(w, m).at = m /\ At(w, m).line = w.line /\ At(w, m).cursor = w.cursor
            /\ At(w, m).kept <=> (w.kept /\ ~Overwritten(m))
        BY <1>1, AtIs
      <4>3. walk'[t] = At(w, m)
        BY <3>1, <4>1, Zenon
      <4> HIDE DEF w
      <4> QED
        BY <4>1, <4>2, <4>3, Zenon
    <3>4. CASE ~walk'[t].kept
      BY <2>2, <3>2, <3>3, <3>4, LostInPlace, Zenon
    <3>5. CASE walk'[t].kept
      <4>1. w.at \in Held .. n /\ nav[t].index = Back(h, n - w.at + 1)
        BY <1>8, <3>3, <3>5 DEF InPlace, Kept
      <4>2. n - w.at + 1 \in 1 .. Slots - 1 /\ n - w.at + 1 # c /\ c \in 1 .. Slots
        BY <1>1, <1>5, <2>5, <4>1, PlaceOf
      <4>3. Back(h, n - w.at + 1) # Back(h, c)
        <5>1. n - w.at + 1 \in 1 .. Slots
          BY <4>1, PlaceOf
        <5>2. \A k, l \in 1 .. Slots : Back(h, k) = Back(h, l) => k = l
          BY <1>1, BackFacts
        <5> QED
          BY <4>2, <5>1, <5>2, Zenon
      <4>4. ~AtOldest(t)
        <5>1. c # 0
          BY <4>2
        <5> QED
          BY <1>6, <4>1, <4>3, <5>1, Zenon DEF AtOldest
      <4>5. nav'[t].index = Back(h, (n - w.at + 1) + 1) /\ pc'[t] = "show"
        <5>1. Slot(Back(h, n - w.at + 1) + Slots - 1) = Back(h, (n - w.at + 1) + 1)
          BY <1>1, <4>2, SlotBack
        <5> QED
          BY <2>2, <4>1, <4>4, <5>1
      <4>6. w.at - 1 \in Held .. n
        BY <1>1, <1>5, <3>2, <4>1
      <4>7. ~Overwritten(w.at - 1)
        BY <3>3, <3>5, Zenon
      <4> HIDE DEF w, n, h
      <4> QED
        BY <1>2, <1>4, <2>2, <3>2, <3>3, <3>5, <4>5, <4>6, <4>7
        DEF InPlace, Shown, Kept, n, h
    <3> QED
      BY <3>4, <3>5
  <2> QED
    BY <1>1, <1>5, <2>3, <2>4, <2>5
<1> QED
  BY <1>7, <1>8

\* Down: to the next newer line, and from the newest back to the draft.
LEMMA NextInPlace ==
    ASSUME Slots > 1, LineOK, RingOK, HoldsLog,
           NEW t \in Tty, InPlace(t), Shown(t), NextEntry(t)
    PROVE  InPlace(t)' /\ Shown(t)'
<1> DEFINE h == cmd_history_head
           n == Len(log)
           c == cmd_history_count
           w == walk[t]
<1>1. /\ h \in 0 .. Slots - 1 /\ n \in Nat /\ w \in WalkOf /\ w.at \in Nat /\ w.kept \in BOOLEAN
      /\ nav[t] \in Nav /\ log \in Seq(Line) /\ Slots \in Nat
  BY TerminalAssumption DEF RingOK, LineOK, WalkOf
<1>2. /\ log' = log /\ cmd_history_head' = h
      /\ pc[t] = "idle" /\ walk'[t] = DownFrom(t) /\ Touches(t)
  BY NextIs, Zenon DEF storeVars, ringVars
<1>3. pc'[t] \in {"idle", "show"}
  BY NextIs, Zenon DEF GoesTo
<1>4. Held' = Held /\ \A a : Overwritten(a)' <=> Overwritten(a)
  <2>1. pc[t] \notin Storing /\ pc'[t] \notin Storing
    BY <1>2, <1>3 DEF Storing
  <2> QED
    BY <1>2, <2>1, SameStores, Zenon
<1>5. /\ Listed = n - c + 1 /\ c \in 0 .. Slots /\ c <= n /\ Held <= Listed
      /\ Listed \in Nat \ {0} /\ Held \in Nat \ {0}
      /\ Held = IF n > Slots THEN n - Slots + 1 ELSE 1
  BY ListedIs, ListIs
<1>6. nav[t].active <=> w.at # 0
  BY DEF InPlace
<1>7. CASE w.at = 0
  <2>1. AtDraft(t) /\ ~AtNewest(t)
    BY <1>6, <1>7, Zenon DEF AtDraft, AtNewest
  <2>2. nav'[t] = nav[t] /\ pc'[t] = "idle" /\ line'[t] = line[t] /\ cursor'[t] = cursor[t]
    BY <2>1, NextIs, Zenon
  <2>3. walk'[t] = w
    BY <1>2, <1>7, DownIs, Zenon
  <2> QED
    BY <1>2, <2>2, <2>3, StaysInPlace
<1>8. CASE w.at # 0
  <2>1. nav[t].active /\ nav[t].saved = w.line /\ nav[t].at = w.cursor
    BY <1>8 DEF InPlace
  <2>2. AtNewest(t) =>
          /\ line'[t] = w.line /\ cursor'[t] = w.cursor
          /\ nav'[t] = NoNav /\ pc'[t] = "idle" /\ ~nav'[t].active
    <3>1. ~NoNav.active
      BY DEF NoNav
    <3> QED
      BY <2>1, <3>1, NextIs, Zenon
  <2>3. ~AtNewest(t) =>
          /\ nav'[t].active /\ nav'[t].saved = w.line /\ nav'[t].at = w.cursor
          /\ ~AtDraft(t) => nav'[t].index = Slot(nav[t].index + 1) /\ pc'[t] = "show"
    <3>1. CASE AtDraft(t)
      BY <2>1, <3>1, NextIs, Zenon
    <3>2. CASE ~AtDraft(t) /\ ~AtNewest(t)
      <4>1. GoesTo(t, nav[t], Slot(nav[t].index + 1))
        BY <3>2, NextIs, Zenon
      <4>2. nav[t] \in Nav /\ nav[t].at <= Len(nav[t].saved) /\ nav[t].index \in 0 .. Slots - 1
        BY NavOK DEF Nav
      <4>3. nav[t].index + 1 \in 0 .. 2 * Slots - 1
        BY <1>1, <4>2
      <4>4. Slot(nav[t].index + 1) \in 0 .. Slots - 1
        BY <4>3, SlotInRing
      <4>5. pc'[t] = "show"
        BY <4>1, Zenon DEF GoesTo
      <4> HIDE DEF GoesTo
      <4> QED
        BY <2>1, <4>1, <4>2, <4>4, <4>5, GoesOK
    <3> QED
      BY <3>1, <3>2
  <2>4. CASE ~(w.kept /\ w.at >= Listed)
    <3>1. CASE AtNewest(t)
      <4>1. walk'[t] = [w EXCEPT !.at = 0, !.kept = TRUE, !.fresh = TRUE]
        BY <1>2, <1>8, <2>2, <2>4, <3>1, DownIs, Zenon
      <4>2. /\ walk'[t].at = 0 /\ walk'[t].kept = TRUE
            /\ walk'[t].line = w.line /\ walk'[t].cursor = w.cursor
        BY <1>1, <4>1 DEF WalkOf
      <4> HIDE DEF w
      <4> QED
        BY <2>2, <3>1, <4>2 DEF InPlace, Shown, Kept, DraftShown
    <3>2. CASE ~AtNewest(t)
      <4>1. walk'[t] = [w EXCEPT !.kept = FALSE]
        BY <1>2, <1>8, <2>3, <2>4, <3>2, DownIs, Zenon
      <4>2. /\ walk'[t].at = w.at /\ walk'[t].kept = FALSE
            /\ walk'[t].line = w.line /\ walk'[t].cursor = w.cursor
        BY <1>1, <4>1 DEF WalkOf
      <4> HIDE DEF w
      <4> QED
        BY <1>8, <2>3, <3>2, <4>2, LostInPlace DEF w
    <3> QED
      BY <3>1, <3>2
  <2>5. CASE w.kept /\ w.at >= Listed
    <3>1. /\ w.at \in Held .. n /\ nav[t].index = Back(h, n - w.at + 1)
      BY <1>8, <2>5 DEF InPlace, Kept
    <3>2. /\ n - w.at + 1 \in 1 .. Slots /\ n - w.at + 1 <= c
          /\ n - w.at + 1 = 1 <=> w.at = n
      <4>1. n - w.at + 1 \in 1 .. Slots
        BY <3>1, PlaceOf
      <4>2. n - w.at + 1 <= c /\ (n - w.at + 1 = 1 <=> w.at = n)
        BY <1>1, <1>5, <2>5
      <4> QED
        BY <4>1, <4>2
    <3>3. walk'[t] = [w EXCEPT !.at = IF w.at = n THEN 0 ELSE w.at + 1, !.fresh = TRUE]
      BY <1>2, <1>8, <2>5, DownIs, Zenon
    <3>4. /\ walk'[t].at = IF w.at = n THEN 0 ELSE w.at + 1
          /\ walk'[t].kept = w.kept
          /\ walk'[t].line = w.line /\ walk'[t].cursor = w.cursor
      BY <1>1, <3>3 DEF WalkOf
    <3>5. CASE w.at = n
      <4>1. AtNewest(t)
        <5>1. nav[t].index = Back(h, 1)
          BY <3>1, <3>2, <3>5
        <5>2. Slot(Back(h, 1) + 1) = h
          BY <1>1, SlotBack
        <5>3. 1 \in 1 .. Slots - 1
          BY <1>1
        <5>4. Back(h, 1) # h
          BY <1>1, <5>3, BackFacts
        <5> QED
          BY <2>1, <5>1, <5>2, <5>4, Zenon DEF AtNewest
      <4> HIDE DEF w, n
      <4> QED
        BY <2>2, <2>5, <3>4, <3>5, <4>1 DEF InPlace, Shown, Kept, DraftShown
    <3>6. CASE w.at # n
      <4>1. n - w.at + 1 \in 2 .. Slots
        BY <1>1, <3>2, <3>6
      <4>2. Slot(Back(h, n - w.at + 1) + 1) = Back(h, (n - w.at + 1) - 1)
        BY <1>1, <4>1, SlotBack
      <4>3. ~AtNewest(t)
        <5>1. (n - w.at + 1) - 1 \in 1 .. Slots - 1
          <6>1. \A i \in 2 .. Slots : i - 1 \in 1 .. Slots - 1
            BY <1>1
          <6> QED
            BY <4>1, <6>1
        <5>2. Back(h, (n - w.at + 1) - 1) # h
          BY <1>1, <5>1, BackFacts
        <5> QED
          BY <3>1, <4>2, <5>2, Zenon DEF AtNewest
      <4>4. ~AtDraft(t)
        <5> SUFFICES ASSUME nav[t].index = h, c < Slots
                     PROVE  FALSE
          BY <2>1, Zenon DEF AtDraft
        <5>1. n - w.at + 1 \in 1 .. Slots - 1
          BY <1>1, <1>5, <3>2
        <5>2. Back(h, n - w.at + 1) # h
          BY <1>1, <5>1, BackFacts
        <5> QED
          BY <3>1, <5>2
      <4>5. nav'[t].index = Back(h, (n - w.at + 1) - 1) /\ pc'[t] = "show"
        BY <2>3, <3>1, <4>2, <4>3, <4>4
      <4>6. /\ (n - w.at + 1) - 1 = n - (w.at + 1) + 1 /\ w.at + 1 # 0
            /\ w.at + 1 \in Held .. n /\ w.at + 1 # Held
        <5>1. PICK a \in Nat, o \in Nat \ {0} : a = w.at /\ o = Held
          BY <1>1, <1>5
        <5>2. a \in o .. n /\ a # n
          BY <3>1, <3>6, <5>1
        <5>3. /\ (n - a + 1) - 1 = n - (a + 1) + 1 /\ a + 1 # 0
              /\ a + 1 \in o .. n /\ a + 1 # o
          BY <1>1, <5>2
        <5> QED
          BY <5>1, <5>3, Zenon
      <4>7. ~Overwritten(w.at + 1)
        BY <4>6, Zenon DEF Overwritten
      <4>8. walk'[t].at = w.at + 1
        BY <3>4, <3>6
      <4> HIDE DEF w, n, h
      <4> QED
        BY <1>2, <1>4, <2>3, <3>4, <4>3, <4>5, <4>6, <4>7, <4>8
        DEF InPlace, Shown, Kept, n, h
    <3> QED
      BY <3>5, <3>6
  <2> QED
    BY <2>4, <2>5
<1> QED
  BY <1>7, <1>8

\* The entry shown is the line the user is at: the USB terminal's has been chosen since
\* the store it interrupts began, and the UART terminal's is shown while no store is
\* under way.
LEMMA ShowInPlace ==
    ASSUME LineOK, RingOK, HoldsLog, NEW t \in Tty, InPlace(t), Shown(t), Show(t)
    PROVE  InPlace(t)' /\ Shown(t)'
<1>1. /\ pc[t] = "show" /\ pc'[t] = "idle" /\ nav'[t] = nav[t] /\ walk'[t] = walk[t]
      /\ line'[t] = cmd_history[nav[t].index] /\ Runs(t)
      /\ log' = log /\ cmd_history_head' = cmd_history_head
  BY ShowIs, Zenon DEF storeVars, ringVars
<1>2. walk[t].at # 0
  BY <1>1 DEF InPlace
<1>3. walk[t].kept => ~Overwritten(walk[t].at)
  <2>1. CASE t = "usb"
    BY <1>1, <2>1 DEF InPlace
  <2>2. CASE t = "uart"
    BY <1>1, <2>2 DEF Runs, Overwritten, Tty
  <2> QED
    BY <2>1, <2>2 DEF Tty
<1>4. walk[t].kept => line'[t] = log[walk[t].at]
  <2> SUFFICES ASSUME walk[t].kept
               PROVE  line'[t] = log[walk[t].at]
    OBVIOUS
  <2>1. /\ walk[t].at \in Held .. Len(log)
        /\ nav[t].index = Back(cmd_history_head, Len(log) - walk[t].at + 1)
    BY <1>2 DEF InPlace, Kept
  <2>2. cmd_history[Back(cmd_history_head, Len(log) - walk[t].at + 1)] = log[walk[t].at]
    BY <1>3, <2>1, PlaceOf
  <2> QED
    BY <1>1, <2>1, <2>2, Zenon
<1>5. Shown(t)'
  BY <1>1, <1>2, <1>4, Zenon DEF Shown, EntryShown
<1>6. InPlace(t)'
  <2>1. Held' = Held
    BY <1>1 DEF Held, LastLines
  <2> QED
    BY <1>1, <2>1 DEF InPlace, Kept
<1> QED
  BY <1>5, <1>6

\* The UART terminal's handler never finds the USB terminal's between choosing an entry
\* and showing it.
LEMMA NotShowing ==
    ASSUME NEW t \in Tty, Runs(t), NEW u \in Tty, u # t
    PROVE  ~(u = "usb" /\ pc[u] = "show")
BY DEF Runs, Tty

\* Another terminal's key leaves a user where he is.
LEMMA OthersInPlace ==
    ASSUME LineOK, NEW t \in Tty, Runs(t), NEW u \in Tty, u # t, Touches(t),
           log' = log, cmd_history_head' = cmd_history_head, InPlace(u), Shown(u)
    PROVE  InPlace(u)' /\ Shown(u)'
<1>1. /\ line'[u] = line[u] /\ cursor'[u] = cursor[u] /\ nav'[u] = nav[u]
      /\ pc'[u] = pc[u] /\ walk'[u] = walk[u]
  BY DEF LineOK, Touches
<1> QED
  BY <1>1, NotShowing, StaysInPlace

\* He who leaves the history is nowhere in it.
LEMMA ResetInPlace ==
    ASSUME NEW t \in Tty, nav'[t] = NoNav, walk'[t] = NoWalk, pc'[t] = "idle"
    PROVE  InPlace(t)' /\ Shown(t)'
<1>1. ~NoNav.active /\ NoWalk.at = 0 /\ NoWalk.kept = TRUE /\ NoWalk.fresh = FALSE
  BY DEF NoNav, NoWalk
<1> QED
  BY <1>1 DEF InPlace, Shown, Kept

\* He who edits a line keeps his place.
LEMMA EditInPlace ==
    ASSUME LineOK, NEW t \in Tty, InPlace(t), Edits(t)
    PROVE  InPlace(t)' /\ Shown(t)'
<1>1. /\ nav'[t] = nav[t] /\ walk'[t] = [walk[t] EXCEPT !.fresh = FALSE] /\ pc'[t] = "idle"
      /\ log' = log /\ cmd_history_head' = cmd_history_head
  BY DEF Edits, storeVars, ringVars
<1>2. walk[t] \in WalkOf
  BY DEF LineOK
<1>3. /\ walk'[t].at = walk[t].at /\ walk'[t].kept = walk[t].kept
      /\ walk'[t].line = walk[t].line /\ walk'[t].cursor = walk[t].cursor
      /\ walk'[t].fresh = FALSE
  BY <1>1, <1>2 DEF WalkOf
<1>4. Held' = Held
  BY <1>1 DEF Held, LastLines
<1> QED
  BY <1>1, <1>3, <1>4 DEF InPlace, Shown, Kept

\* The head moves past a line: that takes everybody one line further from the newest.
LEMMA HeadInPlace ==
    ASSUME LineOK, RingOK, RingInv, NEW t \in Tty, StoreHead(t), ~torn',
           NEW u \in Tty, InPlace(u), Shown(u)
    PROVE  InPlace(u)' /\ Shown(u)'
<1> DEFINE h == cmd_history_head
           n == Len(log)
           w == walk[u]
<1>1. /\ h \in 0 .. Slots - 1 /\ n \in Nat /\ log \in Seq(Line) /\ line[t] \in Line
      /\ w \in WalkOf /\ w.at \in Nat /\ w.kept \in BOOLEAN
  BY DEF RingOK, LineOK, WalkOf
<1>2. /\ cmd_history_head' = Slot(h + 1) /\ log' = Append(log, line[t])
      /\ pc[t] = "copy" /\ pc' = [pc EXCEPT ![t] = "count"]
      /\ UNCHANGED <<line, cursor, nav>>
  BY HeadIs, Zenon
<1>3. /\ Runs(t)
      /\ walk' = [v \in Tty |->
           [walk[v] EXCEPT !.kept = @ /\ (walk[v].at = 0 \/ walk[v].at >= Held')]]
  BY Zenon DEF StoreHead
<1>4. /\ walk'[u].at = w.at /\ walk'[u].fresh = w.fresh
      /\ walk'[u].line = w.line /\ walk'[u].cursor = w.cursor
      /\ walk'[u].kept <=> (w.kept /\ (w.at = 0 \/ w.at >= Held'))
  <2>1. walk'[u] = [w EXCEPT !.kept = w.kept /\ (w.at = 0 \/ w.at >= Held')]
    BY <1>3, Zenon
  <2>2. PICK k \in BOOLEAN : k <=> (w.kept /\ (w.at = 0 \/ w.at >= Held'))
    OBVIOUS
  <2>3. k = (w.kept /\ (w.at = 0 \/ w.at >= Held'))
    BY <2>2
  <2>4. walk'[u] = [w EXCEPT !.kept = k]
    BY <2>1, <2>3, Zenon
  <2>5. /\ walk'[u].at = w.at /\ walk'[u].fresh = w.fresh
        /\ walk'[u].line = w.line /\ walk'[u].cursor = w.cursor /\ walk'[u].kept = k
    BY <1>1, <2>4 DEF WalkOf
  <2> QED
    BY <2>2, <2>5, Zenon
<1>5. /\ pc'[u] = "idle" => pc[u] = "idle"
      /\ pc'[u] = "show" => pc[u] = "show" /\ u # t
  BY <1>2 DEF LineOK
<1>6. Len(log') = n + 1 /\ \A i \in 1 .. n : log'[i] = log[i]
  BY <1>1, <1>2, AppendProperties
<1>7. /\ Held = IF n > Slots THEN n - Slots + 1 ELSE 1
      /\ Held' = IF n + 1 > Slots THEN (n + 1) - Slots + 1 ELSE 1
  BY <1>6 DEF Held, LastLines
<1>8. ASSUME w.at # 0, w.kept, w.at >= Held'
      PROVE  /\ w.at \in Held' .. n + 1 /\ w.at \in 1 .. n
             /\ nav[u].index = Back(Slot(h + 1), (n + 1) - w.at + 1)
  <2>1. w.at \in Held .. n /\ nav[u].index = Back(h, n - w.at + 1)
    BY <1>8 DEF InPlace, Kept
  <2>2. /\ w.at \in Held' .. n + 1 /\ w.at \in 1 .. n
        /\ n - w.at + 1 \in 1 .. Slots - 1
        /\ (n + 1) - w.at + 1 = (n - w.at + 1) + 1
    <3>1. PICK a \in Nat, o \in Int, p \in Int : a = w.at /\ o = Held' /\ p = Held
      <4>1. Held' \in Int /\ Held \in Int
        BY <1>1, <1>7, TerminalAssumption
      <4> QED
        BY <1>1, <4>1, Zenon
    <3>2. a # 0 /\ a >= o /\ a \in p .. n
      BY <1>8, <2>1, <3>1
    <3>3. /\ p = IF n > Slots THEN n - Slots + 1 ELSE 1
          /\ o = IF n + 1 > Slots THEN (n + 1) - Slots + 1 ELSE 1
      BY <1>7, <3>1
    <3>4. /\ a \in o .. n + 1 /\ a \in 1 .. n /\ n - a + 1 \in 1 .. Slots - 1
          /\ (n + 1) - a + 1 = (n - a + 1) + 1
      BY <1>1, <3>2, <3>3, TerminalAssumption
    <3> QED
      BY <3>1, <3>4, Zenon
  <2>3. Back(Slot(h + 1), (n - w.at + 1) + 1) = Back(h, n - w.at + 1)
    BY <1>1, <2>2, BackOn
  <2> QED
    BY <2>1, <2>2, <2>3, Zenon
<1>9. /\ nav[u].active <=> w.at # 0
      /\ w.at # 0 => nav[u].saved = w.line /\ nav[u].at = w.cursor
      /\ ~w.kept => w.at # 0
      /\ pc[u] = "show" => w.at # 0
  BY DEF InPlace
<1>10. ~(u = "usb" /\ pc'[u] = "show")
  BY <1>3, <1>5, NotShowing
<1>11. InPlace(u)'
  <2>1. ASSUME walk'[u].at # 0, walk'[u].kept
        PROVE  /\ w.at \in Held' .. n + 1
               /\ nav[u].index = Back(Slot(h + 1), (n + 1) - w.at + 1)
    BY <1>4, <1>8, <2>1, Zenon
  <2>2. ~walk'[u].kept => walk'[u].at # 0
    BY <1>4, <1>9, Zenon
  <2> HIDE DEF w, n, h
  <2> QED
    BY <1>2, <1>4, <1>5, <1>6, <1>9, <1>10, <2>1, <2>2, Zenon DEF InPlace, Kept, h
<1>12. Shown(u)'
  <2> SUFFICES ASSUME pc[u] = "idle", w.fresh
               PROVE  IF w.at = 0 THEN DraftShown(u)' ELSE EntryShown(u)'
    BY <1>4, <1>5 DEF Shown
  <2>1. CASE w.at = 0
    BY <1>2, <1>4, <2>1 DEF Shown, DraftShown
  <2>2. CASE w.at # 0
    <3> SUFFICES ASSUME walk'[u].kept
                 PROVE  line'[u] = log'[walk'[u].at]
      BY <2>2 DEF EntryShown
    <3>1. w.kept /\ w.at >= Held'
      BY <1>4, <2>2, Zenon
    <3>2. w.at \in 1 .. n
      BY <1>8, <2>2, <3>1
    <3>3. line[u] = log[w.at]
      BY <2>2, <3>1 DEF Shown, EntryShown
    <3> QED
      BY <1>2, <1>4, <1>6, <3>2, <3>3, Zenon
  <2> QED
    BY <2>1, <2>2
<1> QED
  BY <1>11, <1>12

\* Every step keeps every user in place.  In a ring of one slot the head is the newest
\* entry's slot as well, so that down from it never brings back what was being typed.
LEMMA WalkStep ==
    ASSUME Slots > 1, LineOK, RingOK, RingInv, WalkInv, HistNext
    PROVE  WalkInv'
<1> SUFFICES ASSUME ~torn', NEW u \in Tty
             PROVE  InPlace(u)' /\ Shown(u)'
  BY DEF WalkInv
<1>1. CASE UNCHANGED <<editVars, storeVars, pc, walk>>
  <2>1. /\ line' = line /\ cursor' = cursor /\ nav' = nav /\ pc' = pc /\ walk' = walk
        /\ log' = log /\ cmd_history_head' = cmd_history_head /\ torn' = torn
    BY <1>1 DEF editVars, storeVars, ringVars
  <2>2. InPlace(u) /\ Shown(u)
    BY <2>1, Zenon DEF WalkInv
  <2> QED
    BY <2>1, <2>2 DEF InPlace, Shown, Kept, DraftShown, EntryShown, Held, LastLines, Overwritten
<1>2. ASSUME NEW t \in Tty, Runs(t), Touches(t),
             UNCHANGED <<torn, log, cmd_history_head>>,
             HoldsLog /\ InPlace(t) /\ Shown(t) => InPlace(t)' /\ Shown(t)'
      PROVE  InPlace(u)' /\ Shown(u)'
  <2>1. ~torn
    BY <1>2
  <2>2. HoldsLog /\ InPlace(t) /\ Shown(t) /\ InPlace(u) /\ Shown(u)
    BY <2>1, Zenon DEF RingInv, WalkInv
  <2>3. CASE u = t
    BY <1>2, <2>2, <2>3
  <2>4. CASE u # t
    BY <1>2, <2>2, <2>4, OthersInPlace
  <2> QED
    BY <2>3, <2>4
<1>3. ASSUME NEW t \in Tty, Touches(t) /\ NewLine(t) /\ (Resets(t) \/ Edits(t))
      PROVE  InPlace(u)' /\ Shown(u)'
  <2>1. Runs(t) /\ UNCHANGED <<torn, log, cmd_history_head>>
    BY <1>3 DEF Resets, Edits, storeVars, ringVars
  <2>2. InPlace(t) => InPlace(t)' /\ Shown(t)'
    BY <1>3, ResetInPlace, EditInPlace, Zenon DEF Resets
  <2> QED
    BY <1>2, <1>3, <2>1, <2>2
<1>4. ASSUME NEW t \in Tty, Prev(t)
      PROVE  InPlace(u)' /\ Shown(u)'
  <2>1. Runs(t) /\ Touches(t) /\ UNCHANGED <<torn, log, cmd_history_head>>
    BY <1>4, PrevIs, Zenon DEF storeVars, ringVars
  <2>2. HoldsLog /\ InPlace(t) /\ Shown(t) => InPlace(t)' /\ Shown(t)'
    BY <1>4, PrevInPlace
  <2> QED
    BY <1>2, <2>1, <2>2
<1>5. ASSUME NEW t \in Tty, NextEntry(t)
      PROVE  InPlace(u)' /\ Shown(u)'
  <2>1. Runs(t) /\ Touches(t) /\ UNCHANGED <<torn, log, cmd_history_head>>
    BY <1>5, NextIs, Zenon DEF storeVars, ringVars
  <2>2. HoldsLog /\ InPlace(t) /\ Shown(t) => InPlace(t)' /\ Shown(t)'
    BY <1>5, NextInPlace
  <2> QED
    BY <1>2, <2>1, <2>2
<1>6. ASSUME NEW t \in Tty, Show(t)
      PROVE  InPlace(u)' /\ Shown(u)'
  <2>1. Runs(t) /\ Touches(t) /\ UNCHANGED <<torn, log, cmd_history_head>>
    BY <1>6, ShowIs, Zenon DEF storeVars, ringVars
  <2>2. HoldsLog /\ InPlace(t) /\ Shown(t) => InPlace(t)' /\ Shown(t)'
    BY <1>6, ShowInPlace
  <2> QED
    BY <1>2, <2>1, <2>2
<1>7. ASSUME NEW t \in Tty, StoreCount(t)
      PROVE  InPlace(u)' /\ Shown(u)'
  <2>1. Runs(t) /\ Touches(t) /\ UNCHANGED <<torn, log, cmd_history_head>>
    BY <1>7, StoreCountIs, Zenon
  <2>2. InPlace(t)' /\ Shown(t)'
    BY <1>7, StoreCountIs, ResetInPlace, Zenon
  <2> QED
    BY <1>2, <2>1, <2>2
<1>8. ASSUME NEW t \in Tty, CrStores(t)
      PROVE  InPlace(u)' /\ Shown(u)'
  <2>1. /\ line' = line /\ cursor' = cursor /\ nav' = nav /\ walk' = walk
        /\ log' = log /\ cmd_history_head' = cmd_history_head
        /\ pc' = [pc EXCEPT ![t] = "copy"] /\ Runs(t)
    BY <1>8 DEF CrStores, editVars, ringVars
  <2>2. ~torn
    BY <1>8, Zenon DEF CrStores
  <2>3. InPlace(u) /\ Shown(u)
    BY <2>2, Zenon DEF WalkInv
  <2>4. Held' = Held
    BY <2>1 DEF Held, LastLines
  <2>5. CASE u = t
    <3>1. pc'[u] = "copy"
      BY <2>1, <2>5 DEF LineOK
    <3> QED
      BY <2>1, <2>3, <2>4, <3>1 DEF InPlace, Shown, Kept
  <2>6. CASE u # t
    <3>1. pc'[u] = pc[u] /\ ~(u = "usb" /\ pc[u] = "show")
      BY <2>1, <2>6, NotShowing DEF LineOK
    <3> QED
      BY <2>1, <2>3, <3>1, StaysInPlace
  <2> QED
    BY <2>5, <2>6
<1>9. ASSUME NEW t \in Tty, StoreCopy(t)
      PROVE  InPlace(u)' /\ Shown(u)'
  <2>1. /\ line' = line /\ cursor' = cursor /\ nav' = nav /\ pc' = pc /\ walk' = walk
        /\ log' = log /\ cmd_history_head' = cmd_history_head /\ torn' = torn
    BY <1>9, Zenon DEF StoreCopy, editVars
  <2>2. InPlace(u) /\ Shown(u)
    BY <2>1, Zenon DEF WalkInv
  <2> QED
    BY <2>1, <2>2 DEF InPlace, Shown, Kept, DraftShown, EntryShown, Held, LastLines, Overwritten
<1>10. ASSUME NEW t \in Tty, StoreHead(t)
       PROVE  InPlace(u)' /\ Shown(u)'
  <2>1. ~torn
    BY <1>10, HeadIs, Zenon
  <2>2. InPlace(u) /\ Shown(u)
    BY <2>1, Zenon DEF WalkInv
  <2> QED
    BY <1>10, <2>2, HeadInPlace
<1> QED
  BY <1>1, <1>3, <1>4, <1>5, <1>6, <1>7, <1>8, <1>9, <1>10, Zenon DEF HistNext, HistStep
-----------------------------------------------------------------------------
(* The KISS link *)

\* The steps that the link is about, ...
LinkNext ==
    \/ UNCHANGED linkVars
    \/ Tick
    \/ \E t \in Tty :
         \/ HostLose(t) \/ \E f \in KissFrames[t] : HostBegin(t, f)
         \/ \E b \in Arriving(t) : KissKey(t, b) \/ \E k : k # "FEND" /\ KeyByte(t, b, k)

\* ... of which every step is one.
LEMMA StepLink == [Next]_vars => LinkNext
<1> SUFFICES ASSUME [Next]_vars
             PROVE  LinkNext
  OBVIOUS
<1>1. CASE UNCHANGED vars
  BY <1>1, Zenon DEF vars, linkVars, LinkNext
<1>2. CASE Tick
  BY <1>2 DEF LinkNext
<1>3. ASSUME NEW t \in Tty, HostLose(t) \/ \E f \in KissFrames[t] : HostBegin(t, f)
      PROVE  LinkNext
  BY <1>3, Zenon DEF LinkNext
<1>4. ASSUME NEW t \in Tty, NEW b \in Arriving(t), KissKey(t, b) \/ Insert(t, b)
      PROVE  LinkNext
  <2>1. Insert(t, b) => KeyByte(t, b, b) /\ b # "FEND"
    BY Zenon DEF Insert
  <2> QED
    BY <1>4, <2>1, Zenon DEF LinkNext
<1>5. ASSUME NEW t \in Tty,
             \/ NoKey(t) \/ Backspace(t) \/ Delete(t) \/ MoveCursor(t) \/ CtrlC(t)
             \/ Prev(t) \/ NextEntry(t) \/ Cr(t)
      PROVE  LinkNext
  <2>1. PICK k : k # "FEND" /\ Key(t, k)
    BY <1>5 DEF NoKey, Backspace, Delete, MoveCursor, Move, CtrlC, Prev, NextEntry, Cr
  <2> QED
    BY <2>1, Zenon DEF Key, LinkNext
<1>6. ASSUME NEW t \in Tty, Show(t) \/ StoreCopy(t) \/ StoreHead(t) \/ StoreCount(t)
      PROVE  LinkNext
  BY <1>6, Zenon DEF Show, StoreCopy, StoreHead, StoreCount, LinkNext
<1> QED
  BY <1>1, <1>2, <1>3, <1>4, <1>5, <1>6, Zenon DEF Next, Terminal

\* Between the two bytes of an escape there is something to escape.
Escapes(s) == s.stage = "escape" => s.left # <<>> /\ s.left[1] \in {"FEND", "FESC"}

\* What kiss_output writes, one byte after the other.
LEMMA SenderOK ==
    ASSUME NEW s \in Sender, Escapes(s), s.stage # "silent"
    PROVE  /\ KissWritten(s) \in Sender /\ Escapes(KissWritten(s))
           /\ s.stage = "start" =>
                KissWrites(s) = "FEND" /\ KissWritten(s) = [stage |-> "data", left |-> s.left]
           /\ s.stage = "data" /\ s.left = <<>> =>
                KissWrites(s) = "FEND" /\ KissWritten(s) = KissSilent
           /\ s.stage = "data" /\ s.left # <<>> =>
                IF s.left[1] \in {"FEND", "FESC"}
                  THEN KissWrites(s) = "FESC" /\ KissWritten(s) = [stage |-> "escape", left |-> s.left]
                  ELSE /\ KissWrites(s) = s.left[1]
                       /\ KissWritten(s) = [stage |-> "data", left |-> Tail(s.left)]
           /\ s.stage = "escape" =>
                /\ KissWrites(s) = IF s.left[1] = "FEND" THEN "TFEND" ELSE "TFESC"
                /\ KissWritten(s) = [stage |-> "data", left |-> Tail(s.left)]
<1>1. s.left \in Seq(Byte) /\ s.stage \in {"start", "data", "escape"}
  BY DEF Sender
<1>2. CASE s.stage = "start"
  <2>1. KissWrites(s) = "FEND" /\ KissWritten(s) = [s EXCEPT !.stage = "data"]
    BY <1>2 DEF KissWrites, KissWritten
  <2>2. [s EXCEPT !.stage = "data"] = [stage |-> "data", left |-> s.left]
    BY DEF Sender
  <2> QED
    BY <1>1, <1>2, <2>1, <2>2 DEF Sender, Escapes
<1>3. CASE s.stage = "data" /\ s.left = <<>>
  <2>1. KissWrites(s) = "FEND" /\ KissWritten(s) = KissSilent
    BY <1>3 DEF KissWrites, KissWritten
  <2> QED
    BY <1>3, <2>1 DEF Sender, Escapes, KissSilent
<1>4. CASE s.stage = "data" /\ s.left # <<>> /\ s.left[1] \in {"FEND", "FESC"}
  <2>1. KissWrites(s) = "FESC"
    BY <1>4 DEF KissWrites
  <2>2. KissWritten(s) = [s EXCEPT !.stage = "escape"]
    BY <1>4, <2>1 DEF KissWritten
  <2>3. [s EXCEPT !.stage = "escape"] = [stage |-> "escape", left |-> s.left]
    BY DEF Sender
  <2> QED
    BY <1>1, <1>4, <2>1, <2>2, <2>3 DEF Sender, Escapes
<1>5. CASE s.stage = "data" /\ s.left # <<>> /\ s.left[1] \notin {"FEND", "FESC"}
  <2>1. KissWrites(s) = s.left[1]
    BY <1>5 DEF KissWrites
  <2>2. KissWritten(s) = [stage |-> "data", left |-> Tail(s.left)]
    BY <1>5, <2>1 DEF KissWritten
  <2>3. Tail(s.left) \in Seq(Byte)
    BY <1>1, <1>5, HeadTailProperties
  <2> QED
    BY <1>5, <2>1, <2>2, <2>3 DEF Sender, Escapes
<1>6. CASE s.stage = "escape"
  <2>1. KissWrites(s) = IF s.left[1] = "FEND" THEN "TFEND" ELSE "TFESC"
    BY <1>6 DEF KissWrites
  <2>2. KissWritten(s) = [stage |-> "data", left |-> Tail(s.left)]
    BY <1>6 DEF KissWritten
  <2>3. Tail(s.left) \in Seq(Byte)
    BY <1>1, <1>6, HeadTailProperties DEF Escapes
  <2> QED
    BY <1>6, <2>1, <2>2, <2>3 DEF Sender, Escapes
<1> QED
  BY <1>1, <1>2, <1>3, <1>4, <1>5, <1>6

\* So what arrives is a byte.
LEMMA ArrivingOK ==
    ASSUME LinkOK, NEW t \in Tty, NEW b \in Arriving(t)
    PROVE  b \in Byte /\ (Sending(t) => b = KissWrites(host[t].out))
<1>1. CASE ~Sending(t)
  <2>1. esc[t] \in Esc /\ b \in Keys[t][esc[t]]
    BY <1>1 DEF LinkOK, Arriving
  <2>2. b \in Printable \cup EditKey \cup {"esc"}
    BY <2>1, TerminalAssumption
  <2> QED
    BY <1>1, <2>2 DEF Byte
<1>2. CASE Sending(t)
  <2> DEFINE s == host[t].out
  <2>1. s \in Sender /\ Escapes(s) /\ s.stage # "silent" /\ b = KissWrites(s)
    BY <1>2 DEF LinkOK, HostOf, Escapes, Sending, Arriving
  <2>2. s.stage \in {"start", "data", "escape"} /\ s.left \in Seq(Byte)
    BY <2>1 DEF Sender
  <2>3. {"FEND", "FESC", "TFEND", "TFESC"} \subseteq Byte
    BY DEF Byte, KissSpecial
  <2>4. s.left # <<>> => s.left[1] \in Byte
    BY <2>2
  <2> HIDE DEF s
  <2>5. KissWrites(s) \in Byte
    BY <2>1, <2>2, <2>3, <2>4, SenderOK
  <2> QED
    BY <2>1, <2>5 DEF s
<1> QED
  BY <1>1, <1>2

\* A FEND begins a frame, unless an ANSI sequence takes it.
LEMMA FendBegins ==
    ASSUME NEW t \in Tty, esc[t].state # 2
    PROVE  Pressed(t, "FEND") = "FEND"
BY DEF Pressed, InSequence, Opener

\* The state of an ANSI sequence.
LEMMA NextEscOK ==
    ASSUME NEW e \in Esc, NEW b
    PROVE  NextEsc(e, b) \in Esc /\ NoEsc \in Esc
<1>1. e.param \in 0 .. 255 /\ NoEsc \in Esc
  BY DEF Esc, NoEsc
<1>2. Value(b) \in 0 .. 9
  BY DEF Value
<1>3. (e.param * 10 + Value(b)) % 256 \in 0 .. 255
  BY <1>1, <1>2
<1> DEFINE p == (e.param * 10 + Value(b)) % 256
<1>4. /\ [state |-> 2, param |-> p] \in Esc /\ [state |-> 1, param |-> 0] \in Esc
      /\ [state |-> 2, param |-> 0] \in Esc
  <2>1. p \in 0 .. 255
    BY <1>3
  <2> HIDE DEF p
  <2> QED
    BY <2>1 DEF Esc
<1> QED
  BY <1>1, <1>4, Zenon DEF NextEsc

\* What kiss_input does with a byte.
LEMMA ReceiverOK ==
    ASSUME NEW k \in Receiver, Len(k.buf) <= KissPacketLen, NEW b \in Byte
    PROVE  /\ KissInput(k, b) \in Receiver /\ Len(KissInput(k, b).buf) <= KissPacketLen
           /\ KissPacket(k, b) \in Seq(Seq(Byte))
<1>1. k.buf \in Seq(Byte) /\ Len(k.buf) \in Nat /\ KissPacketLen \in Nat
  BY TerminalAssumption DEF Receiver
<1>2. KissOutside \in Receiver /\ Len(KissOutside.buf) <= KissPacketLen
  BY <1>1 DEF KissOutside, Receiver
<1>3. KissPacket(k, b) \in Seq(Seq(Byte))
  <2>1. <<k.buf>> \in Seq(Seq(Byte)) /\ <<>> \in Seq(Seq(Byte))
    BY <1>1
  <2> QED
    BY <2>1, Zenon DEF KissPacket
<1>4. [k EXCEPT !.state = "FESC"] \in Receiver /\ [k EXCEPT !.state = "FESC"].buf = k.buf
  BY DEF Receiver
<1>5. [state |-> "ERROR", buf |-> <<>>] \in Receiver /\ Len(<<>>) <= KissPacketLen
  BY <1>1 DEF Receiver
<1>6. [state |-> "INSIDE", buf |-> <<>>] \in Receiver /\ Len(<<>>) <= KissPacketLen
  BY <1>1 DEF Receiver
<1>7. ASSUME ~(Len(k.buf) >= KissPacketLen)
      PROVE  /\ [state |-> "INSIDE", buf |-> Append(k.buf, Unescaped(k, b))] \in Receiver
             /\ Len(Append(k.buf, Unescaped(k, b))) <= KissPacketLen
  <2>1. {"FEND", "FESC"} \subseteq Byte
    BY DEF Byte, KissSpecial
  <2>2. Unescaped(k, b) \in Byte
    BY <2>1, Zenon DEF Unescaped
  <2>3. /\ Append(k.buf, Unescaped(k, b)) \in Seq(Byte)
        /\ Len(Append(k.buf, Unescaped(k, b))) = Len(k.buf) + 1
    BY <1>1, <2>2, AppendProperties
  <2> QED
    BY <1>1, <1>7, <2>3 DEF Receiver
<1> DEFINE Good(r) == r \in Receiver /\ Len(r.buf) <= KissPacketLen
<1>8. Good(KissInput(k, b))
  <2>1. /\ Good(k) /\ Good(KissOutside) /\ Good([k EXCEPT !.state = "FESC"])
        /\ Good([state |-> "ERROR", buf |-> <<>>])
        /\ Good([state |-> "INSIDE", buf |-> <<>>])
        /\ ~(Len(k.buf) >= KissPacketLen) =>
             Good([state |-> "INSIDE", buf |-> Append(k.buf, Unescaped(k, b))])
    BY <1>2, <1>4, <1>5, <1>6, <1>7
  <2> HIDE DEF Good
  <2> QED
    BY <2>1 DEF KissInput
<1> QED
  BY <1>3, <1>8

\* A step as one terminal's link sees it: nothing of it happens there, ...
LinkKept(t) == kiss'[t] = kiss[t] /\ kiss_age'[t] = kiss_age[t] /\ esc'[t] = esc[t]

\* (what the host hopes for)
Clear(t) == esc[t].state # 2 /\ (Open(t) => kiss_age[t] >= KissTimeout)

\* ... the host begins a frame, ...
Begins(t) ==
    /\ LinkKept(t) /\ ~Sending(t)
    /\ \E f \in KissFrames[t] :
         host'[t] = [frame |-> f, out |-> KissOutput(f), leaked |-> FALSE, taken |-> <<>>,
                     whole |-> Clear(t)]

\* ... a byte is lost, ...
Loses(t) ==
    /\ LinkKept(t) /\ Sending(t)
    /\ host'[t] = [host[t] EXCEPT !.out = KissWritten(host[t].out), !.whole = FALSE]

\* ... time passes, ...
Ages(t) ==
    /\ kiss'[t] = kiss[t] /\ esc'[t] = esc[t]
    /\ kiss_age'[t] = IF Open(t) /\ kiss_age[t] < KissTimeout THEN kiss_age[t] + 1 ELSE kiss_age[t]
    /\ host'[t] = IF Open(t) /\ Sending(t) /\ kiss_age'[t] = KissTimeout
                    THEN [host[t] EXCEPT !.whole = FALSE] ELSE host[t]

\* (what the host learns of a byte that has arrived)
Told(t, got, leaks) ==
    host'[t] = IF Sending(t)
                 THEN [host[t] EXCEPT !.out = KissWritten(host[t].out),
                                      !.taken = host[t].taken \o got,
                                      !.leaked = host[t].leaked \/ leaks]
                 ELSE host[t]

\* ... the KISS receiver takes a byte, ...
Takes(t, b) ==
    LET k == IF InFrame(t) THEN kiss[t] ELSE KissOutside IN
    /\ Sending(t) => b = KissWrites(host[t].out)
    /\ InFrame(t) \/ Pressed(t, b) = "FEND"
    /\ kiss'[t] = KissInput(k, b)
    /\ kiss_age'[t] = IF InFrame(t) THEN kiss_age[t] ELSE 0
    /\ esc'[t] = IF InFrame(t) THEN esc[t] ELSE NoEsc
    /\ Told(t, KissPacket(k, b), FALSE)

\* ... or a byte is a key.
Types(t, b) ==
    /\ Sending(t) => b = KissWrites(host[t].out)
    /\ ~InFrame(t) /\ Pressed(t, b) # "FEND"
    /\ kiss'[t] = KissOutside /\ kiss_age'[t] = 0 /\ esc'[t] = NextEsc(esc[t], b)
    /\ Told(t, <<>>, TRUE)

\* One of these.
LinkStep(t) ==
    \/ LinkKept(t) /\ host'[t] = host[t]
    \/ Begins(t) \/ Loses(t) \/ Ages(t)
    \/ \E b \in Byte : Takes(t, b) \/ Types(t, b)

\* Every step is one of them at every terminal.
LEMMA LinkNextIs ==
    ASSUME LinkOK, LinkNext, NEW u \in Tty
    PROVE  LinkStep(u)
<1>1. DOMAIN kiss = Tty /\ DOMAIN kiss_age = Tty /\ DOMAIN host = Tty /\ DOMAIN esc = Tty
  BY DEF LinkOK
<1>2. CASE UNCHANGED linkVars
  BY <1>2 DEF linkVars, LinkStep, LinkKept
<1>3. CASE Tick
  <2>1. kiss' = kiss /\ esc' = esc
    BY <1>3 DEF Tick
  <2>2. kiss_age' = [t \in Tty |->
          IF Open(t) /\ kiss_age[t] < KissTimeout THEN kiss_age[t] + 1 ELSE kiss_age[t]]
    BY <1>3 DEF Tick
  <2>3. host' = [t \in Tty |->
          IF Open(t) /\ Sending(t) /\ kiss_age'[t] = KissTimeout
            THEN [host[t] EXCEPT !.whole = FALSE] ELSE host[t]]
    BY <1>3 DEF Tick
  <2>4. Ages(u)
    BY <2>1, <2>2, <2>3 DEF Ages
  <2> QED
    BY <2>4 DEF LinkStep
<1>4. ASSUME NEW t \in Tty, HostLose(t)
      PROVE  LinkStep(u)
  <2>1. kiss' = kiss /\ kiss_age' = kiss_age /\ esc' = esc /\ Sending(t)
    BY <1>4 DEF HostLose
  <2>2. host' = [host EXCEPT ![t] = [host[t] EXCEPT !.out = KissWritten(host[t].out), !.whole = FALSE]]
    BY <1>4, <1>1 DEF HostLose
  <2>3. CASE u = t
    <3>1. Loses(u)
      BY <1>1, <2>1, <2>2, <2>3 DEF Loses, LinkKept
    <3> QED
      BY <3>1 DEF LinkStep
  <2>4. CASE u # t
    BY <1>1, <2>1, <2>2, <2>4 DEF LinkStep, LinkKept
  <2> QED
    BY <2>3, <2>4
<1>5. ASSUME NEW t \in Tty, NEW f \in KissFrames[t], HostBegin(t, f)
      PROVE  LinkStep(u)
  <2>1. kiss' = kiss /\ kiss_age' = kiss_age /\ esc' = esc /\ ~Sending(t)
    BY <1>5 DEF HostBegin
  <2>2. host' = [host EXCEPT ![t] =
          [frame |-> f, out |-> KissOutput(f), leaked |-> FALSE, taken |-> <<>>,
           whole |-> Clear(t)]]
    BY <1>5, Zenon DEF HostBegin, Clear
  <2>3. CASE u = t
    <3>1. host'[u] = [frame |-> f, out |-> KissOutput(f), leaked |-> FALSE, taken |-> <<>>,
                      whole |-> Clear(u)]
      BY <1>1, <2>2, <2>3, Zenon
    <3>2. Begins(u)
      BY <2>1, <2>3, <3>1, Zenon DEF Begins, LinkKept
    <3> QED
      BY <3>2 DEF LinkStep
  <2>4. CASE u # t
    <3>1. host'[u] = host[u]
      BY <1>1, <2>2, <2>4, Zenon
    <3> QED
      BY <2>1, <3>1 DEF LinkStep, LinkKept
  <2> QED
    BY <2>3, <2>4
<1>6. ASSUME NEW t \in Tty, NEW got, NEW leaks, HostSees(t, got, leaks)
      PROVE  Told(t, got, leaks) /\ (u # t => host'[u] = host[u])
  <2>1. CASE Sending(t)
    <3>1. host' = [host EXCEPT ![t] = [host[t] EXCEPT !.out = KissWritten(host[t].out),
                                           !.taken = host[t].taken \o got,
                                           !.leaked = host[t].leaked \/ leaks]]
      BY <1>6, <2>1, Zenon DEF HostSees
    <3>2. host'[t] = [host[t] EXCEPT !.out = KissWritten(host[t].out),
                                     !.taken = host[t].taken \o got,
                                     !.leaked = host[t].leaked \/ leaks]
      BY <1>1, <3>1, Zenon
    <3>3. u # t => host'[u] = host[u]
      BY <1>1, <3>1, Zenon
    <3> QED
      BY <2>1, <3>2, <3>3, Zenon DEF Told
  <2>2. CASE ~Sending(t)
    BY <1>6, <2>2 DEF HostSees, Told
  <2> QED
    BY <2>1, <2>2
<1>7. ASSUME NEW t \in Tty, NEW b \in Arriving(t), KissKey(t, b)
      PROVE  LinkStep(u)
  <2> DEFINE k == IF InFrame(t) THEN kiss[t] ELSE KissOutside
  <2>1. /\ InFrame(t) \/ Pressed(t, b) = "FEND"
        /\ HostSees(t, KissPacket(k, b), FALSE)
        /\ kiss' = [kiss EXCEPT ![t] = KissInput(k, b)]
        /\ kiss_age' = [kiss_age EXCEPT ![t] = IF InFrame(t) THEN kiss_age[t] ELSE 0]
        /\ esc' = [esc EXCEPT ![t] = IF InFrame(t) THEN esc[t] ELSE NoEsc]
    BY <1>7, <1>1, Zenon DEF KissKey
  <2>2. b \in Byte /\ (Sending(t) => b = KissWrites(host[t].out))
    BY ArrivingOK
  <2>3. Told(t, KissPacket(k, b), FALSE) /\ (u # t => host'[u] = host[u])
    BY <1>6, <2>1, Zenon
  <2>4. /\ kiss'[t] = KissInput(k, b) /\ kiss_age'[t] = IF InFrame(t) THEN kiss_age[t] ELSE 0
        /\ esc'[t] = IF InFrame(t) THEN esc[t] ELSE NoEsc
        /\ u # t => LinkKept(u)
    <3> HIDE DEF k
    <3> QED
      BY <1>1, <2>1, Zenon DEF LinkKept
  <2>5. Takes(t, b)
    BY <2>1, <2>2, <2>3, <2>4, Zenon DEF Takes
  <2> QED
    BY <2>2, <2>3, <2>4, <2>5, Zenon DEF LinkStep
<1>8. ASSUME NEW t \in Tty, NEW b \in Arriving(t), NEW k, k # "FEND", KeyByte(t, b, k)
      PROVE  LinkStep(u)
  <2>1. /\ ~InFrame(t) /\ Pressed(t, b) # "FEND"
        /\ HostSees(t, <<>>, TRUE)
        /\ kiss' = [kiss EXCEPT ![t] = KissOutside]
        /\ kiss_age' = [kiss_age EXCEPT ![t] = 0]
        /\ esc' = [esc EXCEPT ![t] = NextEsc(esc[t], b)]
    BY <1>8, Zenon DEF KeyByte
  <2>2. b \in Byte /\ (Sending(t) => b = KissWrites(host[t].out))
    BY ArrivingOK
  <2>3. Told(t, <<>>, TRUE) /\ (u # t => host'[u] = host[u])
    BY <1>6, <2>1, Zenon
  <2>4. /\ kiss'[t] = KissOutside /\ kiss_age'[t] = 0 /\ esc'[t] = NextEsc(esc[t], b)
        /\ u # t => LinkKept(u)
    BY <1>1, <2>1, Zenon DEF LinkKept
  <2>5. Types(t, b)
    BY <2>1, <2>2, <2>3, <2>4, Zenon DEF Types
  <2> QED
    BY <2>2, <2>3, <2>4, <2>5, Zenon DEF LinkStep
<1> QED
  BY <1>2, <1>3, <1>4, <1>5, <1>7, <1>8, Zenon DEF LinkNext

\* A step changes functions on Tty to functions on Tty.
LEMMA LinkMaps ==
    ASSUME LinkOK, LinkNext
    PROVE  /\ kiss' = [t \in Tty |-> kiss'[t]] /\ kiss_age' = [t \in Tty |-> kiss_age'[t]]
           /\ host' = [t \in Tty |-> host'[t]] /\ esc' = [t \in Tty |-> esc'[t]]
<1>1. /\ kiss = [t \in Tty |-> kiss[t]] /\ kiss_age = [t \in Tty |-> kiss_age[t]]
      /\ host = [t \in Tty |-> host[t]] /\ esc = [t \in Tty |-> esc[t]]
  BY DEF LinkOK
<1>2. CASE UNCHANGED linkVars
  BY <1>1, <1>2 DEF linkVars
<1>3. CASE Tick
  <2>1. kiss' = kiss /\ esc' = esc
    BY <1>3 DEF Tick
  <2>2. kiss_age' = [t \in Tty |->
          IF Open(t) /\ kiss_age[t] < KissTimeout THEN kiss_age[t] + 1 ELSE kiss_age[t]]
    BY <1>3 DEF Tick
  <2>3. host' = [t \in Tty |->
          IF Open(t) /\ Sending(t) /\ kiss_age'[t] = KissTimeout
            THEN [host[t] EXCEPT !.whole = FALSE] ELSE host[t]]
    BY <1>3 DEF Tick
  <2> QED
    BY <1>1, <2>1, <2>2, <2>3
<1>4. ASSUME NEW t \in Tty, HostLose(t)
      PROVE  /\ kiss' = kiss /\ kiss_age' = kiss_age /\ esc' = esc
             /\ host' = [u \in Tty |-> host'[u]]
  <2>1. \E x : host' = [host EXCEPT ![t] = x]
    BY <1>4, Zenon DEF HostLose
  <2> QED
    BY <1>1, <1>4, <2>1 DEF HostLose
<1>5. ASSUME NEW t \in Tty, NEW f \in KissFrames[t], HostBegin(t, f)
      PROVE  /\ kiss' = kiss /\ kiss_age' = kiss_age /\ esc' = esc
             /\ host' = [u \in Tty |-> host'[u]]
  <2>1. \E x : host' = [host EXCEPT ![t] = x]
    BY <1>5, Zenon DEF HostBegin
  <2>2. kiss' = kiss /\ kiss_age' = kiss_age /\ esc' = esc
    BY <1>5, Zenon DEF HostBegin
  <2> QED
    BY <1>1, <2>1, <2>2
<1>6. ASSUME NEW t \in Tty, NEW got, NEW leaks, HostSees(t, got, leaks)
      PROVE  host' = [u \in Tty |-> host'[u]]
  <2>1. host' = host \/ \E x : host' = [host EXCEPT ![t] = x]
    BY <1>6, Zenon DEF HostSees
  <2> QED
    BY <1>1, <2>1
<1>7. ASSUME NEW t \in Tty, NEW b, KissKey(t, b) \/ \E k : KeyByte(t, b, k)
      PROVE  /\ kiss' = [u \in Tty |-> kiss'[u]] /\ kiss_age' = [u \in Tty |-> kiss_age'[u]]
             /\ host' = [u \in Tty |-> host'[u]] /\ esc' = [u \in Tty |-> esc'[u]]
  <2>1. \E got, leaks : HostSees(t, got, leaks)
    BY <1>7, Zenon DEF KissKey, KeyByte
  <2>2. /\ \E x : kiss' = [kiss EXCEPT ![t] = x]
        /\ \E x : kiss_age' = [kiss_age EXCEPT ![t] = x]
        /\ \E x : esc' = [esc EXCEPT ![t] = x]
    BY <1>7, Zenon DEF KissKey, KeyByte
  <2> QED
    BY <1>1, <1>6, <2>1, <2>2
<1> QED
  BY <1>1, <1>2, <1>3, <1>4, <1>5, <1>7, Zenon DEF LinkNext

\* The types, terminal by terminal.
LinkAt(t) ==
    /\ esc[t] \in Esc
    /\ kiss[t] \in Receiver /\ kiss_age[t] \in 0 .. KissTimeout /\ host[t] \in HostOf
    /\ Len(kiss[t].buf) <= KissPacketLen /\ Escapes(host[t].out)

\* What LinkOK says of a terminal.
LEMMA LinkIsAt == LinkOK => \A t \in Tty : LinkAt(t)
BY DEF LinkOK, LinkAt, Escapes

\* What the host knows stays typed.
LEMMA ToldOK ==
    ASSUME NEW t \in Tty, host[t] \in HostOf, Escapes(host[t].out),
           NEW got \in Seq(Seq(Byte)), NEW leaks \in BOOLEAN, Told(t, got, leaks)
    PROVE  host'[t] \in HostOf /\ Escapes(host'[t].out)
<1>1. CASE ~Sending(t)
  BY <1>1 DEF Told
<1>2. CASE Sending(t)
  <2>1. host[t].out \in Sender /\ host[t].out.stage # "silent"
    BY <1>2 DEF HostOf, Sending
  <2>2. KissWritten(host[t].out) \in Sender /\ Escapes(KissWritten(host[t].out))
    BY <2>1, SenderOK
  <2>3. host[t].taken \in Seq(Seq(Byte)) /\ (host[t].leaked \/ leaks) \in BOOLEAN
    BY DEF HostOf
  <2>4. host[t].taken \o got \in Seq(Seq(Byte))
    BY <2>3, ConcatProperties
  <2>5. host'[t] = [host[t] EXCEPT !.out = KissWritten(host[t].out),
                                   !.taken = host[t].taken \o got,
                                   !.leaked = host[t].leaked \/ leaks]
    BY <1>2 DEF Told
  <2> QED
    BY <2>2, <2>3, <2>4, <2>5 DEF HostOf
<1> QED
  BY <1>1, <1>2

\* Every step keeps the types of a link, ...
LEMMA LinkAtStep ==
    ASSUME NEW t \in Tty, LinkAt(t), LinkStep(t)
    PROVE  LinkAt(t)'
<1> USE TerminalAssumption
<1>1. /\ esc[t] \in Esc
      /\ kiss[t] \in Receiver /\ kiss_age[t] \in 0 .. KissTimeout /\ host[t] \in HostOf
      /\ Len(kiss[t].buf) <= KissPacketLen /\ Escapes(host[t].out)
  BY DEF LinkAt
<1>2. CASE LinkKept(t) /\ host'[t] = host[t]
  BY <1>1, <1>2, Zenon DEF LinkAt, LinkKept
<1>3. CASE Begins(t)
  <2>1. PICK f \in KissFrames[t] :
          host'[t] = [frame |-> f, out |-> KissOutput(f), leaked |-> FALSE, taken |-> <<>>,
                      whole |-> Clear(t)]
    BY <1>3 DEF Begins
  <2>2. f \in Seq(Byte)
    BY TerminalAssumption
  <2>3. KissOutput(f) \in Sender /\ Escapes(KissOutput(f))
    BY <2>2 DEF KissOutput, Sender, Escapes
  <2>4. Clear(t) \in BOOLEAN /\ <<>> \in Seq(Seq(Byte))
    BY DEF Clear
  <2>5. host'[t] \in HostOf /\ host'[t].out = KissOutput(f)
    BY <2>1, <2>2, <2>3, <2>4 DEF HostOf
  <2> QED
    BY <1>1, <1>3, <2>3, <2>5, Zenon DEF LinkAt, LinkKept, Begins
<1>4. CASE Loses(t)
  <2>1. host[t].out \in Sender /\ host[t].out.stage # "silent"
    BY <1>1, <1>4 DEF HostOf, Loses, Sending
  <2>2. KissWritten(host[t].out) \in Sender /\ Escapes(KissWritten(host[t].out))
    BY <1>1, <2>1, SenderOK
  <2>3. host'[t] \in HostOf /\ host'[t].out = KissWritten(host[t].out)
    BY <1>1, <1>4, <2>2 DEF HostOf, Loses
  <2> QED
    BY <1>1, <1>4, <2>2, <2>3, Zenon DEF LinkAt, LinkKept, Loses
<1>5. CASE Ages(t)
  <2>1. kiss_age'[t] \in 0 .. KissTimeout
    BY <1>1, <1>5 DEF Ages
  <2>2. host'[t] \in HostOf /\ host'[t].out = host[t].out
    BY <1>1, <1>5 DEF Ages, HostOf
  <2> QED
    BY <1>1, <1>5, <2>1, <2>2, Zenon DEF LinkAt, Ages
<1>6. KissOutside \in Receiver /\ Len(KissOutside.buf) <= KissPacketLen
  BY DEF KissOutside, Receiver
<1>7. ASSUME NEW b \in Byte, Takes(t, b)
      PROVE  LinkAt(t)'
  <2> DEFINE k == IF InFrame(t) THEN kiss[t] ELSE KissOutside
  <2>1. k \in Receiver /\ Len(k.buf) <= KissPacketLen
    BY <1>1, <1>6, Zenon
  <2>2. /\ kiss'[t] = KissInput(k, b) /\ kiss_age'[t] = IF InFrame(t) THEN kiss_age[t] ELSE 0
        /\ Told(t, KissPacket(k, b), FALSE)
        /\ esc'[t] = IF InFrame(t) THEN esc[t] ELSE NoEsc
    BY <1>7 DEF Takes
  <2> HIDE DEF k
  <2>3. /\ KissInput(k, b) \in Receiver /\ Len(KissInput(k, b).buf) <= KissPacketLen
        /\ KissPacket(k, b) \in Seq(Seq(Byte))
    BY <2>1, ReceiverOK
  <2>4. host'[t] \in HostOf /\ Escapes(host'[t].out)
    BY <1>1, <2>2, <2>3, ToldOK
  <2>5. kiss_age'[t] \in 0 .. KissTimeout /\ esc'[t] \in Esc
    BY <1>1, <2>2, NextEscOK
  <2> QED
    BY <2>2, <2>3, <2>4, <2>5, Zenon DEF LinkAt
<1>8. ASSUME NEW b \in Byte, Types(t, b)
      PROVE  LinkAt(t)'
  <2>1. /\ kiss'[t] = KissOutside /\ kiss_age'[t] = 0 /\ esc'[t] = NextEsc(esc[t], b)
        /\ Told(t, <<>>, TRUE)
    BY <1>8 DEF Types
  <2>2. host'[t] \in HostOf /\ Escapes(host'[t].out)
    <3>1. <<>> \in Seq(Seq(Byte))
      OBVIOUS
    <3> QED
      BY <1>1, <2>1, <3>1, ToldOK
  <2>3. 0 \in 0 .. KissTimeout /\ NextEsc(esc[t], b) \in Esc
    BY <1>1, NextEscOK
  <2> QED
    BY <1>6, <2>1, <2>2, <2>3, Zenon DEF LinkAt
<1> QED
  BY <1>2, <1>3, <1>4, <1>5, <1>7, <1>8, Zenon DEF LinkStep

\* ... and so of all.
LEMMA LinkOKStep == LinkOK /\ LinkNext => LinkOK'
<1> SUFFICES ASSUME LinkOK, LinkNext
             PROVE  LinkOK'
  OBVIOUS
<1>1. ASSUME NEW t \in Tty
      PROVE  LinkAt(t)'
  BY LinkIsAt, LinkNextIs, LinkAtStep
<1>2. ASSUME NEW t \in Tty
      PROVE  /\ kiss'[t] \in Receiver /\ kiss_age'[t] \in 0 .. KissTimeout /\ host'[t] \in HostOf
             /\ esc'[t] \in Esc
             /\ Len(kiss'[t].buf) <= KissPacketLen /\ Escapes(host'[t].out)
  BY <1>1 DEF LinkAt
<1> QED
  BY <1>2, LinkMaps DEF LinkOK, Escapes

\* The inductive invariant of a frame that should be taken whole: what kiss_output has
\* still to send and what kiss_input has put in its buffer make the frame, or the frame
\* has overrun the buffer.  The frame that is expected to be taken, ...
Expected(t) ==
    IF KissActs(host[t].frame) /\ Len(host[t].frame) <= KissPacketLen
      THEN <<host[t].frame>> ELSE <<>>

\* ... what has been collected of it, ...
Collected(t) ==
    \/ /\ kiss[t].state = IF host[t].out.stage = "escape" THEN "FESC" ELSE "INSIDE"
       /\ kiss[t].buf \o host[t].out.left = host[t].frame
    \/ kiss[t].state = "ERROR" /\ Len(host[t].frame) > KissPacketLen

\* ... and how far it is.
Carried(t) ==
    host[t].whole =>
        /\ ~host[t].leaked
        /\ host[t].taken = IF Sending(t) THEN <<>> ELSE Expected(t)
        /\ host[t].out.stage = "start" =>
             ~InFrame(t) /\ esc[t].state # 2 /\ host[t].out.left = host[t].frame
        /\ host[t].out.stage \in {"data", "escape"} => InFrame(t) /\ Collected(t)

\* What a byte that has arrived does to what the host knows.
LEMMA ToldIs ==
    ASSUME NEW t \in Tty, host[t] \in HostOf, Sending(t), NEW got, NEW leaks \in BOOLEAN,
           Told(t, got, leaks)
    PROVE  /\ host'[t].frame = host[t].frame /\ host'[t].out = KissWritten(host[t].out)
           /\ host'[t].whole = host[t].whole /\ host'[t].leaked = (host[t].leaked \/ leaks)
           /\ host'[t].taken = host[t].taken \o got
BY DEF Told, HostOf

\* A byte moves from what is left to the buffer.
LEMMA Moved ==
    ASSUME NEW S, NEW a \in Seq(S), NEW l \in Seq(S), l # <<>>
    PROVE  /\ Append(a, l[1]) \o Tail(l) = a \o l
           /\ Len(a \o l) = Len(a) + Len(l) /\ Len(l) >= 1
<1>1. Len(l) \in Nat \ {0} /\ l[1] \in S /\ Len(a) \in Nat
  BY EmptySeq
<1>2. Tail(l) \in Seq(S) /\ Len(Tail(l)) = Len(l) - 1
      /\ \A i \in 1 .. Len(Tail(l)) : Tail(l)[i] = l[i + 1]
  BY HeadTailProperties
<1>3. Append(a, l[1]) \in Seq(S) /\ Len(Append(a, l[1])) = Len(a) + 1
      /\ (\A i \in 1 .. Len(a) : Append(a, l[1])[i] = a[i])
      /\ Append(a, l[1])[Len(a) + 1] = l[1]
  BY <1>1, AppendProperties
<1>4. a \o l \in Seq(S) /\ Len(a \o l) = Len(a) + Len(l)
      /\ \A i \in 1 .. Len(a) + Len(l) :
           (a \o l)[i] = IF i <= Len(a) THEN a[i] ELSE l[i - Len(a)]
  BY ConcatProperties
<1>5. /\ Append(a, l[1]) \o Tail(l) \in Seq(S)
      /\ Len(Append(a, l[1]) \o Tail(l)) = Len(Append(a, l[1])) + Len(Tail(l))
      /\ \A i \in 1 .. Len(Append(a, l[1])) + Len(Tail(l)) :
           (Append(a, l[1]) \o Tail(l))[i] =
             IF i <= Len(Append(a, l[1])) THEN Append(a, l[1])[i]
                                          ELSE Tail(l)[i - Len(Append(a, l[1]))]
  BY <1>2, <1>3, ConcatProperties
<1>6. Len(Append(a, l[1]) \o Tail(l)) = Len(a \o l)
  BY <1>1, <1>2, <1>3, <1>4, <1>5
<1>7. ASSUME NEW i \in 1 .. Len(a) + Len(l)
      PROVE  (Append(a, l[1]) \o Tail(l))[i] = (a \o l)[i]
  <2>1. CASE i <= Len(a)
    BY <1>1, <1>2, <1>3, <1>4, <1>5, <2>1
  <2>2. CASE i = Len(a) + 1
    <3>1. (a \o l)[i] = l[i - Len(a)]
      BY <1>1, <1>4, <2>2
    <3>2. i - Len(a) = 1
      BY <1>1, <2>2
    <3>3. (Append(a, l[1]) \o Tail(l))[i] = Append(a, l[1])[i]
      BY <1>1, <1>2, <1>3, <1>5, <2>2
    <3> QED
      BY <1>3, <2>2, <3>1, <3>2, <3>3
  <2>3. CASE i > Len(a) + 1
    <3>1. (a \o l)[i] = l[i - Len(a)]
      BY <1>1, <1>4, <2>3
    <3>2. (Append(a, l[1]) \o Tail(l))[i] = Tail(l)[i - (Len(a) + 1)]
      BY <1>1, <1>2, <1>3, <1>5, <2>3
    <3>3. i - (Len(a) + 1) \in 1 .. Len(Tail(l)) /\ i - (Len(a) + 1) + 1 = i - Len(a)
      BY <1>1, <1>2, <2>3
    <3> QED
      BY <1>2, <3>1, <3>2, <3>3
  <2> QED
    BY <1>1, <2>1, <2>2, <2>3
<1> QED
  BY <1>1, <1>4, <1>5, <1>6, <1>7, SeqEqual

\* One byte of the frame, from kiss_output to kiss_input.
LEMMA CarriedByte ==
    ASSUME NEW t \in Tty, LinkAt(t), Carried(t), host[t].whole, Sending(t), NEW b \in Byte,
           Takes(t, b)
    PROVE  Carried(t)'
<1> DEFINE h == host[t]
           k == IF InFrame(t) THEN kiss[t] ELSE KissOutside
           left == h.out.left
           buf == kiss[t].buf
           got == KissPacket(k, b)
<1>1. /\ h \in HostOf /\ h.out \in Sender /\ h.out.stage \in {"start", "data", "escape"}
      /\ left \in Seq(Byte) /\ h.frame \in Seq(Byte)
      /\ kiss[t] \in Receiver /\ buf \in Seq(Byte) /\ Len(buf) <= KissPacketLen
      /\ Escapes(h.out) /\ kiss_age[t] \in 0 .. KissTimeout
      /\ Len(buf) \in Nat
  <2>1. h \in HostOf /\ kiss[t] \in Receiver
    BY DEF LinkAt
  <2>2. h.out \in Sender /\ h.frame \in Seq(Byte) /\ buf \in Seq(Byte)
    BY <2>1 DEF HostOf, Receiver
  <2>3. left \in Seq(Byte) /\ h.out.stage \in {"start", "data", "escape"}
    BY <2>2 DEF Sender, Sending
  <2>4. Len(buf) \in Nat
    BY <2>2
  <2> QED
    BY <2>1, <2>2, <2>3, <2>4 DEF LinkAt
<1>2. /\ b = KissWrites(h.out) /\ kiss'[t] = KissInput(k, b)
      /\ kiss_age'[t] = IF InFrame(t) THEN kiss_age[t] ELSE 0
      /\ Told(t, got, FALSE)
  BY DEF Takes
<1>3. /\ ~h.leaked /\ h.taken = <<>>
      /\ h.out.stage = "start" => ~InFrame(t) /\ left = h.frame
      /\ h.out.stage \in {"data", "escape"} => InFrame(t) /\ Collected(t)
  BY DEF Carried
<1>4. /\ host'[t].frame = h.frame /\ host'[t].out = KissWritten(h.out)
      /\ host'[t].whole = h.whole /\ host'[t].leaked = (h.leaked \/ FALSE)
      /\ host'[t].taken = h.taken \o got
  <2>1. FALSE \in BOOLEAN
    OBVIOUS
  <2> HIDE DEF got
  <2> QED
    BY <1>1, <1>2, <2>1, ToldIs
<1>5. got \in Seq(Seq(Byte))
  <2>1. k \in Receiver
    BY <1>1 DEF KissOutside, Receiver
  <2>2. Len(k.buf) <= KissPacketLen
    BY <1>1, TerminalAssumption DEF KissOutside
  <2> HIDE DEF k
  <2> QED
    BY <2>1, <2>2, ReceiverOK
<1>6. host'[t].taken = got /\ ~host'[t].leaked
  <2>1. <<>> \o got = got
    BY <1>5, ConcatEmptySeq
  <2> HIDE DEF got
  <2> QED
    BY <1>3, <1>4, <2>1
<1>7. /\ InFrame(t) => k = kiss[t] /\ kiss_age'[t] < KissTimeout
      /\ ~InFrame(t) => k = KissOutside /\ kiss_age'[t] < KissTimeout
  BY <1>2, TerminalAssumption DEF InFrame
<1>8. (h.leaked \/ FALSE) = FALSE
  BY <1>3
<1>9. CASE h.out.stage = "start"
  <2>1. b = "FEND" /\ host'[t].out = [stage |-> "data", left |-> left]
    BY <1>1, <1>2, <1>4, <1>9, SenderOK
  <2>2. k = KissOutside
    BY <1>3, <1>7, <1>9
  <2>3. kiss'[t] = [state |-> "INSIDE", buf |-> <<>>] /\ got = <<>>
    BY <1>2, <2>1, <2>2 DEF KissInput, KissPacket, KissOutside
  <2>4. <<>> \o left = h.frame
    BY <1>1, <1>3, <1>9, ConcatEmptySeq
  <2> QED
    BY <1>3, <1>4, <1>6, <1>7, <2>1, <2>3, <2>4
    DEF Carried, Collected, Sending, InFrame, Open
<1>10. CASE h.out.stage = "data" /\ left = <<>>
  <2>1. b = "FEND" /\ host'[t].out = KissSilent
    BY <1>1, <1>2, <1>4, <1>10, SenderOK
  <2>2. InFrame(t) /\ Collected(t) /\ k = kiss[t]
    BY <1>3, <1>7, <1>10
  <2>3. ~Sending(t)' /\ host'[t].out.stage = "silent"
    BY <2>1 DEF Sending, KissSilent
  <2>4. got = Expected(t)
    <3>1. CASE kiss[t].state = "INSIDE"
      <4>1. buf \o <<>> = h.frame
        BY <1>10, <2>2, <3>1 DEF Collected
      <4>2. buf = h.frame
        BY <1>1, <4>1, ConcatEmptySeq
      <4> QED
        BY <1>1, <2>1, <2>2, <3>1, <4>2 DEF KissPacket, Expected
    <3>2. CASE kiss[t].state = "ERROR"
      <4>1. Len(h.frame) > KissPacketLen /\ Len(h.frame) \in Nat
        BY <1>1, <1>10, <2>2, <3>2 DEF Collected
      <4> QED
        BY <2>2, <3>2, <4>1, TerminalAssumption DEF KissPacket, Expected
    <3> QED
      BY <1>10, <2>2, <3>1, <3>2 DEF Collected
  <2>5. Expected(t)' = Expected(t)
    BY <1>4, Zenon DEF Expected
  <2> HIDE DEF got
  <2> QED
    BY <1>6, <2>3, <2>4, <2>5 DEF Carried
<1>11. CASE h.out.stage = "data" /\ left # <<>> /\ left[1] \in {"FEND", "FESC"}
  <2>1. b = "FESC" /\ host'[t].out = [stage |-> "escape", left |-> left]
    BY <1>1, <1>2, <1>4, <1>11, SenderOK
  <2>2. InFrame(t) /\ Collected(t) /\ k = kiss[t]
    BY <1>3, <1>7, <1>11
  <2>3. got = <<>>
    BY <2>1 DEF KissPacket
  <2>4. CASE kiss[t].state = "INSIDE" /\ buf \o left = h.frame
    <3>1. kiss'[t] = [kiss[t] EXCEPT !.state = "FESC"]
      BY <1>2, <2>1, <2>2, <2>4 DEF KissInput
    <3>2. kiss'[t].state = "FESC" /\ kiss'[t].buf = buf
      BY <1>1, <3>1 DEF Receiver
    <3>3. host'[t].out.stage = "escape" /\ host'[t].out.left = left
      BY <2>1
    <3>4. Collected(t)'
      BY <1>4, <2>4, <3>2, <3>3 DEF Collected
    <3>5. InFrame(t)' /\ Sending(t)'
      BY <1>7, <2>2, <3>2, <3>3 DEF InFrame, Open, Sending
    <3> QED
      BY <1>6, <2>3, <3>3, <3>4, <3>5 DEF Carried
  <2>5. CASE kiss[t].state = "ERROR" /\ Len(h.frame) > KissPacketLen
    <3>1. kiss'[t].state = "ERROR"
      BY <1>2, <2>1, <2>2, <2>5 DEF KissInput
    <3> QED
      BY <1>4, <1>6, <1>7, <2>1, <2>2, <2>3, <2>5, <3>1
      DEF Carried, Collected, Sending, InFrame, Open
  <2> QED
    BY <1>11, <2>2, <2>4, <2>5 DEF Collected
<1>12. ASSUME left # <<>>, host'[t].out = [stage |-> "data", left |-> Tail(left)],
              b # "FEND", InFrame(t), Collected(t),
              KissInput(kiss[t], b) =
                IF kiss[t].state = "ERROR" THEN kiss[t]
                ELSE IF Len(buf) >= KissPacketLen THEN [state |-> "ERROR", buf |-> <<>>]
                ELSE [state |-> "INSIDE", buf |-> Append(buf, left[1])]
       PROVE  Carried(t)'
  <2>1. k = kiss[t] /\ kiss'[t] = KissInput(kiss[t], b) /\ kiss_age'[t] < KissTimeout
    BY <1>2, <1>7, <1>12
  <2>2. got = <<>>
    BY <1>12 DEF KissPacket
  <2>4. /\ Append(buf, left[1]) \o Tail(left) = buf \o left
        /\ Len(buf \o left) = Len(buf) + Len(left) /\ Len(left) >= 1 /\ Len(left) \in Nat
    <3>1. Len(left) \in Nat
      BY <1>1
    <3> HIDE DEF left, buf
    <3> QED
      BY <1>1, <1>12, <3>1, Moved
  <2>5. Collected(t)' /\ kiss'[t].state # "OUTSIDE"
    <3>1. CASE kiss[t].state = "ERROR"
      <4>1. Len(h.frame) > KissPacketLen
        BY <1>12, <3>1 DEF Collected
      <4>2. kiss'[t].state = "ERROR"
        BY <1>12, <2>1, <3>1
      <4> QED
        BY <1>4, <4>1, <4>2 DEF Collected
    <3>2. CASE kiss[t].state # "ERROR" /\ Len(buf) >= KissPacketLen
      <4>1. buf \o left = h.frame
        BY <1>12, <3>2 DEF Collected
      <4>2. Len(h.frame) = Len(buf) + Len(left)
        BY <2>4, <4>1
      <4>3. Len(h.frame) > KissPacketLen
        <5> HIDE DEF h, left, buf
        <5>1. Len(buf) \in Nat /\ Len(left) \in Nat /\ Len(left) >= 1 /\ KissPacketLen \in Nat
          BY <1>1, <2>4, TerminalAssumption
        <5> QED
          BY <3>2, <4>2, <5>1
      <4>4. kiss'[t].state = "ERROR"
        BY <1>12, <2>1, <3>2
      <4> QED
        BY <1>4, <4>3, <4>4 DEF Collected
    <3>3. CASE kiss[t].state # "ERROR" /\ ~(Len(buf) >= KissPacketLen)
      <4>1. buf \o left = h.frame
        BY <1>12, <3>3 DEF Collected
      <4>2. kiss'[t].state = "INSIDE" /\ kiss'[t].buf = Append(buf, left[1])
        BY <1>12, <2>1, <3>3
      <4>3. host'[t].out.stage = "data" /\ host'[t].out.left = Tail(left)
        BY <1>12
      <4>4. kiss'[t].buf \o host'[t].out.left = host'[t].frame
        BY <1>4, <2>4, <4>1, <4>2, <4>3, Zenon
      <4> QED
        BY <4>2, <4>3, <4>4 DEF Collected
    <3> QED
      BY <3>1, <3>2, <3>3
  <2>6. InFrame(t)' /\ Sending(t)' /\ host'[t].out.stage = "data"
    BY <1>12, <2>1, <2>5 DEF InFrame, Open, Sending
  <2> QED
    BY <1>6, <2>2, <2>5, <2>6 DEF Carried
<1>13. CASE h.out.stage = "data" /\ left # <<>> /\ left[1] \notin {"FEND", "FESC"}
  <2>1. b = left[1] /\ host'[t].out = [stage |-> "data", left |-> Tail(left)]
    BY <1>1, <1>2, <1>4, <1>13, SenderOK
  <2>2. InFrame(t) /\ Collected(t) /\ kiss[t].state \in {"INSIDE", "ERROR"}
    BY <1>3, <1>13 DEF Collected
  <2>3. kiss[t].state = "INSIDE" => Unescaped(kiss[t], b) = left[1]
    BY <2>1 DEF Unescaped
  <2>4. KissInput(kiss[t], b) =
          IF kiss[t].state = "ERROR" THEN kiss[t]
          ELSE IF Len(buf) >= KissPacketLen THEN [state |-> "ERROR", buf |-> <<>>]
          ELSE [state |-> "INSIDE", buf |-> Append(buf, left[1])]
    BY <1>13, <2>1, <2>2, <2>3 DEF KissInput
  <2> QED
    BY <1>12, <1>13, <2>1, <2>2, <2>4
<1>14. CASE h.out.stage = "escape"
  <2>1. /\ b = IF left[1] = "FEND" THEN "TFEND" ELSE "TFESC"
        /\ host'[t].out = [stage |-> "data", left |-> Tail(left)]
    BY <1>1, <1>2, <1>4, <1>14, SenderOK
  <2>2. InFrame(t) /\ Collected(t) /\ kiss[t].state \in {"FESC", "ERROR"}
    BY <1>3, <1>14 DEF Collected
  <2>3. left # <<>> /\ left[1] \in {"FEND", "FESC"}
    BY <1>1, <1>14 DEF Escapes
  <2>4. kiss[t].state = "FESC" => Unescaped(kiss[t], b) = left[1]
    BY <2>1, <2>3 DEF Unescaped
  <2>5. KissInput(kiss[t], b) =
          IF kiss[t].state = "ERROR" THEN kiss[t]
          ELSE IF Len(buf) >= KissPacketLen THEN [state |-> "ERROR", buf |-> <<>>]
          ELSE [state |-> "INSIDE", buf |-> Append(buf, left[1])]
    BY <2>1, <2>2, <2>4 DEF KissInput
  <2>6. b # "FEND"
    BY <2>1
  <2> QED
    BY <1>12, <2>1, <2>2, <2>3, <2>5, <2>6
<1> QED
  BY <1>1, <1>9, <1>10, <1>11, <1>13, <1>14

\* Every step keeps it: time that runs out is a frame no longer expected.
LEMMA CarriedStep ==
    ASSUME NEW t \in Tty, LinkAt(t), Carried(t), LinkStep(t)
    PROVE  Carried(t)'
<1>1. kiss[t] \in Receiver /\ kiss_age[t] \in 0 .. KissTimeout /\ host[t] \in HostOf
  BY DEF LinkAt
<1>2. CASE LinkKept(t) /\ host'[t] = host[t]
  BY <1>2 DEF LinkKept, Carried, Collected, Expected, Sending, InFrame, Open
<1>3. CASE Begins(t)
  <2>1. PICK f \in KissFrames[t] :
          host'[t] = [frame |-> f, out |-> KissOutput(f), leaked |-> FALSE, taken |-> <<>>,
                      whole |-> Clear(t)]
    BY <1>3 DEF Begins
  <2>2. /\ host'[t].frame = f /\ host'[t].leaked = FALSE /\ host'[t].taken = <<>>
        /\ host'[t].out.stage = "start" /\ host'[t].out.left = f
    BY <2>1 DEF KissOutput
  <2>3. host'[t].whole => ~InFrame(t) /\ esc[t].state # 2
    <3>1. host'[t].whole = Clear(t)
      BY <2>1
    <3>2. host'[t].whole => esc[t].state # 2 /\ (Open(t) => kiss_age[t] >= KissTimeout)
      BY <3>1, Zenon DEF Clear
    <3>3. kiss_age[t] >= KissTimeout => ~(kiss_age[t] < KissTimeout)
      BY <1>1, TerminalAssumption
    <3> QED
      BY <3>2, <3>3, Zenon DEF InFrame
  <2>4. InFrame(t)' = InFrame(t) /\ esc'[t] = esc[t]
    BY <1>3 DEF Begins, LinkKept, InFrame, Open
  <2> QED
    BY <2>2, <2>3, <2>4 DEF Carried, Sending
<1>4. CASE Loses(t)
  <2>1. host'[t].whole = FALSE
    BY <1>1, <1>4 DEF Loses, HostOf
  <2> QED
    BY <2>1 DEF Carried
<1>5. CASE Ages(t)
  <2>1. CASE Open(t) /\ Sending(t) /\ kiss_age'[t] = KissTimeout
    <3>1. host'[t].whole = FALSE
      BY <1>1, <1>5, <2>1 DEF Ages, HostOf
    <3> QED
      BY <3>1 DEF Carried
  <2>2. CASE ~(Open(t) /\ Sending(t) /\ kiss_age'[t] = KissTimeout)
    <3>1. host'[t] = host[t] /\ kiss'[t] = kiss[t] /\ esc'[t] = esc[t]
      BY <1>5, <2>2 DEF Ages
    <3>2. Sending(t) => InFrame(t)' = InFrame(t)
      BY <1>1, <1>5, <2>2, <3>1, TerminalAssumption DEF Ages, InFrame, Open
    <3>3. Expected(t)' = Expected(t) /\ Collected(t)' = Collected(t) /\ Sending(t)' = Sending(t)
      BY <3>1, Zenon DEF Expected, Collected, Sending
    <3> QED
      BY <3>1, <3>2, <3>3 DEF Carried, Sending
  <2> QED
    BY <2>1, <2>2
<1>6. ASSUME NEW got, NEW leaks \in BOOLEAN, Told(t, got, leaks), ~(Sending(t) /\ host[t].whole)
      PROVE  Carried(t)'
  <2>1. CASE Sending(t)
    <3>1. host'[t].whole = host[t].whole
      BY <1>1, <1>6, <2>1, ToldIs
    <3> QED
      BY <1>6, <2>1, <3>1 DEF Carried
  <2>2. CASE ~Sending(t)
    <3>1. host'[t] = host[t] /\ host[t].out.stage = "silent"
      BY <1>6, <2>2 DEF Told, Sending
    <3>2. Expected(t)' = Expected(t) /\ Sending(t)' = Sending(t)
      BY <3>1, Zenon DEF Expected, Sending
    <3> QED
      BY <2>2, <3>1, <3>2 DEF Carried
  <2> QED
    BY <2>1, <2>2
<1>7. ASSUME NEW b \in Byte, Takes(t, b)
      PROVE  Carried(t)'
  <2>1. \E got : Told(t, got, FALSE)
    BY <1>7, Zenon DEF Takes
  <2>2. CASE Sending(t) /\ host[t].whole
    BY <1>7, <2>2, CarriedByte
  <2>3. CASE ~(Sending(t) /\ host[t].whole)
    BY <1>6, <2>1, <2>3
  <2> QED
    BY <2>2, <2>3
<1>8. ASSUME NEW b \in Byte, Types(t, b)
      PROVE  Carried(t)'
  <2>1. /\ Sending(t) => b = KissWrites(host[t].out)
        /\ ~InFrame(t) /\ Pressed(t, b) # "FEND" /\ Told(t, <<>>, TRUE)
    BY <1>8 DEF Types
  <2>2. ~(Sending(t) /\ host[t].whole)
    <3> SUFFICES ASSUME Sending(t), host[t].whole
                 PROVE  FALSE
      OBVIOUS
    <3>1. host[t].out \in Sender /\ host[t].out.stage # "silent" /\ Escapes(host[t].out)
      BY <1>1 DEF LinkAt, HostOf, Sending
    <3>2. host[t].out.stage \in {"start", "data", "escape"}
      BY <3>1 DEF Sender
    <3>3. host[t].out.stage = "start" /\ esc[t].state # 2
      BY <2>1, <3>2 DEF Carried
    <3>4. b = "FEND"
      BY <2>1, <3>1, <3>3, SenderOK
    <3> QED
      BY <2>1, <3>3, <3>4, FendBegins
  <2> QED
    BY <1>6, <2>1, <2>2
<1> QED
  BY <1>2, <1>3, <1>4, <1>5, <1>7, <1>8, Zenon DEF LinkStep
-----------------------------------------------------------------------------
(* The theorems *)

\* The inductive invariants.
LineInv == LineOK /\ RingOK /\ RingInv
LinkInv == LinkOK /\ \A t \in Tty : Carried(t)

\* They hold in the beginning, ...
LEMMA LineInit == Init => LineInv /\ WalkInv
<1> SUFFICES ASSUME Init
             PROVE  LineInv /\ WalkInv
  OBVIOUS
<1> USE TerminalAssumption
<1>1. <<>> \in Line /\ Len(<<>>) = 0 /\ 0 \in 0 .. CmdBufLen /\ 0 \in 0 .. Slots - 1 /\ 0 \in 0 .. Slots
  BY EmptyLine
<1>2. /\ NoNav \in Nav /\ NoNav.at = 0 /\ NoNav.active = FALSE /\ NoNav.saved = <<>>
      /\ NoWalk \in WalkOf /\ NoWalk.at = 0 /\ NoWalk.kept = TRUE /\ NoWalk.fresh = FALSE
  BY <1>1 DEF NoNav, Nav, NoWalk, WalkOf
<1>3. NoStore \in [slot : 0 .. Slots - 1, count : 0 .. Slots, cut : BOOLEAN]
  BY <1>1 DEF NoStore
<1>4. LineOK
  BY <1>1, <1>2, PcHas DEF Init, LineOK
<1>5. RingOK
  <2>1. log \in Seq(Line)
    BY DEF Init
  <2> QED
    BY <1>1, <1>3, <2>1 DEF Init, RingOK
<1>6. HoldsLog
  <2>1. log = <<>> /\ Len(log) = 0 /\ cmd_history_count = 0 /\ cmd_history_head = 0
    BY <1>1 DEF Init
  <2>2. ~\E u \in Tty : pc[u] = "count"
    BY DEF Init
  <2>3. Counted = 0 /\ Held = 1
    BY <2>1, <2>2 DEF Counted, Held, LastLines
  <2> QED
    BY <2>1, <2>3 DEF HoldsLog
<1>7. StoresAlone
  BY DEF Init, StoresAlone, Storing
<1>8. ASSUME NEW t \in Tty
      PROVE  InPlace(t) /\ Shown(t)
  <2>1. nav[t] = NoNav /\ walk[t] = NoWalk /\ pc[t] = "idle"
    BY DEF Init
  <2> QED
    BY <1>2, <2>1 DEF InPlace, Shown, Kept
<1> QED
  BY <1>4, <1>5, <1>6, <1>7, <1>8, Zenon DEF LineInv, RingInv, WalkInv

\* ... those of the link too, ...
LEMMA LinkInit == Init => LinkInv
<1> SUFFICES ASSUME Init
             PROVE  LinkInv
  OBVIOUS
<1>1. /\ KissOutside \in Receiver /\ Len(KissOutside.buf) <= KissPacketLen /\ 0 \in 0 .. KissTimeout
  BY TerminalAssumption DEF KissOutside, Receiver
<1>2. /\ NoEsc \in Esc /\ Silent \in HostOf /\ Silent.out.stage = "silent" /\ Silent.taken = <<>>
      /\ Silent.leaked = FALSE /\ Silent.frame = <<>>
  <2>1. KissSilent \in Sender /\ KissSilent.stage = "silent"
    BY DEF KissSilent, Sender
  <2>2. <<>> \in Seq(Byte) /\ <<>> \in Seq(Seq(Byte))
    OBVIOUS
  <2> QED
    BY <2>1, <2>2 DEF Silent, HostOf, NoEsc, Esc
<1>3. LinkOK
  BY <1>1, <1>2 DEF Init, LinkOK
<1>4. ASSUME NEW t \in Tty
      PROVE  Carried(t)
  <2>1. host[t] = Silent
    BY DEF Init
  <2>2. Expected(t) = <<>>
    BY <1>2, <2>1 DEF Expected, KissActs
  <2> QED
    BY <1>2, <2>1, <2>2 DEF Carried, Sending
<1> QED
  BY <1>3, <1>4 DEF LinkInv

\* ... and every step keeps those of the lines ...
LEMMA LineInvStep == LineInv /\ [Next]_vars => LineInv'
<1> SUFFICES ASSUME LineInv, [Next]_vars
             PROVE  LineInv'
  OBVIOUS
<1>1. LineOK /\ RingOK /\ RingInv
  BY DEF LineInv
<1>2. HistNext
  BY <1>1, StepHist
<1>3. LineOK' /\ RingOK' /\ RingInv'
  BY <1>1, <1>2, HistOK, RingStep
<1> QED
  BY <1>3, Zenon DEF LineInv

\* ... and those of the link.
LEMMA LinkInvStep == LinkInv /\ [Next]_vars => LinkInv'
<1> SUFFICES ASSUME LinkInv, [Next]_vars
             PROVE  LinkInv'
  OBVIOUS
<1>1. LinkOK /\ LinkNext
  BY StepLink DEF LinkInv
<1>2. LinkOK'
  BY <1>1, LinkOKStep
<1>3. ASSUME NEW t \in Tty
      PROVE  Carried(t)'
  BY <1>1, LinkIsAt, LinkNextIs, CarriedStep DEF LinkInv
<1> QED
  BY <1>2, <1>3, Zenon DEF LinkInv

\* The line, the cursor and the walk through the history stay in cmd_buf and the ring,
\* the KISS receiver in its buffer, whatever is typed or sent and however the interrupt
\* comes between the steps of the UART terminal's handler (tty.c, kiss.c).
THEOREM TypeCorrect == Spec => []TypeOK
<1>1. LineInv /\ LinkInv => TypeOK
  <2> SUFFICES ASSUME LineInv, LinkInv
               PROVE  TypeOK
    OBVIOUS
  <2>1. LineOK /\ RingOK /\ RingInv /\ LinkOK
    BY DEF LineInv, LinkInv
  <2> QED
    BY <2>1 DEF TypeOK, LineOK, RingOK, LinkOK, Pc
<1> QED
  BY <1>1, LineInit, LinkInit, LineInvStep, LinkInvStep, PTL DEF Spec

\* What up and down show is the line the user is at, and what comes back is what was
\* being typed (tty_history_prev, tty_history_next, tty_history_store), in a ring of any
\* size above one.
THEOREM HistoryIsShown ==
    ASSUME Slots > 1
    PROVE  Spec => []HistoryShown
<1>1. LineInv /\ WalkInv /\ [Next]_vars => WalkInv'
  <2> SUFFICES ASSUME LineInv, WalkInv, [Next]_vars
               PROVE  WalkInv'
    OBVIOUS
  <2> QED
    BY StepHist, WalkStep DEF LineInv
<1>2. WalkInv => HistoryShown
  BY Zenon DEF WalkInv, Shown, HistoryShown
<1> QED
  BY <1>1, <1>2, LineInit, LineInvStep, PTL DEF Spec

\* A KISS frame that should be taken whole is taken once, with its escapes undone, and
\* nothing of it is typed (kiss_output's framing, kiss_input, tty_input).
THEOREM KissIsWhole == Spec => []KissWhole
<1>1. LinkInv => KissWhole
  BY DEF LinkInv, Carried, KissWhole, Expected
<1> QED
  BY <1>1, LinkInit, LinkInvStep, PTL DEF Spec
=============================================================================
