------------------------------ MODULE Terminal ------------------------------
(***************************************************************************)
(* The two terminals (tty.c) with the KISS receiver behind them (kiss.c):  *)
(* what tty_input does with a byte, outside calibrate mode (Transmitter)   *)
(* and the dialogs (Console).                                              *)
(*                                                                         *)
(* Each terminal has a command line and walks the command history with     *)
(* the up and down keys; the history ring is shared.  The USB terminal's   *)
(* bytes are handled in the USB interrupt, the UART terminal's in the main *)
(* loop: the interrupt may come between the steps of the UART terminal's   *)
(* handler, never the other way round.                                     *)
(*                                                                         *)
(* What is echoed is left out, and so is what cmd() does with a line.  An   *)
(* answer to the QSL wizard's prompt is stored in the history as well      *)
(* (cmd.c:2171); to the history it is a line entered like any other.       *)
(***************************************************************************)
EXTENDS Integers, Sequences, FiniteSets, Kiss

CONSTANTS
    Char,           \* printable characters, besides those of ANSI sequences
    CmdBufLen,      \* CMD_BUF_LEN
    Slots,          \* CMD_HISTORY_SLOTS
    KissTimeout,    \* KISS_TIMEOUT, in ticks
    Keys,           \* the bytes typed at each terminal, by its esc
    KissFrames,     \* the frames a KISS host sends to each terminal
    MaxStored,      \* bound: lines stored in the history, without a KISS host ...
    MaxStoredKiss,  \* bound: ... and with one; ...
    MaxStoredEsc    \* bound: ... and when an ANSI sequence begins

VARIABLES
    line, cursor,   \* cmd_buf up to cmd_idx, cmd_cursor
    cmd_history, cmd_history_head, cmd_history_count,
    nav,            \* history_nav_active, _index, _saved, _saved_cursor
    esc,            \* esc_state, esc_param (0 until it counts)
    kiss,           \* kiss_state, kiss_buf
    kiss_age,       \* tnc_time() - kiss_timeout, inside a frame, up to KissTimeout
    pc,             \* where the terminal's handler is
    store,          \* tty_history_store: the slot and count it has read, and
                    \*   whether the interrupt has stored a line in its memcpy
    host,           \* the KISS host's frame under way
    log,            \* history: the lines stored, oldest first
    walk,           \* history: where in log a terminal's user is
    torn            \* history: the interrupt has stored a line inside a store

Tty == {"usb", "uart"}

\* Control keys, one byte each.  (DEL is BS; what deletes forward is a sequence.)
EditKey == {"bs", "left", "right", "home", "end", "up", "down", "cr", "ctrlc"}

\* The bytes of an ANSI sequence after ESC, all printable; what the sequence means is
\* up to its last byte, or to the number before a tilde.
Opener == {"[", "O"}
Digit == {"0", "1", "2", "3", "4", "5", "6", "7", "8", "9"}
FinalKey == [A |-> "up", B |-> "down", C |-> "right", D |-> "left", H |-> "home", F |-> "end"]
NumberKey == [n \in {1, 3, 4, 7, 8} |->
    CASE n \in {1, 7} -> "home" [] n \in {4, 8} -> "end" [] n = 3 -> "del"]
Ansi == Opener \cup Digit \cup DOMAIN FinalKey \cup {";", "~"}

Printable == Char \cup Ansi
Line == {l \in Seq(Printable) : Len(l) <= CmdBufLen}
Byte == Printable \cup KissType \cup KissSpecial \cup EditKey \cup {"esc"}
Esc == [state : 0 .. 2, param : 0 .. 255]

ASSUME TerminalAssumption ==
    /\ Printable \cap (KissType \cup EditKey \cup KissSpecial \cup {"esc", "del", "nokey"}) = {}
    /\ CmdBufLen \in Nat \ {0} /\ Slots \in Nat \ {0}
    /\ KissPacketLen \in Nat \ {0} /\ KissTimeout \in Nat \ {0}
    /\ Keys \in [Tty -> [Esc -> SUBSET (Printable \cup EditKey \cup {"esc"})]]
    /\ \A t \in Tty : KissFrames[t] \subseteq Seq(Byte) \ {<<>>}
    /\ MaxStored \in Nat /\ MaxStoredKiss \in Nat /\ MaxStoredEsc \in Nat

editVars == <<line, cursor, nav>>
ringVars == <<cmd_history, cmd_history_head, cmd_history_count>>
storeVars == <<ringVars, store, log, torn>>
linkVars == <<esc, kiss, kiss_age, host>>
vars == <<editVars, storeVars, linkVars, pc, walk>>

\* Where tty_history_store may be interrupted: until the head moves, the line is copied
\* into its slot and its length noted; then it has still to be counted.
Storing == {"copy", "count"}

NoEsc == [state |-> 0, param |-> 0]
NoNav == [active |-> FALSE, index |-> 0, saved |-> <<>>, at |-> 0]
NoStore == [slot |-> 0, count |-> 0, cut |-> FALSE]
NoWalk == [at |-> 0, kept |-> TRUE, fresh |-> FALSE, line |-> <<>>, cursor |-> 0]
Silent == [frame |-> <<>>, out |-> KissSilent, whole |-> TRUE, leaked |-> FALSE, taken |-> <<>>]

Nav == [active : BOOLEAN, index : 0 .. Slots - 1, saved : Line, at : 0 .. CmdBufLen]
Receiver == [state : {"OUTSIDE", "INSIDE", "FESC", "ERROR"}, buf : Seq(Byte)]

TypeOK ==
    /\ line \in [Tty -> Line] /\ cursor \in [Tty -> 0 .. CmdBufLen]
    /\ cmd_history \in [0 .. Slots - 1 -> Line]
    /\ cmd_history_head \in 0 .. Slots - 1 /\ cmd_history_count \in 0 .. Slots
    /\ nav \in [Tty -> Nav]
    /\ kiss \in [Tty -> Receiver] /\ kiss_age \in [Tty -> 0 .. KissTimeout]
    /\ pc \in [Tty -> {"idle", "show"} \cup Storing] /\ esc \in [Tty -> Esc]
    /\ store \in [Tty -> [slot : 0 .. Slots - 1, count : 0 .. Slots, cut : BOOLEAN]]
    /\ \A t \in Tty :
        /\ cursor[t] <= Len(line[t]) /\ nav[t].at <= Len(nav[t].saved)
        /\ Len(kiss[t].buf) <= KissPacketLen

Init ==
    /\ line = [t \in Tty |-> <<>>] /\ cursor = [t \in Tty |-> 0]
    /\ cmd_history = [s \in 0 .. Slots - 1 |-> <<>>]
    /\ cmd_history_head = 0 /\ cmd_history_count = 0
    /\ nav = [t \in Tty |-> NoNav]
    /\ kiss = [t \in Tty |-> KissOutside] /\ kiss_age = [t \in Tty |-> 0]
    /\ esc = [t \in Tty |-> NoEsc]
    /\ pc = [t \in Tty |-> "idle"]
    /\ store = [t \in Tty |-> NoStore]
    /\ host = [t \in Tty |-> Silent]
    /\ log = <<>> /\ walk = [t \in Tty |-> NoWalk] /\ torn = FALSE
-----------------------------------------------------------------------------
(* The KISS host, the line it uses, and the clock *)

\* Lines stored and being stored (for the bounds).
Stored == Len(log) + Cardinality({t \in Tty : pc[t] = "copy"})

\* Inside a frame, as tty_input sees it: a frame that began KissTimeout ago is
\* given up.
Open(t) == kiss[t].state # "OUTSIDE"

InFrameForever(t) == Open(t)
InFrame(t) == Open(t) /\ kiss_age[t] < KissTimeout

Sending(t) == host[t].out.stage # "silent"

\* The host begins a frame.  The receiver is expected to take it whole if it is
\* outside any frame, or has been inside one for too long, and no ANSI sequence is
\* open: that would take the frame's first byte.
HostBegin(t, f) ==
    /\ ~Sending(t) /\ Stored <= MaxStoredKiss
    /\ host' = [host EXCEPT ![t] =
         [frame |-> f, out |-> KissOutput(f), leaked |-> FALSE, taken |-> <<>>,
          whole |-> esc[t].state # 2 /\ (Open(t) => kiss_age[t] >= KissTimeout)]]
    /\ UNCHANGED <<editVars, storeVars, esc, kiss, kiss_age, pc, walk>>

\* A byte of it is lost on the line.
HostLose(t) ==
    /\ Sending(t)
    /\ host' = [host EXCEPT ![t].out = KissWritten(@), ![t].whole = FALSE]
    /\ UNCHANGED <<editVars, storeVars, esc, kiss, kiss_age, pc, walk>>

\* Time passes (in receive(), so not while a handler runs).  A frame that takes
\* too long is not expected to be taken whole.
Tick ==
    /\ pc = [t \in Tty |-> "idle"]
    /\ \E t \in Tty : Open(t) /\ kiss_age[t] < KissTimeout
    /\ kiss_age' = [t \in Tty |->
         IF Open(t) /\ kiss_age[t] < KissTimeout THEN kiss_age[t] + 1 ELSE kiss_age[t]]
    /\ host' = [t \in Tty |->
         IF Open(t) /\ Sending(t) /\ kiss_age'[t] = KissTimeout
           THEN [host[t] EXCEPT !.whole = FALSE] ELSE host[t]]
    /\ UNCHANGED <<editVars, storeVars, esc, kiss, pc, walk>>

\* The USB interrupt may come between two steps of the UART terminal's handler.
Runs(t) == t = "uart" => pc["usb"] = "idle"

Ready(t) == Runs(t) /\ pc[t] = "idle"

\* The next byte is the host's, or is typed while the host is silent.
Arriving(t) == IF Sending(t) THEN {KissWrites(host[t].out)} ELSE Keys[t][esc[t]]

\* What the host would like to know of its byte: that a frame was taken, or that
\* the byte has leaked into the command line.
HostSees(t, got, leaks) ==
    host' = IF Sending(t)
              THEN [host EXCEPT ![t].out = KissWritten(@), ![t].taken = @ \o got,
                                ![t].leaked = @ \/ leaks]
              ELSE host
-----------------------------------------------------------------------------
(* tty_input *)

\* tty_handle_ansi_sequence takes the byte.
InSequence(t, b) == esc[t].state = 2 \/ (esc[t].state = 1 /\ b \in Opener)

\* The key that byte b is, or that it completes.
Pressed(t, b) ==
    CASE ~InSequence(t, b) -> b
      [] esc[t].state = 2 /\ b \in DOMAIN FinalKey -> FinalKey[b]
      [] esc[t].state = 2 /\ b = "~" /\ esc[t].param \in DOMAIN NumberKey ->
           NumberKey[esc[t].param]
      [] OTHER -> "nokey"

\* esc_state and esc_param after it, a byte wide.
Value(b) ==
    CASE b = "1" -> 1 [] b = "2" -> 2 [] b = "3" -> 3 [] b = "4" -> 4 [] b = "5" -> 5
      [] b = "6" -> 6 [] b = "7" -> 7 [] b = "8" -> 8 [] b = "9" -> 9 [] OTHER -> 0

NextEsc(e, b) ==
    CASE e.state # 2 /\ b = "esc" -> [state |-> 1, param |-> 0]
      [] e.state = 1 /\ b \in Opener -> [state |-> 2, param |-> 0]
      [] e.state = 2 /\ b \in Digit -> [state |-> 2, param |-> (e.param * 10 + Value(b)) % 256]
      [] e.state = 2 /\ b = ";" -> e
      [] OTHER -> NoEsc

\* The byte goes to the KISS receiver, inside a frame or when it begins one, ...
KissKey(t, b) ==
    LET k == IF InFrame(t) THEN kiss[t] ELSE KissOutside IN
    /\ Ready(t)
    /\ InFrame(t) \/ Pressed(t, b) = "FEND"
    /\ HostSees(t, KissPacket(k, b), FALSE)
    /\ kiss' = [kiss EXCEPT ![t] = KissInput(k, b)]
    /\ kiss_age' = [kiss_age EXCEPT ![t] = IF InFrame(t) THEN @ ELSE 0]
    /\ esc' = [esc EXCEPT ![t] = IF InFrame(t) THEN @ ELSE NoEsc]
    /\ UNCHANGED <<editVars, storeVars, pc, walk>>

\* ... or it is key k, or completes it.
KeyByte(t, b, k) ==
    /\ Ready(t)
    /\ ~InFrame(t) /\ Pressed(t, b) = k
    /\ HostSees(t, <<>>, TRUE)
    /\ kiss' = [kiss EXCEPT ![t] = KissOutside]
    /\ kiss_age' = [kiss_age EXCEPT ![t] = 0]
    /\ esc' = [esc EXCEPT ![t] = NextEsc(@, b)]

Key(t, k) == Ready(t) /\ \E b \in Arriving(t) : KeyByte(t, b, k)

\* A byte that is no key yet, or none at all.
NoKey(t) ==
    /\ (Key(t, "esc") /\ Stored <= MaxStoredEsc) \/ Key(t, "nokey")
    /\ UNCHANGED <<editVars, storeVars, pc, walk>>
-----------------------------------------------------------------------------
(* The line *)

Edit(t, l, c) ==
    /\ line' = [line EXCEPT ![t] = l]
    /\ cursor' = [cursor EXCEPT ![t] = c]

Before(t) == SubSeq(line[t], 1, cursor[t])
After(t) == SubSeq(line[t], cursor[t] + 1, Len(line[t]))

ResetNav(t) ==
    /\ nav' = [nav EXCEPT ![t] = NoNav]
    /\ walk' = [walk EXCEPT ![t] = NoWalk]

\* A cursor key keeps the walk through the history; the line has been touched.
Touched(t) == walk' = [walk EXCEPT ![t].fresh = FALSE]

InsertPastEnd(t, b) ==
    /\ b \notin EditKey \cup {"FEND", "esc"}
    /\ KeyByte(t, b, b)
    /\ IF b \in Printable /\ Len(line[t]) <= CmdBufLen
         THEN Edit(t, Append(Before(t), b) \o After(t), cursor[t] + 1)
         ELSE UNCHANGED <<line, cursor>>
    /\ ResetNav(t)
    /\ UNCHANGED <<storeVars, pc>>

\* tty_insert_char; what is not printable is refused, but ends the walk.
Insert(t, b) ==
    /\ b \notin EditKey \cup {"FEND", "esc"}
    /\ KeyByte(t, b, b)
    /\ IF b \in Printable /\ Len(line[t]) < CmdBufLen
         THEN Edit(t, Append(Before(t), b) \o After(t), cursor[t] + 1)
         ELSE UNCHANGED <<line, cursor>>
    /\ ResetNav(t)
    /\ UNCHANGED <<storeVars, pc>>

Backspace(t) ==
    /\ Key(t, "bs")
    /\ IF cursor[t] > 0
         THEN Edit(t, SubSeq(line[t], 1, cursor[t] - 1) \o After(t), cursor[t] - 1)
         ELSE UNCHANGED <<line, cursor>>
    /\ ResetNav(t)
    /\ UNCHANGED <<storeVars, pc>>

\* tty_delete_at_cursor
Delete(t) ==
    /\ Key(t, "del")
    /\ IF cursor[t] < Len(line[t])
         THEN Edit(t, Before(t) \o Tail(After(t)), cursor[t])
         ELSE UNCHANGED <<line, cursor>>
    /\ Touched(t)
    /\ UNCHANGED <<nav, storeVars, pc>>

Move(t, key, c) ==
    /\ Key(t, key)
    /\ Edit(t, line[t], c)
    /\ Touched(t)
    /\ UNCHANGED <<nav, storeVars, pc>>

MoveCursor(t) ==
    \/ Move(t, "left", IF cursor[t] > 0 THEN cursor[t] - 1 ELSE 0)
    \/ Move(t, "right", IF cursor[t] < Len(line[t]) THEN cursor[t] + 1 ELSE cursor[t])
    \/ Move(t, "home", 0)
    \/ Move(t, "end", Len(line[t]))

CtrlC(t) ==
    /\ Key(t, "ctrlc")
    /\ Edit(t, <<>>, 0)
    /\ ResetNav(t)
    /\ UNCHANGED <<storeVars, pc>>
-----------------------------------------------------------------------------
(* The history *)

\* The user's view: the list of all lines stored, of which the last Slots are
\* there; up goes to the next older one, down to the next newer one and from the
\* newest back to the line that was being typed.  A line is in the list from when the
\* head moves past it, but the count, which says how many are there, follows later.
LastLines(n) == IF Len(log) > n THEN Len(log) - n + 1 ELSE 1
Held == LastLines(Slots)
Counted == Len(log) - (IF \E u \in Tty : pc[u] = "count" THEN 1 ELSE 0)
Listed == LastLines(IF Counted < Slots THEN Counted ELSE Slots)

\* Line n is in the slot that a store is just filling.
Overwritten(n) == Len(log) >= Slots /\ n = Held /\ \E u \in Tty : pc[u] = "copy"

\* A user whose line has left the list, or is being overwritten, goes from there where
\* the code takes him (not kept).
At(w, n) == [w EXCEPT !.at = n, !.fresh = TRUE, !.kept = w.kept /\ ~Overwritten(n)]

UpFrom(t) ==
    LET w == walk[t] IN
    CASE w.at = 0 /\ Listed <= Len(log) ->
           [At(w, Len(log)) EXCEPT !.line = line[t], !.cursor = cursor[t]]
      [] w.at # 0 /\ w.at > Listed -> At(w, w.at - 1)
      [] w.at # 0 /\ w.at < Listed -> [w EXCEPT !.kept = FALSE]
      [] OTHER -> w

DownFrom(t) ==
    LET w == walk[t]
        kept == w.kept /\ w.at >= Listed IN
    CASE w.at = 0 -> w
      [] w.at # 0 /\ kept ->
           [w EXCEPT !.at = IF w.at = Len(log) THEN 0 ELSE w.at + 1, !.fresh = TRUE]
      [] w.at # 0 /\ ~kept /\ nav'[t].active -> [w EXCEPT !.kept = FALSE]
      [] OTHER -> [w EXCEPT !.at = 0, !.kept = TRUE, !.fresh = TRUE]

Slot(i) == i % Slots
OldestSlot == Slot(cmd_history_head + Slots - cmd_history_count)

NavTo(t, n, i) ==
    /\ nav' = [nav EXCEPT ![t] = [n EXCEPT !.active = TRUE, !.index = i]]
    /\ pc' = [pc EXCEPT ![t] = "show"]

StartNav(t) == [active |-> TRUE, index |-> cmd_history_head,
                saved |-> line[t], at |-> cursor[t]]

\* tty_history_prev: the entry is chosen; at the oldest one nothing happens.
Prev(t) ==
    LET start == ~nav[t].active
        n == IF start THEN StartNav(t) ELSE nav[t] IN
    /\ Key(t, "up")
    /\ IF cmd_history_count = 0 \/ (~start /\ n.index = OldestSlot)
         THEN UNCHANGED <<nav, pc>>
         ELSE NavTo(t, n, Slot(n.index + Slots - 1))
    /\ walk' = [walk EXCEPT ![t] = UpFrom(t)]
    /\ UNCHANGED <<line, cursor, storeVars>>

NextEntryStuck(t) ==
    LET i == nav[t].index IN
    /\ Key(t, "down")
    /\ CASE ~nav[t].active \/ i = cmd_history_head -> UNCHANGED <<editVars, pc>>
         [] nav[t].active /\ i # cmd_history_head /\ Slot(i + 1) = cmd_history_head ->
              /\ Edit(t, nav[t].saved, nav[t].at)
              /\ nav' = [nav EXCEPT ![t] = NoNav]
              /\ UNCHANGED pc
         [] OTHER -> NavTo(t, nav[t], Slot(i + 1)) /\ UNCHANGED <<line, cursor>>
    /\ walk' = [walk EXCEPT ![t] = DownFrom(t)]
    /\ UNCHANGED storeVars

\* tty_history_next: the entry is chosen, or what was being typed comes back.  The
\* index is the head when a full ring's oldest entry is shown.
NextEntry(t) ==
    LET i == nav[t].index
        oldest == i = cmd_history_head IN
    /\ Key(t, "down")
    /\ CASE ~nav[t].active \/ (oldest /\ cmd_history_count < Slots) -> UNCHANGED <<editVars, pc>>
         [] nav[t].active /\ ~oldest /\ Slot(i + 1) = cmd_history_head ->
              /\ Edit(t, nav[t].saved, nav[t].at)
              /\ nav' = [nav EXCEPT ![t] = NoNav]
              /\ UNCHANGED pc
         [] OTHER -> NavTo(t, nav[t], Slot(i + 1)) /\ UNCHANGED <<line, cursor>>
    /\ walk' = [walk EXCEPT ![t] = DownFrom(t)]
    /\ UNCHANGED storeVars

\* The entry chosen becomes the line.
Show(t) ==
    /\ Runs(t) /\ pc[t] = "show"
    /\ LET l == cmd_history[nav[t].index] IN Edit(t, l, Len(l))
    /\ pc' = [pc EXCEPT ![t] = "idle"]
    /\ UNCHANGED <<nav, storeVars, linkVars, walk>>

\* CR: the line is stored in the history, unless it is empty or the last one again,
\* and done (cmd() or send_unproto, not modelled here).
LastStored == cmd_history[Slot(cmd_history_head + Slots - 1)]

Cr(t) ==
    /\ Key(t, "cr")
    /\ IF line[t] = <<>> \/ (cmd_history_count > 0 /\ LastStored = line[t])
         THEN /\ Edit(t, <<>>, 0)
              /\ ResetNav(t)
              /\ UNCHANGED <<storeVars, pc>>
         ELSE /\ Stored < IF \A u \in Tty : host[u] = Silent THEN MaxStored ELSE MaxStoredKiss
              /\ store' = [u \in Tty |->
                   IF u = t
                     THEN [slot |-> cmd_history_head, count |-> cmd_history_count, cut |-> FALSE]
                     ELSE [store[u] EXCEPT !.cut = @ \/ pc[u] = "copy"]]
              /\ torn' = (torn \/ \E u \in Tty : pc[u] \in Storing)
              /\ pc' = [pc EXCEPT ![t] = "copy"]
              /\ UNCHANGED <<editVars, walk, ringVars, log>>

\* Part of line l has been copied over another.
Mixed(l, other) ==
    {[i \in 1 .. Len(other) |-> IF i <= k /\ i <= Len(l) THEN l[i] ELSE other[i]] :
        k \in 0 .. Len(l)}

\* memcpy has copied another part, or all of the line and its length are there.
StoreCopy(t) ==
    LET slot == store[t].slot IN
    /\ Runs(t) /\ pc[t] = "copy" /\ ~store[t].cut
    /\ \E l \in Mixed(line[t], cmd_history[slot]) \cup {line[t]} :
         cmd_history' = [cmd_history EXCEPT ![slot] = l]
    /\ UNCHANGED <<editVars, cmd_history_head, cmd_history_count, store, log, torn, linkVars,
                   pc, walk>>

\* What is in the slot at the end.  If the interrupt has stored a line there meanwhile,
\* the copy goes on where it was interrupted, or was over.
Copied(t) ==
    LET there == cmd_history[store[t].slot] IN
    IF store[t].cut THEN Mixed(there, line[t]) \cup {there} ELSE {line[t]}

\* The head moves past the line ...
StoreHead(t) ==
    LET slot == store[t].slot IN
    /\ Runs(t) /\ pc[t] = "copy"
    /\ \E l \in Copied(t) : cmd_history' = [cmd_history EXCEPT ![slot] = l]
    /\ cmd_history_head' = Slot(slot + 1)
    /\ log' = Append(log, line[t])
    /\ walk' = [u \in Tty |-> [walk[u] EXCEPT !.kept = @ /\ (walk[u].at = 0 \/ walk[u].at >= Held')]]
    /\ pc' = [pc EXCEPT ![t] = "count"]
    /\ UNCHANGED <<editVars, cmd_history_count, store, torn, linkVars>>

\* ... and the line is counted; then it has been done.
StoreCount(t) ==
    LET count == store[t].count IN
    /\ Runs(t) /\ pc[t] = "count"
    /\ cmd_history_count' = IF count < Slots THEN count + 1 ELSE Slots
    /\ store' = [store EXCEPT ![t] = NoStore]
    /\ Edit(t, <<>>, 0)
    /\ ResetNav(t)
    /\ pc' = [pc EXCEPT ![t] = "idle"]
    /\ UNCHANGED <<cmd_history, cmd_history_head, log, torn, linkVars>>
-----------------------------------------------------------------------------
Terminal(t) ==
    \/ \E b \in Arriving(t) : KissKey(t, b) \/ Insert(t, b)
    \/ NoKey(t)
    \/ Backspace(t) \/ Delete(t) \/ MoveCursor(t) \/ CtrlC(t)
    \/ Prev(t) \/ NextEntry(t) \/ Show(t)
    \/ Cr(t) \/ StoreCopy(t) \/ StoreHead(t) \/ StoreCount(t)

Next ==
    \/ \E t \in Tty : Terminal(t) \/ HostLose(t) \/ \E f \in KissFrames[t] : HostBegin(t, f)
    \/ Tick

Spec == Init /\ [][Next]_vars
-----------------------------------------------------------------------------
(* Properties *)

\* Up and down go through the lines in the order they were entered, whoever entered
\* them and however the ring has wrapped, and stop at the oldest one: what a terminal
\* shows is the line its user is at.  Down from the newest line brings back what was
\* being typed, with the cursor where it was.  Both also when the other terminal has
\* moved the ring meanwhile.  Not promised: anything after a store has interrupted
\* another (torn); and a user's line (not kept) once he has gone to the oldest entry of
\* a full ring while a new line was being copied over it, or when it has dropped out of
\* the ring, or out of what a store that is not over yet leaves counted.
EntryShown(t) == walk[t].kept => line[t] = log[walk[t].at]
DraftShown(t) == line[t] = walk[t].line /\ cursor[t] = walk[t].cursor

HistoryShown ==
    ~torn => \A t \in Tty :
        pc[t] = "idle" /\ walk[t].fresh =>
            IF walk[t].at = 0 THEN DraftShown(t) ELSE EntryShown(t)

\* A KISS frame that comes without loss and in time, after the receiver has been
\* left outside a frame or silent for the timeout and no ANSI sequence is open, is
\* taken once, with its escapes undone, if kiss_packet has a use for it and it fits the
\* buffer; and nothing of it reaches the command line.
KissWhole ==
    \A t \in Tty : host[t].whole =>
        /\ ~host[t].leaked
        /\ host[t].taken =
             IF ~Sending(t) /\ KissActs(host[t].frame)
                /\ Len(host[t].frame) <= KissPacketLen
             THEN <<host[t].frame>> ELSE <<>>
=============================================================================
