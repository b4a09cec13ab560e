-------------------------------- MODULE Kiss --------------------------------
(***************************************************************************)
(* KISS framing (kiss.c): the receiver kiss_input as a function of its     *)
(* state and a byte, what kiss_packet makes of a frame, and the frame      *)
(* kiss_output writes, byte by byte.                                       *)
(***************************************************************************)
LOCAL INSTANCE Naturals
LOCAL INSTANCE Sequences

CONSTANT KissPacketLen  \* KISS_PACKET_LEN

KissSpecial == {"FEND", "FESC", "TFEND", "TFESC"}

\* What the first byte of a frame asks for: to send the rest, to set a parameter,
\* to leave KISS mode; or it names another port or an unknown command.
KissType == {"send", "set", "exit", "port", "none"}

KissOutside == [state |-> "OUTSIDE", buf |-> <<>>]

\* A byte of a frame, with its escape taken off.
Unescaped(k, b) ==
    CASE k.state = "FESC" /\ b = "TFEND" -> "FEND"
      [] k.state = "FESC" /\ b = "TFESC" -> "FESC"
      [] OTHER -> b

\* kiss_input.  (What is left in the buffer after a frame is never read again.)
KissInput(k, b) ==
    CASE k.state = "OUTSIDE" ->
           IF b = "FEND" THEN [state |-> "INSIDE", buf |-> <<>>] ELSE k
      [] k.state = "INSIDE" /\ b = "FEND" -> KissOutside
      [] k.state = "INSIDE" /\ b = "FESC" -> [k EXCEPT !.state = "FESC"]
      [] k.state = "ERROR" -> IF b = "FEND" THEN KissOutside ELSE k
      [] OTHER ->
           IF Len(k.buf) >= KissPacketLen
             THEN [state |-> "ERROR", buf |-> <<>>]
             ELSE [state |-> "INSIDE", buf |-> Append(k.buf, Unescaped(k, b))]

\* kiss_packet does something with the frame.
KissActs(buf) ==
    /\ buf # <<>>
    /\ \/ buf[1] = "exit"
       \/ Len(buf) >= 2 /\ buf[1] \in {"send", "set"}

\* The frame that a byte completes, if kiss_packet does something with it.
KissPacket(k, b) ==
    IF k.state = "INSIDE" /\ b = "FEND" /\ KissActs(k.buf) THEN <<k.buf>> ELSE <<>>

\* kiss_output, and what a host sends: the bytes between two FENDs, FEND and FESC
\* escaped.  left is what it has still to send of the frame, the type byte and the
\* data; a byte to be escaped is there until both of its bytes have been written.
KissSilent == [stage |-> "silent", left |-> <<>>]
KissOutput(frame) == [stage |-> "start", left |-> frame]

\* The next byte it writes, ...
KissWrites(s) ==
    CASE s.stage = "start" \/ (s.stage = "data" /\ s.left = <<>>) -> "FEND"
      [] s.stage = "data" /\ s.left # <<>> ->
           IF s.left[1] \in {"FEND", "FESC"} THEN "FESC" ELSE s.left[1]
      [] s.stage = "escape" -> IF s.left[1] = "FEND" THEN "TFEND" ELSE "TFESC"

\* ... and what it does after that.
KissWritten(s) ==
    CASE s.stage = "start" -> [s EXCEPT !.stage = "data"]
      [] s.stage = "data" /\ s.left = <<>> -> KissSilent
      [] s.stage = "data" /\ KissWrites(s) = "FESC" -> [s EXCEPT !.stage = "escape"]
      [] OTHER -> [stage |-> "data", left |-> Tail(s.left)]
=============================================================================
