-------------------------------- MODULE Help --------------------------------
(***************************************************************************)
(* The HELP command (help.c) on top of the output to the USB terminal      *)
(* (UsbOutput).  A HELP command only notes what is to be printed and where *)
(* to; help_poll, called once in every turn of the main loop, prints one   *)
(* line per call, and OK after the last.                                   *)
(*                                                                         *)
(* A HELP given on the USB terminal is noted in the USB interrupt, between *)
(* any two steps of help_poll or of a HELP given on the UART terminal.     *)
(* What is written to the UART terminal is not followed further.           *)
(***************************************************************************)
EXTENDS UsbOutput

CONSTANTS
    Text,       \* per language, the lines of help_lines
    Warning,    \* per language, the lines of help_warning_lines
    NewLine,    \* "\r\n"
    OkText,     \* "\r\nOK\r\n"
    MaxBeyond,  \* bound: the last line printed from behind the end of a text
    Echo        \* what the interrupt writes: echoes, answers

VARIABLES
    help,       \* the static variables of help.c
    at,         \* where the main loop is in help_poll or in a HELP command
    asked,      \* history: the text last asked for, and where
    shown,      \* history: what has been printed since, or passed over
    wanted,     \* history: the language a HELP on the UART terminal asks for
    mixed       \* history: a HELP has come at a bad moment since

helpVars == <<help, at, asked, shown, wanted, mixed>>
vars == <<outVars, helpVars>>

Language == DOMAIN Text
Terminal == {"usb", "uart"}

ASSUME HelpAssumption ==
    /\ DOMAIN Warning = Language /\ "en" \in Language
    /\ \A l \in Language : /\ Text[l] \in Seq(Seq(Char)) \ {<<>>}
                           /\ Warning[l] \in Seq(Seq(Char))
    /\ \A l, k \in Language : Len(Warning[l]) = Len(Warning[k])
    /\ MaxBeyond \in Nat /\ NewLine \in Seq(Char) /\ OkText \in Seq(Char) /\ Echo \subseteq Seq(Char)

\* What a HELP prints before OK, with the terminal it is printed on: the text; then, if
\* there is a warning, an empty line and the warning.  (WORKLOG.md:659-663 has it the
\* other way round: the warning, an empty line, the text.)
Whole(a) ==
    [i \in DOMAIN Text[a.lines] |-> <<a.ttyp, a.lines, i>>] \o
    (IF a.warn
       THEN <<<<a.ttyp, "gap", 0>>>> \o
            [i \in DOMAIN Warning[a.lines] |-> <<a.ttyp, "warning", i>>]
       ELSE <<>>)

TypeOK ==
    /\ TypeOKOut
    /\ help \in [active : BOOLEAN, ok_pending : BOOLEAN, ttyp : Terminal \cup {"none"},
                lines : Language, line_idx : Nat, warn : BOOLEAN, warn_idx : Nat, gap : BOOLEAN]
    /\ asked \in [ttyp : Terminal \cup {"none"}, lines : Language, warn : BOOLEAN]
    /\ wanted \in Language /\ mixed \in BOOLEAN
    /\ help.active /\ ~mixed =>
         /\ help.line_idx \in 1 .. Len(Text[help.lines]) + 1
         /\ help.warn_idx \in 1 .. Len(Warning[help.lines]) + 1
    /\ at \in {"loop", "asked", "line", "lineEnd", "warning", "warningEnd", "end", "ok"}

Init ==
    /\ InitOut
    /\ help = [active |-> FALSE, ok_pending |-> FALSE, ttyp |-> "none", lines |-> "en",
               line_idx |-> 1, warn |-> FALSE, warn_idx |-> 1, gap |-> FALSE]
    /\ at = "loop"
    /\ asked = [ttyp |-> "none", lines |-> "en", warn |-> FALSE]
    /\ shown = <<>> /\ wanted = "en" /\ mixed = FALSE
-----------------------------------------------------------------------------
(* The HELP command *)

ActivateKeepsLine(h, t, w) ==
    [h EXCEPT !.ttyp = t, !.active = TRUE, !.ok_pending = FALSE,
              !.warn_idx = 1, !.gap = FALSE, !.warn = w]

\* The end of a good HELP command.  (MYCALL and UNPROTO may not be set, w.)
Activate(h, t, w) ==
    [h EXCEPT !.ttyp = t, !.line_idx = 1, !.warn_idx = 1, !.active = TRUE,
              !.ok_pending = FALSE, !.gap = FALSE, !.warn = w]

\* A HELP that comes while a line is printed starts its text at the first line, but
\* help_poll then counts the line it was printing: the first line is passed over.
Passed(a) == IF at \in {"line", "lineEnd"} THEN <<Whole(a)[1]>> ELSE <<>>

\* The histories after a HELP for a: forgotten if it came at a bad moment.
NotAsked == [ttyp |-> "none", lines |-> "en", warn |-> FALSE]
Asks(a, bad) ==
    /\ asked' = (IF bad THEN NotAsked ELSE a)
    /\ shown' = (IF bad THEN <<>> ELSE Passed(a))
    /\ mixed' = bad

BadHelp(bad) == IF bad THEN Asks(NotAsked, TRUE) ELSE UNCHANGED <<asked, shown, mixed>>

\* help_handle_command in the interrupt: a good one is noted; a bad one, which is
\* answered at once, has chosen the text all the same.
UsbHelp(l, w) ==
    /\ help' = Activate([help EXCEPT !.lines = l], "usb", w)
    /\ Asks([ttyp |-> "usb", lines |-> l, warn |-> w], at \notin {"loop", "line", "lineEnd"})
    /\ UNCHANGED <<outVars, at, wanted>>

UsbBadHelp(l) ==
    /\ help' = [help EXCEPT !.lines = l]
    /\ BadHelp(help.active \/ at # "loop")
    /\ \E text \in Echo : UsbInterruptWrite(text)
    /\ UNCHANGED <<at, wanted>>

\* The same on the UART terminal, in two steps.
UartHelp(l) ==
    /\ main.pc = "idle" /\ at = "loop"
    /\ help' = [help EXCEPT !.lines = l]
    /\ at' = "asked"
    /\ BadHelp(help.active)
    /\ wanted' = l
    /\ UNCHANGED outVars

UartHelpGood(w) ==
    /\ at = "asked"
    /\ help' = Activate(help, "uart", w)
    /\ Asks([ttyp |-> "uart", lines |-> wanted, warn |-> w], help.lines # wanted)
    /\ at' = "loop" /\ wanted' = "en"
    /\ UNCHANGED outVars

UartHelpBad ==
    /\ at = "asked"
    /\ at' = "loop" /\ wanted' = "en"
    /\ UNCHANGED <<outVars, help, asked, shown, mixed>>
-----------------------------------------------------------------------------
(* help_poll *)

\* The next call of help_poll, or its next step, once usb_write has returned.
Ready(where) == main.pc = "idle" /\ at = where

\* tty_write: to the USB terminal or to the UART's queue.  A HELP that comes after the
\* last OK has been written loses its terminal to PollOk, and tty_write then looks
\* through a NULL pointer for where to write: anything may be found there.
TtyWrite(t, text) ==
    \/ t \in {"usb", "none"} /\ UsbWrite(text)
    \/ t \in {"uart", "none"} /\ UNCHANGED outVars

PrintLine(text, item) ==
    /\ TtyWrite(help.ttyp, text)
    /\ shown' = IF mixed THEN <<>> ELSE Append(shown, <<help.ttyp>> \o item)
    /\ UNCHANGED <<asked, wanted, mixed>>

LinesLeft == help.line_idx <= Len(Text[help.lines])

\* Behind the end of the table, where a bad HELP may have taken it, help_poll finds
\* anything: an end, or a line.  (MaxBeyond bounds how far it goes.)
BeyondEnd == help.line_idx \in Len(Text[help.lines]) + 2 .. MaxBeyond
Lines ==
    CASE LinesLeft -> {Text[help.lines][help.line_idx]}
      [] BeyondEnd -> UNION {{Text[l][i] : i \in DOMAIN Text[l]} : l \in Language}
      [] OTHER -> {}

PollLine ==
    /\ Ready("loop") /\ help.active
    /\ \E text \in Lines : PrintLine(text, <<help.lines, help.line_idx>>)
    /\ at' = "line"
    /\ UNCHANGED help

PollGap ==
    /\ Ready("loop") /\ help.active /\ ~LinesLeft /\ help.warn /\ ~help.gap
    /\ help' = [help EXCEPT !.gap = TRUE]
    /\ PrintLine(NewLine, <<"gap", 0>>)
    /\ UNCHANGED at

WarningsLeft == help.warn_idx <= Len(Warning[help.lines])

PollWarning ==
    /\ Ready("loop") /\ help.active /\ ~LinesLeft /\ help.warn /\ help.gap
    /\ IF WarningsLeft
         THEN /\ PrintLine(Warning[help.lines][help.warn_idx], <<"warning", help.warn_idx>>)
              /\ at' = "warning"
              /\ UNCHANGED help
         ELSE /\ help' = [help EXCEPT !.warn = FALSE]
              /\ UNCHANGED <<outVars, at, asked, shown, wanted, mixed>>

\* The line is followed by a new line, on the terminal that HELP belongs to by then, ...
PollNewLine ==
    /\ \/ Ready("line") /\ at' = "lineEnd"
       \/ Ready("warning") /\ at' = "warningEnd"
    /\ TtyWrite(help.ttyp, NewLine)
    /\ UNCHANGED <<help, asked, shown, wanted, mixed>>

\* ... and the index moves on.
PollNext ==
    /\ \/ /\ Ready("lineEnd")
          /\ help' = [help EXCEPT !.line_idx = @ + 1]
       \/ /\ Ready("warningEnd")
          /\ help' = [help EXCEPT !.warn_idx = @ + 1]
    /\ at' = "loop"
    /\ UNCHANGED <<outVars, asked, shown, wanted, mixed>>

\* Nothing is left to print; OK is for the next call.
PollEnd ==
    /\ \/ /\ Ready("loop") /\ help.active /\ ~LinesLeft /\ ~help.warn
          /\ at' = "end"
          /\ UNCHANGED help
       \/ /\ Ready("end")
          /\ help' = [help EXCEPT !.active = FALSE, !.ok_pending = TRUE]
          /\ at' = "loop"
    /\ UNCHANGED <<outVars, asked, shown, wanted, mixed>>

PollOk ==
    \/ /\ Ready("loop") /\ ~help.active /\ help.ok_pending
       /\ TtyWrite(help.ttyp, OkText)
       /\ at' = "ok"
       /\ UNCHANGED <<help, asked, shown, wanted, mixed>>
    \/ /\ Ready("ok")
       /\ help' = [help EXCEPT !.ok_pending = FALSE, !.ttyp = "none"]
       /\ at' = "loop"
       /\ UNCHANGED <<outVars, asked, shown, wanted, mixed>>

HelpPoll ==
    PollLine \/ PollGap \/ PollWarning \/ PollNewLine \/ PollNext \/ PollEnd \/ PollOk
-----------------------------------------------------------------------------
Next ==
    \/ HelpPoll
    \/ WriteStep /\ UNCHANGED helpVars
    \/ \E l \in Language : UartHelp(l) \/ UsbBadHelp(l)
    \/ \E w \in BOOLEAN : UartHelpGood(w) \/ \E l \in Language : UsbHelp(l, w)
    \/ UartHelpBad
    \/ \E text \in Echo : UsbInterruptWrite(text) /\ UNCHANGED helpVars
    \/ (TxComplete \/ LineState) /\ UNCHANGED helpVars

Spec == Init /\ [][Next]_vars
-----------------------------------------------------------------------------
(* Properties *)

\* OK is written only after all of the text asked for (Whole), each line once, in its
\* order and to the terminal that asked, whatever HELP was being printed when it was
\* asked for.  Not printed is only the first line, when HELP was given in the interrupt
\* while help_poll printed a line.  Nothing is claimed (mixed) after a HELP that came in
\* the interrupt while help_poll or a HELP on the UART terminal was elsewhere at work,
\* or a bad one while a text was being printed.
HelpWhole == (at = "ok" /\ ~mixed) => shown = Whole(asked)
=============================================================================
