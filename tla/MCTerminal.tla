----------------------------- MODULE MCTerminal -----------------------------
(* Terminal: the USB terminal edits and walks a history of two slots, the UART *)
(* terminal enters lines, walks too, and belongs to a KISS host.  A line has   *)
(* at most one character, and each terminal a letter of its own.               *)
EXTENDS Terminal

MCKeys == [t \in Tty |-> [e \in Esc |->
    IF t = "uart" THEN {"b", "cr", "up"}
    ELSE CASE e.state = 0 -> {"a", "esc"} \cup EditKey
           [] e.state = 1 -> {"["}
           [] e = [state |-> 2, param |-> 0] -> {"3", "A"}
           [] OTHER -> {"~"}]]
MCKissFrames == [t \in Tty |->
    IF t = "usb" THEN {} ELSE {<<"send", "FEND">>, <<"set">>, <<"send", "esc", "[">>}]
=============================================================================
