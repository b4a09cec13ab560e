------------------------------- MODULE MCHelp -------------------------------
(* Help and UsbOutput: two texts of different length, with an empty line and a *)
(* line longer than the FIFO and the queue together.                           *)
EXTENDS Help

MCText == [l \in {"en", "ja"} |-> IF l = "en" THEN <<<<>>, <<"a", "b">>>> ELSE <<<<"a", "b", "a", "b", "a">>>>]
MCWarning == [l \in {"en", "ja"} |-> <<<<"b">>>>]
MCNewLine == <<"a">>
MCOkText == <<"b", "b">>
MCEcho == {<<"a", "b">>}
=============================================================================
