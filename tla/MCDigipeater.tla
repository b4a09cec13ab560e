---------------------------- MODULE MCDigipeater ----------------------------
(* Digipeater: A and C hear B only, B hears both; B and C share an alias.      *)
EXTENDS Digipeater

MCCalls == [s \in {"A", "B", "C"} |-> IF s = "A" THEN {"A"} ELSE {s, "RELAY"}]
MCHears == {<<"A", "B">>, <<"B", "A">>, <<"B", "C">>, <<"C", "B">>}

Via(calls) == [i \in DOMAIN calls |-> [call |-> calls[i], h |-> FALSE]]
Frame(from, calls, after) ==
    [ui |-> TRUE, src |-> from, digis |-> Len(calls), slots |-> Via(calls) \o after]

\* Control, PID and text, whose seventh byte has the top bit set or not; and text
\* after such a byte that reads like C's call sign.
Ascii == <<[call |-> "control", h |-> FALSE]>>
Kana == <<[call |-> "control", h |-> TRUE]>>
Named == Kana \o <<[call |-> "C", h |-> FALSE]>>

MCFrames == {
    Frame("A", <<"RELAY", "RELAY">>, Ascii), Frame("A", <<"B", "C", "B">>, Kana),
    Frame("C", <<"B", "A", "RELAY", "B">>, Ascii), Frame("C", <<>>, Ascii),
    Frame("A", <<"RELAY">>, Named),
    [Frame("A", <<"RELAY">>, Ascii) EXCEPT !.ui = FALSE]}
=============================================================================
