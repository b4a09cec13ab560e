------------------------------ MODULE MCAudio ------------------------------
(* The two ends of the audio, Dac with a short queue (two chunks tell          *)
(* overwriting from repeating) and AdcRing with four buffers and a clock that  *)
(* wraps after eleven.  They share nothing, so either runs while the other     *)
(* stands still: that gives the sum of their states and not the product.       *)
EXTENDS Dac, AdcRing

VARIABLE running    \* which one

AudioInit == Init /\ AdcInit /\ running \in {"Dac", "AdcRing"}

AudioNext ==
    \/ running = "Dac" /\ Next /\ UNCHANGED <<adcVars, running>>
    \/ running = "AdcRing" /\ AdcNext /\ UNCHANGED <<vars, running>>

AudioSpec == AudioInit /\ [][AudioNext]_<<vars, adcVars, running>>
=============================================================================
