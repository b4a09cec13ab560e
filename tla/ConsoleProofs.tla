---------------------------- MODULE ConsoleProofs ----------------------------
(***************************************************************************)
(* Module Console is correct for every set of keys, secrets and payloads   *)
(* and every length and timeout of a dialog.                               *)
(*                                                                         *)
(* The properties speak of moments at which a key arrives or nothing runs. *)
(* In between, a handler of one terminal has done part of its work and the *)
(* other terminal may come in.  The invariant (Dialogs, its parts below)   *)
(* therefore says of every place a handler can be at what it has promised  *)
(* and what it owns.  Owned and Counted assume that no handler was torn,   *)
(* Promised that no dialog was crossed either; what keeps both usable is   *)
(* that a handler that begins untorn begins when no other is under way     *)
(* (Interrupts), and a dialog that begins uncrossed when no other is       *)
(* pending (Crosses).  What the main loop saw when it looked at a key      *)
(* (Asking) it still finds when it acts on it, unless it was torn (Held).  *)
(***************************************************************************)
EXTENDS Console, TLAPS

\* The values of the contexts.
GenContext == [ttyp : Tty \cup {None}, remaining : 0 .. Entropy,
               pending_secret : Secret \cup {None}]
TxContext == [ttyp : Tty \cup {None}, payload : Payload \cup {Garbled, None}]
BootContext == [ttyp : Tty \cup {None}, state : {"Y", "E", "S", "cr"}, left : 0 .. BootTimeout]
WizardContext == [ttyp : Tty \cup {None}, step : 0 .. WizardSteps - 1, input_len : 0 .. 1]
TermtestContext == [ttyp : Tty \cup {None}, len : 0 .. TermtestLen, idle : 0 .. FlushTimeout]

ContextsOK ==
    /\ privkey_gen_ctx \in GenContext /\ sign_tx_ctx \in TxContext
    /\ usb_boot_confirm_ctx \in BootContext /\ sign_qsl_wizard_ctx \in WizardContext
    /\ termtest_ctx \in TermtestContext

\* The rest.
PlacesOK ==
    /\ cmd_pending_state \in PendingState /\ cmd_pending_ttyp \in Tty \cup {None}
    /\ privkey \in Secret \cup {None} /\ booted \in Tty \cup {None}
    /\ asked \in [Tty -> Prompt]
    /\ pc \in [Tty -> Station \cup Inside] /\ pc["usb"] \notin {"receive", "poll"} \cup Looking
    /\ as_asked \in {"yes", "mixed", "no"} /\ yes \in [Tty -> -1 .. 5]
    /\ unshown \in Nat /\ torn \in BOOLEAN /\ crossed \in BOOLEAN /\ dialogs \in Nat

TypesOK == ContextsOK /\ PlacesOK

LEMMA Constants ==
    /\ Entropy \in Nat \ {0} /\ WizardSteps \in Nat \ {0} /\ BootTimeout \in Nat \ {0}
    /\ FlushTimeout \in Nat \ {0} /\ TermtestLen \in Nat \ {0} /\ MaxTicks \in Nat \ {0}
    /\ LongPayload \subseteq Payload /\ Garbled \notin Payload
    /\ None \notin Secret /\ None \notin Payload \cup {Garbled}
BY ConsoleAssumption

LEMMA Prompts ==
    /\ Asked("show", None) \in Prompt /\ Asked("boot", None) \in Prompt
    /\ Asked(None, None) \in Prompt
    /\ \A s \in Secret : Asked("accept", s) \in Prompt
    /\ \A p \in Payload : Asked("transmit", p) \in Prompt
BY DEF Prompt, Asked

USE DEF pending, ctxs, history, flags, vars, Pend, EndDialog, Goto, Show, Resume, None, Tty

\* The contexts before and after a dialog.
LEMMA Fresh ==
    /\ NoGen \in GenContext /\ NoTx \in TxContext /\ NoBoot \in BootContext
    /\ NoWizard \in WizardContext /\ NoTermtest \in TermtestContext
    /\ \A t \in Tty :
           /\ [NoGen EXCEPT !.ttyp = t, !.remaining = Entropy] \in GenContext
           /\ [NoWizard EXCEPT !.ttyp = t] \in WizardContext
           /\ [NoTermtest EXCEPT !.ttyp = t] \in TermtestContext
           /\ [ttyp |-> t, state |-> "Y", left |-> BootTimeout] \in BootContext
           /\ \A p \in Payload : [ttyp |-> t, payload |-> p] \in TxContext
<1> USE Constants
<1>1. NoGen \in GenContext /\ NoTx \in TxContext
  BY DEF NoGen, GenContext, NoTx, TxContext
<1>2. NoBoot \in BootContext /\ NoWizard \in WizardContext /\ NoTermtest \in TermtestContext
  BY DEF NoBoot, BootContext, NoWizard, WizardContext, NoTermtest, TermtestContext
<1>3. ASSUME NEW t \in Tty
      PROVE  [NoGen EXCEPT !.ttyp = t, !.remaining = Entropy] \in GenContext
  <2> DEFINE from == 0 .. Entropy
             secrets == Secret \cup {None}
  <2>1. NoGen \in [ttyp : Tty \cup {None}, remaining : from, pending_secret : secrets]
    BY <1>1 DEF GenContext
  <2>2. Entropy \in from
    OBVIOUS
  <2> HIDE DEF from, secrets
  <2>3. [NoGen EXCEPT !.ttyp = t, !.remaining = Entropy]
            \in [ttyp : Tty \cup {None}, remaining : from, pending_secret : secrets]
    BY <2>1, <2>2
  <2> QED
    BY <2>3 DEF GenContext, from, secrets
<1>4. ASSUME NEW t \in Tty
      PROVE  /\ [NoWizard EXCEPT !.ttyp = t] \in WizardContext
             /\ [NoTermtest EXCEPT !.ttyp = t] \in TermtestContext
  BY DEF NoWizard, WizardContext, NoTermtest, TermtestContext
<1>5. ASSUME NEW t \in Tty
      PROVE  /\ [ttyp |-> t, state |-> "Y", left |-> BootTimeout] \in BootContext
             /\ \A p \in Payload : [ttyp |-> t, payload |-> p] \in TxContext
  BY DEF BootContext, TxContext
<1> QED
  BY <1>1, <1>2, <1>3, <1>4, <1>5

LEMMA ContextsTyped == TypesOK => TypeOK
<1> SUFFICES ASSUME TypesOK PROVE TypeOK
  OBVIOUS
<1>1. pc["uart"] \in Station \cup Inside
  BY DEF TypesOK, PlacesOK, Station, Inside
<1>2. pc["usb"] \in {"home"} \cup Halfway
  BY DEF TypesOK, PlacesOK, Station, Inside
<1> QED
  BY <1>1, <1>2, Zenon DEF TypesOK, ContextsOK, PlacesOK, TypeOK, GenContext, TxContext,
     BootContext,
                     WizardContext, TermtestContext
\* What the handler at place h has seen when it is t's key: a dialog of t's.
Asking(t, h) ==
    /\ cmd_pending_ttyp = t
    /\ h \in {"accept", "show"} => cmd_pending_state = "PRIVKEY_SHOW_CONFIRM"
    /\ h = "accept" => Generated(t)
    /\ h = "show" => ~Generated(t)
    /\ h = "collect" => cmd_pending_state = "PRIVKEY_GEN_COLLECTING" /\ privkey_gen_ctx.ttyp = t
    /\ h = "prompt" => cmd_pending_state = "SIGN_QSL_WIZARD" /\ sign_qsl_wizard_ctx.ttyp = t
    /\ h = "confirm" => cmd_pending_state = "SIGN_TX_CONFIRM"
    /\ h \in Waiting => /\ cmd_pending_state = "USB_BOOT_CONFIRM"
                       /\ usb_boot_confirm_ctx.ttyp = t
                       /\ WaitFor[usb_boot_confirm_ctx.state] = h
    /\ h = "termtest" => cmd_pending_state = "TERMTEST" /\ termtest_ctx.ttyp = t

LEMMA Looks ==
    ASSUME ContextsOK, PlacesOK, NEW t \in Tty, Takes(t)
    PROVE  Handler(t) \in Looking /\ Asking(t, Handler(t))
<1>1. usb_boot_confirm_ctx.state \in {"Y", "E", "S", "cr"}
  BY DEF ContextsOK, BootContext
<1>2. cmd_pending_state \in PendingState \ {"IDLE"}
  BY DEF Takes, PlacesOK
<1>3. CASE cmd_pending_state = "PRIVKEY_SHOW_CONFIRM"
  BY <1>3 DEF Takes, Handler, Looking, Waiting, Asking
<1>4. CASE cmd_pending_state = "PRIVKEY_GEN_COLLECTING"
  BY <1>4 DEF Takes, Handler, Looking, Waiting, Asking
<1>5. CASE cmd_pending_state = "SIGN_QSL_WIZARD"
  BY <1>5 DEF Takes, Handler, Looking, Waiting, Asking
<1>6. CASE cmd_pending_state = "SIGN_TX_CONFIRM"
  BY <1>6 DEF Takes, Handler, Looking, Waiting, Asking
<1>7. CASE cmd_pending_state = "USB_BOOT_CONFIRM"
  BY <1>1, <1>7 DEF Takes, Handler, Looking, Waiting, Asking, WaitFor
<1>8. CASE cmd_pending_state = "TERMTEST"
  BY <1>8 DEF Takes, Handler, Looking, Waiting, Asking
<1> QED
  BY <1>2, <1>3, <1>4, <1>5, <1>6, <1>7, <1>8 DEF PendingState

-----------------------------------------------------------------------------
LEMMA PlacesInit == Init => PlacesOK
<1> SUFFICES ASSUME Init PROVE PlacesOK
  OBVIOUS
<1>1. asked \in [Tty -> Prompt]
  BY Prompts DEF Init
<1>2. pc \in [Tty -> Station \cup Inside] /\ pc["usb"] \notin {"receive", "poll"} \cup Looking
  BY DEF Init, Station, Looking, Waiting
<1>3. yes \in [Tty -> -1 .. 5] /\ cmd_pending_state \in PendingState
  BY DEF Init, PendingState
<1> QED
  BY <1>1, <1>2, <1>3 DEF Init, PlacesOK

LEMMA ContextsInit == Init => ContextsOK
BY Fresh DEF Init, ContextsOK

\* Where a handler can go.
LEMMA Moves ==
    ASSUME PlacesOK, NEW t \in Tty, NEW where \in {"home"} \cup Halfway, Goto(t, where)
    PROVE  pc' \in [Tty -> Station \cup Inside] /\ pc'["usb"] \notin {"receive", "poll"} \cup Looking
BY DEF PlacesOK, Station, Inside, Looking, Waiting, Halfway

\* What a key does to the boot dialog.
BootSteps(t, key) ==
    /\ pc' = [pc EXCEPT ![t] = "home"]
    /\ \/ /\ key \in {"Y", "E", "S"} /\ UNCHANGED <<pending, booted, as_asked>>
          /\ usb_boot_confirm_ctx' = [usb_boot_confirm_ctx EXCEPT !.state = BootAfter[key]]
       \/ EndDialog /\ usb_boot_confirm_ctx' = NoBoot /\ booted' = t /\ Answer(t, "boot", None)
       \/ EndDialog /\ usb_boot_confirm_ctx' = NoBoot /\ UNCHANGED <<booted, as_asked>>
    /\ torn' \in {torn, TRUE}
    /\ UNCHANGED <<privkey_gen_ctx, sign_tx_ctx, sign_qsl_wizard_ctx, termtest_ctx,
                   privkey, asked, unshown, crossed, dialogs>>

LEMMA BootKeySteps ==
    ASSUME PlacesOK, NEW t \in Tty, NEW key \in Key, BootKey(t, key)
    PROVE  BootSteps(t, key)
<1>1. PICK wanted \in DOMAIN WaitFor :
          /\ KeyFor(t, WaitFor[wanted])
          /\ \/ /\ key = wanted /\ key # "cr" /\ UNCHANGED <<pending, booted, as_asked>>
                /\ usb_boot_confirm_ctx' = [usb_boot_confirm_ctx EXCEPT !.state = BootAfter[key]]
             \/ EndDialog /\ usb_boot_confirm_ctx' = NoBoot /\ booted' = t /\ Answer(t, "boot", None)
             \/ EndDialog /\ usb_boot_confirm_ctx' = NoBoot /\ UNCHANGED <<booted, as_asked>>
  BY Zenon DEF BootKey
<1>2. wanted \in {"Y", "E", "S", "cr"}
  BY DEF WaitFor
<1>3. torn' \in {torn, TRUE}
  BY <1>1 DEF KeyFor, Enter, PlacesOK
<1>4. /\ pc' = [pc EXCEPT ![t] = "home"]
      /\ UNCHANGED <<privkey_gen_ctx, sign_tx_ctx, sign_qsl_wizard_ctx, termtest_ctx,
                     privkey, asked, unshown, crossed, dialogs>>
  BY <1>3 DEF BootKey
<1>5. \/ /\ key \in {"Y", "E", "S"} /\ UNCHANGED <<pending, booted, as_asked>>
         /\ usb_boot_confirm_ctx' = [usb_boot_confirm_ctx EXCEPT !.state = BootAfter[key]]
      \/ EndDialog /\ usb_boot_confirm_ctx' = NoBoot /\ booted' = t /\ Answer(t, "boot", None)
      \/ EndDialog /\ usb_boot_confirm_ctx' = NoBoot /\ UNCHANGED <<booted, as_asked>>
  BY <1>1, <1>2, Zenon
<1> QED
  BY <1>3, <1>4, <1>5, Zenon DEF BootSteps

LEMMA PlacesNext == PlacesOK /\ ContextsOK /\ [Next]_vars => PlacesOK'
<1> SUFFICES ASSUME PlacesOK, ContextsOK, [Next]_vars PROVE PlacesOK'
  OBVIOUS
<1> USE Constants, Prompts DEF PlacesOK, PendingState, Station, Inside, Looking, Halfway, Waiting
<1>1. ASSUME NEW t \in Tty, PrivkeySet(t) PROVE PlacesOK'
  BY <1>1 DEF PrivkeySet, Command, Enter, StartDialog
<1>2. ASSUME NEW t \in Tty, PrivkeyShow(t) PROVE PlacesOK'
  BY <1>2 DEF PrivkeyShow, Command, Enter, StartDialog
<1>3. ASSUME NEW t \in Tty, PrivkeyGen(t) PROVE PlacesOK'
  BY <1>3 DEF PrivkeyGen, Command, Enter, StartDialog
<1>4. ASSUME NEW t \in Tty, SignWizard(t) PROVE PlacesOK'
  BY <1>4 DEF SignWizard, Command, Enter, StartDialog
<1>5. ASSUME NEW t \in Tty, Sign(t) PROVE PlacesOK'
  BY <1>5 DEF Sign, Command, Enter, StartDialog
<1>6. ASSUME NEW t \in Tty, SystemUsbBoot(t) PROVE PlacesOK'
  <2>1. yes' \in [Tty -> -1 .. 5]
    BY <1>6 DEF SystemUsbBoot, Slipped
  <2> QED
    BY <1>6, <2>1 DEF SystemUsbBoot, Command, Enter, StartDialog
<1>7. ASSUME NEW t \in Tty, TermtestStart(t) PROVE PlacesOK'
  BY <1>7 DEF TermtestStart, Command, Enter, StartDialog
<1>8. ASSUME NEW t \in Tty, GenStarted(t) PROVE PlacesOK'
  BY <1>8 DEF GenStarted
<1>9. ASSUME NEW t \in Tty, Shown(t) PROVE PlacesOK'
  BY <1>9 DEF Shown
<1>10. ASSUME NEW t \in Tty, WizardStarted(t) PROVE PlacesOK'
  BY <1>10 DEF WizardStarted
<1>11. ASSUME NEW t \in Tty, SignWrite(t) PROVE PlacesOK'
  BY <1>11 DEF SignWrite
<1>12. ASSUME NEW t \in Tty, SignPrompt(t) PROVE PlacesOK'
  BY <1>12 DEF SignPrompt
<1>13. ASSUME NEW t \in Tty, Sent(t) PROVE PlacesOK'
  BY <1>13 DEF Sent
<1>14. ASSUME NEW t \in Tty, NEW key \in Key, GenKey(t, key) PROVE PlacesOK'
  <2>1. CASE key # "lf" /\ privkey_gen_abort
    BY <1>14, <2>1 DEF GenKey, KeyFor, Enter, privkey_gen_abort
  <2>2. CASE UNCHANGED <<pending, asked>>
    BY <1>14, <2>2, ZenonT(40) DEF GenKey, KeyFor, Enter
  <2>3. ASSUME NEW s \in Secret, Propose(t, s), cmd_pending_state' = "PRIVKEY_SHOW_CONFIRM",
               UNCHANGED cmd_pending_ttyp
        PROVE  PlacesOK'
    BY <1>14, <2>3 DEF GenKey, KeyFor, Enter, Propose
  <2> QED
    BY <1>14, <2>1, <2>2, <2>3, Zenon DEF GenKey
<1>15. ASSUME NEW t \in Tty, NEW key \in Key, AcceptKey(t, key) PROVE PlacesOK'
  <2>1. CASE privkey_gen_abort /\ UNCHANGED <<privkey, as_asked>>
    BY <1>15, <2>1 DEF AcceptKey, KeyFor, Enter, privkey_gen_abort
  <2>2. CASE /\ privkey' = privkey_gen_ctx.pending_secret
             /\ Answer(t, "accept", privkey_gen_ctx.pending_secret) /\ privkey_gen_abort
    BY <1>15, <2>2 DEF AcceptKey, KeyFor, Enter, privkey_gen_abort, Answer, ContextsOK,
       GenContext
  <2>3. ASSUME NEW s \in Secret, Propose(t, s), UNCHANGED <<pending, privkey, as_asked>>
        PROVE  PlacesOK'
    BY <1>15, <2>3, ZenonT(40) DEF AcceptKey, KeyFor, Enter, Propose
  <2> QED
    BY <1>15, <2>1, <2>2, <2>3, Zenon DEF AcceptKey
<1>16. ASSUME NEW t \in Tty, NEW key \in Key, ShowKey(t, key) PROVE PlacesOK'
  <2>1. \E where \in {"home", "shown"} : pc' = [pc EXCEPT ![t] = where]
    BY <1>16, Zenon DEF ShowKey
  <2>2. torn' \in BOOLEAN
    BY <1>16 DEF ShowKey, KeyFor, Enter
  <2> QED
    BY <1>16, <2>1, <2>2 DEF ShowKey, Answer
<1>17. ASSUME NEW t \in Tty, NEW key \in Key, WizardKey(t, key) PROVE PlacesOK'
  <2>1. \E where \in {"home", "signing"} : pc' = [pc EXCEPT ![t] = where]
    BY <1>17, Zenon DEF WizardKey
  <2>2. torn' \in BOOLEAN
    BY <1>17 DEF WizardKey, KeyFor, Enter
  <2>3. EndDialog \/ UNCHANGED pending
    BY <1>17, Zenon DEF WizardKey
  <2>4. UNCHANGED <<privkey, booted, asked, as_asked, yes, unshown, crossed, dialogs>>
    BY <1>17 DEF WizardKey
  <2> QED
    BY <2>1, <2>2, <2>3, <2>4
<1>18. ASSUME NEW t \in Tty, NEW key \in Key, TxKey(t, key) PROVE PlacesOK'
  <2>1. \E where \in {"home", "sent"} : pc' = [pc EXCEPT ![t] = where]
    BY <1>18, Zenon DEF TxKey
  <2>2. torn' \in BOOLEAN
    BY <1>18 DEF TxKey, KeyFor, Enter
  <2> QED
    BY <1>18, <2>1, <2>2 DEF TxKey, Answer
<1>19. ASSUME NEW t \in Tty, NEW key \in Key, BootKey(t, key) PROVE PlacesOK'
  <2>1. BootSteps(t, key)
    BY <1>19, BootKeySteps
  <2>2. yes' \in [Tty -> -1 .. 5]
    BY <1>19 DEF BootKey, Slipped
  <2>3. as_asked' \in {"yes", "mixed", "no"}
    BY <2>1 DEF BootSteps, Answer
  <2>4. EndDialog \/ UNCHANGED pending
    BY <2>1, Zenon DEF BootSteps
  <2>5. booted' \in Tty \cup {None}
    BY <2>1, Zenon DEF BootSteps
  <2>6. pc' = [pc EXCEPT ![t] = "home"] /\ torn' \in BOOLEAN
    BY <2>1 DEF BootSteps
  <2>7. UNCHANGED <<privkey, asked, unshown, crossed, dialogs>>
    BY <2>1, Zenon DEF BootSteps
  <2> QED
    BY <2>2, <2>3, <2>4, <2>5, <2>6, <2>7
<1>20. ASSUME NEW t \in Tty, NEW key \in Key, TermtestKey(t, key) PROVE PlacesOK'
  <2>1. torn' \in BOOLEAN /\ pc' = [pc EXCEPT ![t] = "home"]
    BY <1>20 DEF TermtestKey, KeyFor, Enter
  <2>2. unshown' \in Nat
    BY <1>20 DEF TermtestKey, AtMost, Minus, ContextsOK, TermtestContext
  <2>3. EndDialog \/ UNCHANGED pending
    BY <1>20, Zenon DEF TermtestKey
  <2> QED
    BY <1>20, <2>1, <2>2, <2>3 DEF TermtestKey
<1>21. ASSUME NEW ticks \in 0 .. MaxTicks, Receive(ticks) PROVE PlacesOK'
  BY <1>21 DEF Receive, AtMost, Minus
<1>22. ASSUME InputDone PROVE PlacesOK'
  BY <1>22 DEF InputDone
<1>23. ASSUME CmdPoll PROVE PlacesOK'
  BY <1>23 DEF CmdPoll, Minus, ContextsOK, TermtestContext
<1>24. ASSUME ExpireBoot PROVE PlacesOK'
  BY <1>24 DEF ExpireBoot
<1>25. ASSUME Flushed PROVE PlacesOK'
  BY <1>25 DEF Flushed
<1>26. ASSUME UNCHANGED vars PROVE PlacesOK'
  BY <1>26
<1>30. ASSUME KeyArrives PROVE PlacesOK'
  <2>1. Handler("uart") \in Looking
    BY <1>30, Looks DEF KeyArrives
  <2> QED
    BY <1>30, <2>1 DEF KeyArrives, Enter
<1>31. ASSUME KeyIgnored PROVE PlacesOK'
  BY <1>31 DEF KeyIgnored
<1>27. ASSUME NEW t \in Tty, Commands(t) \/ GoOn(t) PROVE PlacesOK'
  BY <1>27, <1>1, <1>2, <1>3, <1>4, <1>5, <1>6, <1>7, <1>8, <1>9, <1>10, <1>11, <1>12,
     <1>13, Zenon DEF Commands, GoOn
<1>28. ASSUME NEW t \in Tty, Keys(t) PROVE PlacesOK'
  BY <1>28, <1>14, <1>15, <1>16, <1>17, <1>18, <1>19, <1>20, Zenon DEF Keys
<1>29. ASSUME MainLoop PROVE PlacesOK'
  BY <1>29, <1>21, <1>22, <1>23, <1>24, <1>25, <1>30, <1>31, Zenon DEF MainLoop
<1> QED
  BY <1>26, <1>27, <1>28, <1>29, Zenon DEF Next

LEMMA Proposed ==
    ASSUME ContextsOK, NEW s \in Secret
    PROVE  [privkey_gen_ctx EXCEPT !.remaining = 0, !.pending_secret = s] \in GenContext
<1> DEFINE from == 0 .. Entropy
           secrets == Secret \cup {None}
<1>1. /\ privkey_gen_ctx \in [ttyp : Tty \cup {None}, remaining : from, pending_secret : secrets]
      /\ 0 \in from /\ s \in secrets
  BY Constants DEF ContextsOK, GenContext
<1> HIDE DEF from, secrets
<1>2. [privkey_gen_ctx EXCEPT !.remaining = 0, !.pending_secret = s]
          \in [ttyp : Tty \cup {None}, remaining : from, pending_secret : secrets]
  BY <1>1
<1> QED
  BY <1>2 DEF GenContext, from, secrets

LEMMA ContextsNext == PlacesOK /\ ContextsOK /\ [Next]_vars => ContextsOK'
<1> SUFFICES ASSUME PlacesOK, ContextsOK, [Next]_vars PROVE ContextsOK'
  OBVIOUS
<1> USE Constants, Fresh DEF ContextsOK
<1>1. ASSUME NEW t \in Tty, PrivkeySet(t) PROVE ContextsOK'
  BY <1>1 DEF PrivkeySet, StartDialog
<1>2. ASSUME NEW t \in Tty, PrivkeyShow(t) PROVE ContextsOK'
  BY <1>2 DEF PrivkeyShow, StartDialog
<1>3. ASSUME NEW t \in Tty, PrivkeyGen(t) PROVE ContextsOK'
  BY <1>3 DEF PrivkeyGen, StartDialog
<1>4. ASSUME NEW t \in Tty, SignWizard(t) PROVE ContextsOK'
  BY <1>4 DEF SignWizard, StartDialog
<1>5. ASSUME NEW t \in Tty, Sign(t) PROVE ContextsOK'
  BY <1>5 DEF Sign, StartDialog
<1>6. ASSUME NEW t \in Tty, SystemUsbBoot(t) PROVE ContextsOK'
  BY <1>6 DEF SystemUsbBoot, StartDialog
<1>7. ASSUME NEW t \in Tty, TermtestStart(t) PROVE ContextsOK'
  BY <1>7 DEF TermtestStart, StartDialog
<1>8. ASSUME NEW t \in Tty, GenStarted(t) PROVE ContextsOK'
  BY <1>8 DEF GenStarted
<1>9. ASSUME NEW t \in Tty, Shown(t) PROVE ContextsOK'
  BY <1>9 DEF Shown
<1>10. ASSUME NEW t \in Tty, WizardStarted(t) PROVE ContextsOK'
  BY <1>10 DEF WizardStarted
<1>11. ASSUME NEW t \in Tty, SignWrite(t) PROVE ContextsOK'
  BY <1>11 DEF SignWrite, TxContext
<1>12. ASSUME NEW t \in Tty, SignPrompt(t) PROVE ContextsOK'
  BY <1>12 DEF SignPrompt
<1>13. ASSUME NEW t \in Tty, Sent(t) PROVE ContextsOK'
  BY <1>13 DEF Sent
<1>14. ASSUME NEW t \in Tty, NEW key \in Key, GenKey(t, key) PROVE ContextsOK'
  <2>1. CASE key # "lf" /\ privkey_gen_abort
    BY <1>14, <2>1 DEF GenKey, privkey_gen_abort
  <2>2. ASSUME NEW dec \in 1 .. Entropy, dec < privkey_gen_ctx.remaining,
               privkey_gen_ctx' = [privkey_gen_ctx EXCEPT !.remaining = @ - dec]
        PROVE  ContextsOK'
    BY <1>14, <2>2 DEF GenKey, GenContext
  <2>3. ASSUME NEW s \in Secret, Propose(t, s) PROVE ContextsOK'
    BY <1>14, <2>3, Proposed DEF GenKey, Propose
  <2> QED
    BY <1>14, <2>1, <2>2, <2>3, Zenon DEF GenKey
<1>15. ASSUME NEW t \in Tty, NEW key \in Key, AcceptKey(t, key) PROVE ContextsOK'
  <2>1. CASE privkey_gen_abort
    BY <1>15, <2>1 DEF AcceptKey, privkey_gen_abort
  <2>2. ASSUME NEW s \in Secret, Propose(t, s) PROVE ContextsOK'
    BY <1>15, <2>2, Proposed DEF AcceptKey, Propose
  <2> QED
    BY <1>15, <2>1, <2>2, Zenon DEF AcceptKey
<1>16. ASSUME NEW t \in Tty, NEW key \in Key, ShowKey(t, key) PROVE ContextsOK'
  BY <1>16 DEF ShowKey, KeyFor, Enter
<1>17. ASSUME NEW t \in Tty, NEW key \in Key, WizardKey(t, key) PROVE ContextsOK'
  <2> DEFINE w == sign_qsl_wizard_ctx
  <2>1. CASE sign_qsl_wizard_ctx' = NoWizard
    BY <1>17, <2>1 DEF WizardKey
  <2>2. CASE w.input_len > 0 /\ sign_qsl_wizard_ctx' = [w EXCEPT !.input_len = @ - 1]
    BY <1>17, <2>2 DEF WizardKey, WizardContext
  <2>3. CASE sign_qsl_wizard_ctx' = [w EXCEPT !.input_len = 1]
    BY <1>17, <2>3 DEF WizardKey, WizardContext
  <2>4. CASE /\ w.step + 1 < WizardSteps
             /\ sign_qsl_wizard_ctx' = [w EXCEPT !.step = @ + 1, !.input_len = 0]
    <3> DEFINE steps == 0 .. WizardSteps - 1
               lens == 0 .. 1
    <3>1. /\ sign_qsl_wizard_ctx \in [ttyp : Tty \cup {None}, step : steps, input_len : lens]
          /\ w.step + 1 \in steps /\ 0 \in lens
      BY <2>4 DEF WizardContext
    <3> HIDE DEF steps, lens
    <3>2. sign_qsl_wizard_ctx' \in [ttyp : Tty \cup {None}, step : steps, input_len : lens]
      BY <2>4, <3>1
    <3>3. sign_qsl_wizard_ctx' \in WizardContext
      BY <3>2 DEF WizardContext, steps, lens
    <3> QED
      BY <1>17, <3>3 DEF WizardKey
  <2> QED
    BY <1>17, <2>1, <2>2, <2>3, <2>4, Zenon DEF WizardKey
<1>18. ASSUME NEW t \in Tty, NEW key \in Key, TxKey(t, key) PROVE ContextsOK'
  BY <1>18 DEF TxKey, KeyFor, Enter
<1>19. ASSUME NEW t \in Tty, NEW key \in Key, BootKey(t, key) PROVE ContextsOK'
  <2>1. BootSteps(t, key)
    BY <1>19, BootKeySteps
  <2> QED
    BY <2>1 DEF BootSteps, BootContext, BootAfter
<1>20. ASSUME NEW t \in Tty, NEW key \in Key, TermtestKey(t, key) PROVE ContextsOK'
  BY <1>20 DEF TermtestKey, KeyFor, Enter, TermtestContext
<1>21. ASSUME NEW ticks \in 0 .. MaxTicks, Receive(ticks) PROVE ContextsOK'
  BY <1>21 DEF Receive, BootContext, TermtestContext, AtMost, Minus
<1>22. ASSUME InputDone PROVE ContextsOK'
  BY <1>22 DEF InputDone
<1>23. ASSUME CmdPoll PROVE ContextsOK'
  BY <1>23 DEF CmdPoll
<1>24. ASSUME ExpireBoot PROVE ContextsOK'
  BY <1>24 DEF ExpireBoot
<1>25. ASSUME Flushed PROVE ContextsOK'
  BY <1>25 DEF Flushed, TermtestContext
<1>26. ASSUME UNCHANGED vars PROVE ContextsOK'
  BY <1>26
<1>30. ASSUME KeyArrives PROVE ContextsOK'
  BY <1>30 DEF KeyArrives
<1>31. ASSUME KeyIgnored PROVE ContextsOK'
  BY <1>31 DEF KeyIgnored
<1>27. ASSUME NEW t \in Tty, Commands(t) \/ GoOn(t) PROVE ContextsOK'
  BY <1>27, <1>1, <1>2, <1>3, <1>4, <1>5, <1>6, <1>7, <1>8, <1>9, <1>10, <1>11, <1>12,
     <1>13, Zenon DEF Commands, GoOn
<1>28. ASSUME NEW t \in Tty, Keys(t) PROVE ContextsOK'
  BY <1>28, <1>14, <1>15, <1>16, <1>17, <1>18, <1>19, <1>20, Zenon DEF Keys
<1>29. ASSUME MainLoop PROVE ContextsOK'
  BY <1>29, <1>21, <1>22, <1>23, <1>24, <1>25, <1>30, <1>31, Zenon DEF MainLoop
<1> QED
  BY <1>26, <1>27, <1>28, <1>29, Zenon DEF Next
-----------------------------------------------------------------------------
(* What holds of the dialogs *)

\* No handler is halfway.
Free == \A t \in Tty : pc[t] \notin Inside

\* The dialog that is pending has an owner, and its context names it.
Owner == cmd_pending_state # "IDLE" =>
    /\ cmd_pending_ttyp \in Tty
    /\ cmd_pending_state = "PRIVKEY_GEN_COLLECTING" => privkey_gen_ctx.ttyp = cmd_pending_ttyp
    /\ cmd_pending_state = "SIGN_QSL_WIZARD" => sign_qsl_wizard_ctx.ttyp = cmd_pending_ttyp
    /\ cmd_pending_state = "USB_BOOT_CONFIRM" => usb_boot_confirm_ctx.ttyp = cmd_pending_ttyp
    /\ cmd_pending_state = "TERMTEST" => termtest_ctx.ttyp = cmd_pending_ttyp

\* Two commands take a context before they make its dialog the pending one.  As
\* long as no handler has been interrupted one terminal at most is inside such a
\* command.
OwnedNow ==
    /\ ~(pc["usb"] \in Inside /\ pc["uart"] \in Inside)
    /\ \A t \in Tty : /\ pc[t] = "gen" => privkey_gen_ctx.ttyp = t
                      /\ pc[t] = "wizard" => sign_qsl_wizard_ctx.ttyp = t
    /\ (\A t \in Tty : pc[t] \notin {"gen", "wizard"}) => Owner
Owned == ~torn => OwnedNow

\* What Enter does in the dialog that is pending is what its terminal was told;
\* a secret waits only for the answer to its own prompt.
PromisedNow ==
    /\ privkey_gen_ctx.pending_secret # None =>
           /\ cmd_pending_state = "PRIVKEY_SHOW_CONFIRM"
           /\ cmd_pending_ttyp = privkey_gen_ctx.ttyp
    /\ \A t \in Tty :
           /\ pc[t] \in {"gen", "wizard", "signing", "preview"} => cmd_pending_state = "IDLE"
           /\ pc[t] \in {"shown", "sent", "expired"} => privkey_gen_ctx.pending_secret = None
           /\ pc[t] = "preview" => asked[t] = Asked("transmit", sign_tx_ctx.payload)
    /\ \A t \in Tty : cmd_pending_ttyp = t =>
           /\ cmd_pending_state = "PRIVKEY_SHOW_CONFIRM" =>
                  asked[t] = IF privkey_gen_ctx.pending_secret = None
                             THEN Asked("show", None)
                             ELSE Asked("accept", privkey_gen_ctx.pending_secret)
           /\ cmd_pending_state = "SIGN_TX_CONFIRM" =>
                  asked[t] = Asked("transmit", sign_tx_ctx.payload)
           /\ cmd_pending_state = "USB_BOOT_CONFIRM" => asked[t] = Asked("boot", None)
Promised == (~torn /\ ~crossed) => PromisedNow

\* The terminal of the boot dialog has typed what stands before its state, or
\* was warned while a key of the UART for that dialog was halfway.
Typed == [Y |-> 0, E |-> 1, S |-> 2, cr |-> 3]
SpelledNow ==
    /\ \A t \in Tty : usb_boot_confirm_ctx.ttyp = t =>
           yes[t] \in {Typed[usb_boot_confirm_ctx.state], Slipped}
    /\ \A s \in {"Y", "E", "S", "cr"} : pc["uart"] = WaitFor[s] =>
           /\ yes["uart"] = Typed[s]
           /\ usb_boot_confirm_ctx.ttyp = "uart" => usb_boot_confirm_ctx.state = s
           /\ usb_boot_confirm_ctx.ttyp = "usb" => yes["usb"] = Slipped
Spelled == (booted = None => SpelledNow) /\ yes["uart"] # Slipped /\ BootOnlyOnYes

\* While the bytes of TERMTEST are flushed no boot dialog can run out.
Timely ==
    /\ pc["uart"] \in {"receive", "flushed"} => ~BootExpired
    /\ pc["uart"] = "receive" => ~FlushDue

\* What is being flushed is counted as shown.
CountedNow ==
    /\ pc["uart"] = "flushed" => cmd_pending_state = "TERMTEST" /\ unshown = 0
    /\ pc["uart"] # "flushed" /\ cmd_pending_state = "TERMTEST" => unshown = termtest_ctx.len
Counted == ~torn => CountedNow

\* A handler that begins is the only one unless it tears another.
LEMMA Interrupts ==
    ASSUME PlacesOK, NEW t \in Tty, Enter(t), ~torn'
    PROVE  ~torn /\ Free
<1>1. ~torn /\ ~(t = "usb" /\ pc["uart"] \in Inside)
  BY Zenon DEF Enter
<1>2. pc[t] = "home" /\ (t = "uart" => pc["usb"] = "home")
  BY DEF Enter, Runs
<1>3. Free
  BY <1>1, <1>2 DEF Free, Inside, Looking, Halfway, Waiting
<1> QED
  BY <1>1, <1>3

\* The main loop still finds what it saw when the key arrived.
Held == (~torn /\ pc["uart"] \in Looking) => Asking("uart", pc["uart"])

\* No other terminal is inside a handler.
Alone(t) == \A u \in Tty : pc[u] \in Inside => u = t

\* A key that is handled untorn is handled as its dialog wants it, and while no
\* other handler is under way.
LEMMA KeyComes ==
    ASSUME TypesOK, Owned, Held, NEW t \in Tty, NEW h \in Looking, KeyFor(t, h), ~torn'
    PROVE  ~torn /\ Alone(t) /\ Asking(t, h)
<1>1. CASE Enter(t) /\ Takes(t) /\ Handler(t) = h
  <2>1. ~torn /\ Free
    BY <1>1, Interrupts DEF TypesOK
  <2>2. Asking(t, h)
    BY <1>1, Looks DEF TypesOK
  <2> QED
    BY <2>1, <2>2 DEF Free, Alone
<1>2. CASE t = "uart" /\ pc[t] = h /\ UNCHANGED torn
  <2>1. ~torn
    BY <1>2
  <2>2. pc["uart"] \in Looking /\ pc["uart"] \in Inside
    BY <1>2 DEF Inside
  <2>3. Asking(t, h)
    BY <1>2, <2>1, <2>2 DEF Held
  <2>4. pc["usb"] \notin Inside
    BY <2>1, <2>2 DEF Owned, OwnedNow
  <2> QED
    BY <1>2, <2>1, <2>3, <2>4 DEF Alone
<1> QED
  BY <1>1, <1>2, Zenon DEF KeyFor

\* A dialog that begins with nothing crossed begins when there is no other.
LEMMA Crosses ==
    ASSUME StartDialog, ~crossed'
    PROVE  ~crossed /\ cmd_pending_state = "IDLE"
BY Zenon DEF StartDialog

-----------------------------------------------------------------------------
LEMMA OwnedInit == Init => Owned
BY DEF Init, Owned, OwnedNow, Owner, Inside, Looking, Halfway, Waiting

LEMMA OwnedNext == TypesOK /\ Owned /\ Held /\ [Next]_vars => Owned'
<1> SUFFICES ASSUME TypesOK, Owned, Held, [Next]_vars, ~torn' PROVE OwnedNow'
  BY DEF Owned
<1> USE DEF TypesOK, PlacesOK, Inside, Looking, Halfway, Waiting
<1>1. ASSUME NEW t \in Tty, PrivkeySet(t) PROVE OwnedNow'
  <2>1. ~torn /\ Free
    <3>1. Enter(t)
      BY <1>1, Zenon DEF PrivkeySet, Command
    <3> QED
      BY <3>1, Interrupts
  <2> QED
    BY <1>1, <2>1 DEF OwnedNow, Owner, Owned, Free, PrivkeySet, Command, Enter, StartDialog,
       Runs
<1>2. ASSUME NEW t \in Tty, PrivkeyShow(t) PROVE OwnedNow'
  <2>1. ~torn /\ Free
    <3>1. Enter(t)
      BY <1>2, Zenon DEF PrivkeyShow, Command
    <3> QED
      BY <3>1, Interrupts
  <2> QED
    BY <1>2, <2>1 DEF OwnedNow, Owner, Owned, Free, PrivkeyShow, Command, Enter,
       StartDialog, Runs
<1>3. ASSUME NEW t \in Tty, PrivkeyGen(t) PROVE OwnedNow'
  <2>1. ~torn /\ Free
    <3>1. Enter(t)
      BY <1>3, Zenon DEF PrivkeyGen, Command
    <3> QED
      BY <3>1, Interrupts
  <2> QED
    BY <1>3, <2>1 DEF OwnedNow, Owner, Owned, Free, PrivkeyGen, Command, Enter, StartDialog,
       Runs, NoGen
<1>4. ASSUME NEW t \in Tty, SignWizard(t) PROVE OwnedNow'
  <2>1. ~torn /\ Free
    <3>1. Enter(t)
      BY <1>4, Zenon DEF SignWizard, Command
    <3> QED
      BY <3>1, Interrupts
  <2> QED
    BY <1>4, <2>1 DEF OwnedNow, Owner, Owned, Free, SignWizard, Command, Enter, StartDialog,
       Runs, NoWizard
<1>5. ASSUME NEW t \in Tty, Sign(t) PROVE OwnedNow'
  <2>1. ~torn /\ Free
    <3>1. Enter(t)
      BY <1>5, Zenon DEF Sign, Command
    <3> QED
      BY <3>1, Interrupts
  <2> QED
    BY <1>5, <2>1 DEF OwnedNow, Owner, Owned, Free, Sign, Command, Enter, StartDialog, Runs
<1>6. ASSUME NEW t \in Tty, SystemUsbBoot(t) PROVE OwnedNow'
  <2>1. ~torn /\ Free
    <3>1. Enter(t)
      BY <1>6, Zenon DEF SystemUsbBoot, Command
    <3> QED
      BY <3>1, Interrupts
  <2> QED
    BY <1>6, <2>1 DEF OwnedNow, Owner, Owned, Free, SystemUsbBoot, Command, Enter,
       StartDialog, Runs
<1>7. ASSUME NEW t \in Tty, TermtestStart(t) PROVE OwnedNow'
  <2>1. ~torn /\ Free
    <3>1. Enter(t)
      BY <1>7, Zenon DEF TermtestStart, Command
    <3> QED
      BY <3>1, Interrupts
  <2> QED
    BY <1>7, <2>1 DEF OwnedNow, Owner, Owned, Free, TermtestStart, Command, Enter,
       StartDialog, Runs, NoTermtest
<1>8. ASSUME NEW t \in Tty, GenStarted(t) PROVE OwnedNow'
  <2>1. ~torn
    BY <1>8, Zenon DEF GenStarted
  <2> QED
    BY <1>8, <2>1 DEF OwnedNow, Owner, Owned, Free, GenStarted, Runs
<1>9. ASSUME NEW t \in Tty, Shown(t) PROVE OwnedNow'
  <2>1. ~torn
    BY <1>9, Zenon DEF Shown
  <2> QED
    BY <1>9, <2>1 DEF OwnedNow, Owner, Owned, Free, Shown, Runs
<1>10. ASSUME NEW t \in Tty, WizardStarted(t) PROVE OwnedNow'
  <2>1. ~torn
    BY <1>10, Zenon DEF WizardStarted
  <2> QED
    BY <1>10, <2>1 DEF OwnedNow, Owner, Owned, Free, WizardStarted, Runs
<1>11. ASSUME NEW t \in Tty, SignWrite(t) PROVE OwnedNow'
  <2>1. ~torn
    BY <1>11, Zenon DEF SignWrite
  <2> QED
    BY <1>11, <2>1 DEF OwnedNow, Owner, Owned, Free, SignWrite, Runs
<1>12. ASSUME NEW t \in Tty, SignPrompt(t) PROVE OwnedNow'
  <2>1. ~torn
    BY <1>12, Zenon DEF SignPrompt
  <2> QED
    BY <1>12, <2>1 DEF OwnedNow, Owner, Owned, Free, SignPrompt, Runs
<1>13. ASSUME NEW t \in Tty, Sent(t) PROVE OwnedNow'
  <2>1. ~torn
    BY <1>13, Zenon DEF Sent
  <2> QED
    BY <1>13, <2>1 DEF OwnedNow, Owner, Owned, Free, Sent, Runs
<1>14. ASSUME NEW t \in Tty, NEW key \in Key, GenKey(t, key) PROVE OwnedNow'
  <2>1. ~torn /\ Alone(t) /\ Asking(t, "collect")
    BY <1>14, KeyComes DEF GenKey
  <2> QED
    BY <1>14, <2>1 DEF OwnedNow, Owner, Owned, Alone, Asking, GenKey,
       Propose, privkey_gen_abort, ContextsOK, GenContext
<1>15. ASSUME NEW t \in Tty, NEW key \in Key, AcceptKey(t, key) PROVE OwnedNow'
  <2>1. ~torn /\ Alone(t) /\ Asking(t, "accept")
    BY <1>15, KeyComes DEF AcceptKey
  <2> QED
    BY <1>15, <2>1 DEF OwnedNow, Owner, Owned, Alone, Asking, AcceptKey,
       Propose, privkey_gen_abort, ContextsOK, GenContext
<1>16. ASSUME NEW t \in Tty, NEW key \in Key, ShowKey(t, key) PROVE OwnedNow'
  <2>1. ~torn /\ Alone(t) /\ Asking(t, "show")
    BY <1>16, KeyComes DEF ShowKey
  <2> QED
    BY <1>16, <2>1 DEF OwnedNow, Owner, Owned, Alone, Asking, ShowKey
<1>17. ASSUME NEW t \in Tty, NEW key \in Key, WizardKey(t, key) PROVE OwnedNow'
  <2>1. ~torn /\ Alone(t) /\ Asking(t, "prompt")
    BY <1>17, KeyComes DEF WizardKey
  <2>2. /\ Goto(t, "home") \/ Goto(t, "signing")
        /\ privkey_gen_ctx' = privkey_gen_ctx
        /\ usb_boot_confirm_ctx' = usb_boot_confirm_ctx /\ termtest_ctx' = termtest_ctx
        /\ \/ cmd_pending_state' = "IDLE"
           \/ /\ cmd_pending_state' = cmd_pending_state /\ cmd_pending_ttyp' = cmd_pending_ttyp
              /\ sign_qsl_wizard_ctx'.ttyp = sign_qsl_wizard_ctx.ttyp
    BY <1>17 DEF WizardKey, EndDialog, pending, ContextsOK, WizardContext
  <2>3. \A u \in Tty : pc'[u] \notin {"gen", "wizard"}
    BY <2>1, <2>2 DEF Goto, Alone, Inside, PlacesOK
  <2>4. Owner'
    BY <1>17, <2>1, <2>2 DEF OwnedNow, Owner, Owned, Alone, Asking
  <2> QED
    BY <2>1, <2>2, <2>3, <2>4 DEF OwnedNow, Goto, Alone, Inside
<1>18. ASSUME NEW t \in Tty, NEW key \in Key, TxKey(t, key) PROVE OwnedNow'
  <2>1. ~torn /\ Alone(t) /\ Asking(t, "confirm")
    BY <1>18, KeyComes DEF TxKey
  <2> QED
    BY <1>18, <2>1 DEF OwnedNow, Owner, Owned, Alone, Asking, TxKey
<1>19. ASSUME NEW t \in Tty, NEW key \in Key, BootKey(t, key) PROVE OwnedNow'
  <2>0. PICK wanted \in DOMAIN WaitFor : KeyFor(t, WaitFor[wanted])
    BY <1>19, Zenon DEF BootKey
  <2>1. ~torn /\ Alone(t) /\ Asking(t, WaitFor[wanted])
    BY <2>0, KeyComes DEF WaitFor
  <2>3. BootSteps(t, key) /\ WaitFor[wanted] \in Waiting
    BY <1>19, BootKeySteps DEF WaitFor, Waiting
  <2> QED
    BY <2>1, <2>3, Constants DEF OwnedNow, Owner, Owned, Alone, Asking, BootSteps,
       ContextsOK, BootContext
<1>20. ASSUME NEW t \in Tty, NEW key \in Key, TermtestKey(t, key) PROVE OwnedNow'
  <2>1. ~torn /\ Alone(t) /\ Asking(t, "termtest")
    BY <1>20, KeyComes DEF TermtestKey
  <2> QED
    BY <1>20, <2>1 DEF OwnedNow, Owner, Owned, Alone, Asking, TermtestKey
<1>21. ASSUME NEW ticks \in 0 .. MaxTicks, Receive(ticks) PROVE OwnedNow'
  <2>1. ~torn \/ Settled
    BY <1>21, Zenon DEF Receive
  <2>2. /\ usb_boot_confirm_ctx'.ttyp = usb_boot_confirm_ctx.ttyp
        /\ termtest_ctx'.ttyp = termtest_ctx.ttyp
    BY <1>21 DEF Receive, ContextsOK, BootContext, TermtestContext
  <2>3. pc' = [pc EXCEPT !["uart"] = "home"] /\ pc["uart"] = "receive" /\ pc["usb"] = "home"
    BY <1>21 DEF Receive, Runs
  <2>4. UNCHANGED <<pending, privkey_gen_ctx, sign_qsl_wizard_ctx>>
    BY <1>21 DEF Receive
  <2>5. CASE Settled
    BY <2>3, <2>4, <2>5 DEF OwnedNow, Owner, Settled
  <2>6. CASE ~torn
    BY <2>2, <2>3, <2>4, <2>6 DEF OwnedNow, Owner, Owned
  <2> QED
    BY <2>1, <2>5, <2>6
<1>22. ASSUME InputDone PROVE OwnedNow'
  <2>1. ~torn
    BY <1>22, Zenon DEF InputDone
  <2> QED
    BY <1>22, <2>1 DEF OwnedNow, Owner, Owned, Free, InputDone
<1>23. ASSUME CmdPoll PROVE OwnedNow'
  <2>1. ~torn
    BY <1>23, Zenon DEF CmdPoll
  <2>2. /\ pc["uart"] = "poll" /\ pc["usb"] = "home"
        /\ \E where \in {"expired", "flushed", "receive"} : pc' = [pc EXCEPT !["uart"] = where]
    BY <1>23 DEF CmdPoll, Runs
  <2>3. UNCHANGED <<pending, ctxs>>
    BY <1>23 DEF CmdPoll
  <2> QED
    BY <2>1, <2>2, <2>3 DEF OwnedNow, Owner, Owned
<1>24. ASSUME ExpireBoot PROVE OwnedNow'
  <2>1. ~torn
    BY <1>24, Zenon DEF ExpireBoot
  <2> QED
    BY <1>24, <2>1 DEF OwnedNow, Owner, Owned, Free, ExpireBoot, Runs
<1>25. ASSUME Flushed PROVE OwnedNow'
  <2>1. ~torn
    BY <1>25, Zenon DEF Flushed
  <2> QED
    BY <1>25, <2>1 DEF OwnedNow, Owner, Owned, Free, Flushed, Runs, ContextsOK,
       TermtestContext
<1>26. ASSUME UNCHANGED vars PROVE OwnedNow'
  <2>1. ~torn
    BY <1>26, Zenon
  <2> QED
    BY <1>26, <2>1 DEF OwnedNow, Owner, Owned, Free
<1>30. ASSUME KeyArrives PROVE OwnedNow'
  <2>1. ~torn /\ Free
    <3>1. Enter("uart")
      BY <1>30, Zenon DEF KeyArrives
    <3> QED
      BY <3>1, Interrupts
  <2>2. Handler("uart") \in Looking /\ pc' = [pc EXCEPT !["uart"] = Handler("uart")]
    BY <1>30, Looks DEF KeyArrives
  <2>4. UNCHANGED <<pending, ctxs, asked, unshown>>
    BY <1>30 DEF KeyArrives
  <2> QED
    BY <2>1, <2>2, <2>4 DEF OwnedNow, Owner, Owned, Free
<1>31. ASSUME KeyIgnored PROVE OwnedNow'
  <2>1. ~torn
    BY <1>31, Zenon DEF KeyIgnored
  <2>3. /\ pc["uart"] \in Looking /\ pc' = [pc EXCEPT !["uart"] = "home"]
        /\ UNCHANGED <<pending, ctxs, asked, unshown>>
    BY <1>31 DEF KeyIgnored
  <2> QED
    BY <2>1, <2>3 DEF OwnedNow, Owner, Owned
<1>27. ASSUME NEW t \in Tty, Commands(t) \/ GoOn(t) PROVE OwnedNow'
  BY <1>27, <1>1, <1>2, <1>3, <1>4, <1>5, <1>6, <1>7, <1>8, <1>9, <1>10, <1>11, <1>12,
     <1>13, Zenon DEF Commands, GoOn
<1>28. ASSUME NEW t \in Tty, Keys(t) PROVE OwnedNow'
  BY <1>28, <1>14, <1>15, <1>16, <1>17, <1>18, <1>19, <1>20, Zenon DEF Keys
<1>29. ASSUME MainLoop PROVE OwnedNow'
  BY <1>29, <1>21, <1>22, <1>23, <1>24, <1>25, <1>30, <1>31, Zenon DEF MainLoop
<1> QED
  BY <1>26, <1>27, <1>28, <1>29, Zenon DEF Next

LEMMA HeldInit == Init => Held
BY DEF Init, Held, Looking, Waiting

\* Only the arrival of a key takes the main loop to where it is handled.
LEMMA HeldNext == TypesOK /\ Owned /\ Held /\ [Next]_vars => Held'
<1> SUFFICES ASSUME TypesOK, Owned, Held, [Next]_vars, ~torn', pc'["uart"] \in Looking
             PROVE  Asking("uart", pc["uart"])'
  BY DEF Held
<1> USE DEF TypesOK, PlacesOK, Inside, Looking, Halfway, Waiting
<1>1. ASSUME NEW t \in Tty, PrivkeySet(t) PROVE FALSE
  <2>1. Free
    <3>1. Enter(t)
      BY <1>1, Zenon DEF PrivkeySet, Command
    <3> QED
      BY <3>1, Interrupts
  <2> QED
    BY <1>1, <2>1 DEF PrivkeySet, Free
<1>2. ASSUME NEW t \in Tty, PrivkeyShow(t) PROVE FALSE
  <2>1. Free
    <3>1. Enter(t)
      BY <1>2, Zenon DEF PrivkeyShow, Command
    <3> QED
      BY <3>1, Interrupts
  <2> QED
    BY <1>2, <2>1 DEF PrivkeyShow, Free
<1>3. ASSUME NEW t \in Tty, PrivkeyGen(t) PROVE FALSE
  <2>1. Free
    <3>1. Enter(t)
      BY <1>3, Zenon DEF PrivkeyGen, Command
    <3> QED
      BY <3>1, Interrupts
  <2> QED
    BY <1>3, <2>1 DEF PrivkeyGen, Free
<1>4. ASSUME NEW t \in Tty, SignWizard(t) PROVE FALSE
  <2>1. Free
    <3>1. Enter(t)
      BY <1>4, Zenon DEF SignWizard, Command
    <3> QED
      BY <3>1, Interrupts
  <2> QED
    BY <1>4, <2>1 DEF SignWizard, Free
<1>5. ASSUME NEW t \in Tty, Sign(t) PROVE FALSE
  <2>1. Free
    <3>1. Enter(t)
      BY <1>5, Zenon DEF Sign, Command
    <3> QED
      BY <3>1, Interrupts
  <2> QED
    BY <1>5, <2>1 DEF Sign, Free
<1>6. ASSUME NEW t \in Tty, SystemUsbBoot(t) PROVE FALSE
  <2>1. Free
    <3>1. Enter(t)
      BY <1>6, Zenon DEF SystemUsbBoot, Command
    <3> QED
      BY <3>1, Interrupts
  <2> QED
    BY <1>6, <2>1 DEF SystemUsbBoot, Free
<1>7. ASSUME NEW t \in Tty, TermtestStart(t) PROVE FALSE
  <2>1. Free
    <3>1. Enter(t)
      BY <1>7, Zenon DEF TermtestStart, Command
    <3> QED
      BY <3>1, Interrupts
  <2> QED
    BY <1>7, <2>1 DEF TermtestStart, Free
<1>8. ASSUME NEW t \in Tty, GenStarted(t) PROVE FALSE
  BY <1>8 DEF GenStarted, Owned, OwnedNow
<1>9. ASSUME NEW t \in Tty, Shown(t) PROVE FALSE
  BY <1>9 DEF Shown, Owned, OwnedNow
<1>10. ASSUME NEW t \in Tty, WizardStarted(t) PROVE FALSE
  BY <1>10 DEF WizardStarted, Owned, OwnedNow
<1>11. ASSUME NEW t \in Tty, SignWrite(t) PROVE FALSE
  BY <1>11 DEF SignWrite, Owned, OwnedNow
<1>12. ASSUME NEW t \in Tty, SignPrompt(t) PROVE FALSE
  BY <1>12 DEF SignPrompt, Owned, OwnedNow
<1>13. ASSUME NEW t \in Tty, Sent(t) PROVE FALSE
  BY <1>13 DEF Sent, Owned, OwnedNow
<1>14. ASSUME NEW t \in Tty, NEW key \in Key, GenKey(t, key) PROVE FALSE
  <2>1. Alone(t)
    BY <1>14, KeyComes DEF GenKey
  <2> QED
    BY <1>14, <2>1 DEF GenKey, Alone
<1>15. ASSUME NEW t \in Tty, NEW key \in Key, AcceptKey(t, key) PROVE FALSE
  <2>1. Alone(t)
    BY <1>15, KeyComes DEF AcceptKey
  <2> QED
    BY <1>15, <2>1 DEF AcceptKey, Alone
<1>16. ASSUME NEW t \in Tty, NEW key \in Key, ShowKey(t, key) PROVE FALSE
  <2>1. Alone(t)
    BY <1>16, KeyComes DEF ShowKey
  <2> QED
    BY <1>16, <2>1 DEF ShowKey, Alone
<1>17. ASSUME NEW t \in Tty, NEW key \in Key, WizardKey(t, key) PROVE FALSE
  <2>1. Alone(t)
    BY <1>17, KeyComes DEF WizardKey
  <2> QED
    BY <1>17, <2>1 DEF WizardKey, Alone
<1>18. ASSUME NEW t \in Tty, NEW key \in Key, TxKey(t, key) PROVE FALSE
  <2>1. Alone(t)
    BY <1>18, KeyComes DEF TxKey
  <2> QED
    BY <1>18, <2>1 DEF TxKey, Alone
<1>19. ASSUME NEW t \in Tty, NEW key \in Key, BootKey(t, key) PROVE FALSE
  <2>0. PICK wanted \in DOMAIN WaitFor : KeyFor(t, WaitFor[wanted])
    BY <1>19, Zenon DEF BootKey
  <2>1. Alone(t)
    BY <2>0, KeyComes DEF WaitFor
  <2> QED
    BY <1>19, <2>1 DEF BootKey, Alone
<1>20. ASSUME NEW t \in Tty, NEW key \in Key, TermtestKey(t, key) PROVE FALSE
  <2>1. Alone(t)
    BY <1>20, KeyComes DEF TermtestKey
  <2> QED
    BY <1>20, <2>1 DEF TermtestKey, Alone
<1>21. ASSUME NEW ticks \in 0 .. MaxTicks, Receive(ticks) PROVE FALSE
  BY <1>21 DEF Receive
<1>22. ASSUME InputDone PROVE FALSE
  BY <1>22 DEF InputDone
<1>23. ASSUME CmdPoll PROVE FALSE
  BY <1>23 DEF CmdPoll
<1>24. ASSUME ExpireBoot PROVE FALSE
  BY <1>24 DEF ExpireBoot
<1>25. ASSUME Flushed PROVE FALSE
  BY <1>25 DEF Flushed
<1>26. ASSUME KeyIgnored PROVE FALSE
  BY <1>26 DEF KeyIgnored
<1>27. ASSUME KeyArrives PROVE Asking("uart", pc["uart"])'
  <2>1. Asking("uart", Handler("uart")) /\ pc'["uart"] = Handler("uart")
    BY <1>27, Looks DEF KeyArrives
  <2>2. UNCHANGED <<pending, ctxs>>
    BY <1>27 DEF KeyArrives
  <2> QED
    BY <2>1, <2>2 DEF Asking, Generated
<1>28. ASSUME UNCHANGED vars PROVE Asking("uart", pc["uart"])'
  <2>1. Asking("uart", pc["uart"])
    BY <1>28 DEF Held
  <2> QED
    BY <1>28, <2>1 DEF Asking, Generated
<1>29. ASSUME NEW t \in Tty, Commands(t) \/ GoOn(t) PROVE FALSE
  BY <1>29, <1>1, <1>2, <1>3, <1>4, <1>5, <1>6, <1>7, <1>8, <1>9, <1>10, <1>11, <1>12,
     <1>13, Zenon DEF Commands, GoOn
<1>30. ASSUME NEW t \in Tty, Keys(t) PROVE FALSE
  BY <1>30, <1>14, <1>15, <1>16, <1>17, <1>18, <1>19, <1>20, Zenon DEF Keys
<1>31. ASSUME MainLoop PROVE Asking("uart", pc["uart"])'
  BY <1>31, <1>21, <1>22, <1>23, <1>24, <1>25, <1>26, <1>27, Zenon DEF MainLoop
<1> QED
  BY <1>28, <1>29, <1>30, <1>31, Zenon DEF Next

LEMMA PromisedInit == Init => Promised
BY DEF Init, Promised, PromisedNow, NoGen

LEMMA PromisedNext == TypesOK /\ Owned /\ Held /\ Promised /\ [Next]_vars => Promised'
<1> SUFFICES ASSUME TypesOK, Owned, Held, Promised, [Next]_vars, ~torn',
                    ~crossed' PROVE PromisedNow'
  BY DEF Promised
<1> USE DEF TypesOK, PlacesOK, Inside, Looking, Halfway, Waiting
<1>1. ASSUME NEW t \in Tty, PrivkeySet(t) PROVE PromisedNow'
  <2>1. ~torn /\ Free
    <3>1. Enter(t)
      BY <1>1, Zenon DEF PrivkeySet, Command
    <3> QED
      BY <3>1, Interrupts
  <2>2. ~crossed
    BY <1>1, Zenon DEF PrivkeySet
  <2> QED
    BY <1>1, <2>1, <2>2 DEF PromisedNow, Promised, Free, PrivkeySet, Command, Enter,
       StartDialog, Runs
<1>2. ASSUME NEW t \in Tty, PrivkeyShow(t) PROVE PromisedNow'
  <2>1. ~torn /\ Free
    <3>1. Enter(t)
      BY <1>2, Zenon DEF PrivkeyShow, Command
    <3> QED
      BY <3>1, Interrupts
  <2>2. ~crossed /\ cmd_pending_state = "IDLE"
    BY <1>2, Crosses, Zenon DEF PrivkeyShow
  <2> QED
    BY <1>2, <2>1, <2>2 DEF PromisedNow, Promised, Free, PrivkeyShow, Command, Enter,
       StartDialog, Runs
<1>3. ASSUME NEW t \in Tty, PrivkeyGen(t) PROVE PromisedNow'
  <2>1. ~torn /\ Free
    <3>1. Enter(t)
      BY <1>3, Zenon DEF PrivkeyGen, Command
    <3> QED
      BY <3>1, Interrupts
  <2>2. ~crossed /\ cmd_pending_state = "IDLE"
    BY <1>3, Crosses, Zenon DEF PrivkeyGen
  <2> QED
    BY <1>3, <2>1, <2>2 DEF PromisedNow, Promised, Free, PrivkeyGen, Command, Enter,
       StartDialog, Runs, NoGen
<1>4. ASSUME NEW t \in Tty, SignWizard(t) PROVE PromisedNow'
  <2>1. ~torn /\ Free
    <3>1. Enter(t)
      BY <1>4, Zenon DEF SignWizard, Command
    <3> QED
      BY <3>1, Interrupts
  <2>2. ~crossed /\ cmd_pending_state = "IDLE"
    BY <1>4, Crosses, Zenon DEF SignWizard
  <2> QED
    BY <1>4, <2>1, <2>2 DEF PromisedNow, Promised, Free, SignWizard, Command, Enter,
       StartDialog, Runs
<1>5. ASSUME NEW t \in Tty, Sign(t) PROVE PromisedNow'
  <2>1. ~torn /\ Free
    <3>1. Enter(t)
      BY <1>5, Zenon DEF Sign, Command
    <3> QED
      BY <3>1, Interrupts
  <2>2. ~crossed /\ cmd_pending_state = "IDLE"
    BY <1>5, Crosses, Zenon DEF Sign
  <2> QED
    BY <1>5, <2>1, <2>2 DEF PromisedNow, Promised, Free, Sign, Command, Enter, StartDialog,
       Runs
<1>6. ASSUME NEW t \in Tty, SystemUsbBoot(t) PROVE PromisedNow'
  <2>1. ~torn /\ Free
    <3>1. Enter(t)
      BY <1>6, Zenon DEF SystemUsbBoot, Command
    <3> QED
      BY <3>1, Interrupts
  <2>2. ~crossed /\ cmd_pending_state = "IDLE"
    BY <1>6, Crosses, Zenon DEF SystemUsbBoot
  <2> QED
    BY <1>6, <2>1, <2>2 DEF PromisedNow, Promised, Free, SystemUsbBoot, Command, Enter,
       StartDialog, Runs
<1>7. ASSUME NEW t \in Tty, TermtestStart(t) PROVE PromisedNow'
  <2>1. ~torn /\ Free
    <3>1. Enter(t)
      BY <1>7, Zenon DEF TermtestStart, Command
    <3> QED
      BY <3>1, Interrupts
  <2>2. ~crossed /\ cmd_pending_state = "IDLE"
    BY <1>7, Crosses, Zenon DEF TermtestStart
  <2> QED
    BY <1>7, <2>1, <2>2 DEF PromisedNow, Promised, Free, TermtestStart, Command, Enter,
       StartDialog, Runs
<1>8. ASSUME NEW t \in Tty, GenStarted(t) PROVE PromisedNow'
  <2>1. ~torn
    BY <1>8, Zenon DEF GenStarted
  <2>2. ~crossed
    BY <1>8, Zenon DEF GenStarted
  <2> QED
    BY <1>8, <2>1, <2>2 DEF PromisedNow, Promised, Free, GenStarted, Runs, Owned, OwnedNow
<1>9. ASSUME NEW t \in Tty, Shown(t) PROVE PromisedNow'
  <2>1. ~torn
    BY <1>9, Zenon DEF Shown
  <2>2. ~crossed
    BY <1>9, Zenon DEF Shown
  <2> QED
    BY <1>9, <2>1, <2>2 DEF PromisedNow, Promised, Free, Shown, Runs, Owned, OwnedNow
<1>10. ASSUME NEW t \in Tty, WizardStarted(t) PROVE PromisedNow'
  <2>1. ~torn
    BY <1>10, Zenon DEF WizardStarted
  <2>2. ~crossed
    BY <1>10, Zenon DEF WizardStarted
  <2> QED
    BY <1>10, <2>1, <2>2 DEF PromisedNow, Promised, Free, WizardStarted, Runs, Owned,
       OwnedNow
<1>11. ASSUME NEW t \in Tty, SignWrite(t) PROVE PromisedNow'
  <2>1. ~torn
    BY <1>11, Zenon DEF SignWrite
  <2>2. ~crossed
    BY <1>11, Zenon DEF SignWrite
  <2> QED
    BY <1>11, <2>1, <2>2 DEF PromisedNow, Promised, Free, SignWrite, Runs, ContextsOK,
       TxContext, Owned, OwnedNow
<1>12. ASSUME NEW t \in Tty, SignPrompt(t) PROVE PromisedNow'
  <2>1. ~torn
    BY <1>12, Zenon DEF SignPrompt
  <2>2. ~crossed
    BY <1>12, Zenon DEF SignPrompt
  <2> QED
    BY <1>12, <2>1, <2>2 DEF PromisedNow, Promised, Free, SignPrompt, Runs, Owned, OwnedNow
<1>13. ASSUME NEW t \in Tty, Sent(t) PROVE PromisedNow'
  <2>1. ~torn
    BY <1>13, Zenon DEF Sent
  <2>2. ~crossed
    BY <1>13, Zenon DEF Sent
  <2> QED
    BY <1>13, <2>1, <2>2 DEF PromisedNow, Promised, Free, Sent, Runs, Owned, OwnedNow
<1>14. ASSUME NEW t \in Tty, NEW key \in Key, GenKey(t, key) PROVE PromisedNow'
  <2>1. ~torn /\ Alone(t) /\ Asking(t, "collect")
    BY <1>14, KeyComes DEF GenKey
  <2>2. ~crossed
    BY <1>14, Zenon DEF GenKey
  <2>3. /\ cmd_pending_ttyp = t /\ privkey_gen_ctx.ttyp = t
        /\ cmd_pending_state = "PRIVKEY_GEN_COLLECTING"
    BY <2>1 DEF Asking
  <2>4. PromisedNow /\ UNCHANGED sign_tx_ctx /\ pc' = [pc EXCEPT ![t] = "home"]
    BY <1>14, <2>1, <2>2 DEF Promised, GenKey
  <2>5. CASE privkey_gen_abort
    BY <2>1, <2>4, <2>5 DEF PromisedNow, Alone, Asking, privkey_gen_abort, NoGen
  <2>6. ASSUME NEW dec \in 1 .. Entropy, UNCHANGED <<pending, asked>>,
               privkey_gen_ctx' = [privkey_gen_ctx EXCEPT !.remaining = @ - dec]
        PROVE  PromisedNow'
    <3>1. privkey_gen_ctx'.pending_secret = privkey_gen_ctx.pending_secret
      BY <2>6 DEF ContextsOK, GenContext
    <3>2. privkey_gen_ctx.pending_secret = None
      BY <2>3, <2>4 DEF PromisedNow
    <3> QED
      BY <2>1, <2>3, <2>4, <2>6, <3>1, <3>2 DEF PromisedNow, Alone, Asking
  <2>7. ASSUME NEW s \in Secret, Propose(t, s), cmd_pending_state' = "PRIVKEY_SHOW_CONFIRM",
               UNCHANGED cmd_pending_ttyp
        PROVE  PromisedNow'
    <3>1. privkey_gen_ctx'.pending_secret = s /\ privkey_gen_ctx'.ttyp = t
      BY <2>3, <2>7 DEF ContextsOK, GenContext, Propose
    <3>2. asked'[t] = Asked("accept", s)
      BY <2>7 DEF Propose
    <3> QED
      BY <2>1, <2>4, <2>7, <3>1, <3>2, Constants DEF PromisedNow, Alone, Asking
  <2> QED
    BY <1>14, <2>5, <2>6, <2>7, Zenon DEF GenKey
<1>15. ASSUME NEW t \in Tty, NEW key \in Key, AcceptKey(t, key) PROVE PromisedNow'
  <2>1. ~torn /\ Alone(t) /\ Asking(t, "accept")
    BY <1>15, KeyComes DEF AcceptKey
  <2>2. ~crossed
    BY <1>15, Zenon DEF AcceptKey
  <2>3. /\ cmd_pending_ttyp = t /\ privkey_gen_ctx.ttyp = t
        /\ cmd_pending_state = "PRIVKEY_SHOW_CONFIRM"
    BY <2>1 DEF Asking, Generated
  <2>4. PromisedNow /\ UNCHANGED sign_tx_ctx /\ pc' = [pc EXCEPT ![t] = "home"]
    BY <1>15, <2>1, <2>2 DEF Promised, AcceptKey
  <2>5. CASE privkey_gen_abort
    BY <2>1, <2>4, <2>5 DEF PromisedNow, Alone, Asking, privkey_gen_abort, NoGen
  <2>6. ASSUME NEW s \in Secret, Propose(t, s), UNCHANGED pending
        PROVE  PromisedNow'
    <3>1. privkey_gen_ctx'.pending_secret = s /\ privkey_gen_ctx'.ttyp = t
      BY <2>3, <2>6 DEF ContextsOK, GenContext, Propose
    <3>2. asked'[t] = Asked("accept", s)
      BY <2>6 DEF Propose
    <3> QED
      BY <2>1, <2>3, <2>4, <2>6, <3>1, <3>2, Constants DEF PromisedNow, Alone, Asking
  <2> QED
    BY <1>15, <2>5, <2>6, Zenon DEF AcceptKey
<1>16. ASSUME NEW t \in Tty, NEW key \in Key, ShowKey(t, key) PROVE PromisedNow'
  <2>1. ~torn /\ Alone(t) /\ Asking(t, "show")
    BY <1>16, KeyComes DEF ShowKey
  <2>2. ~crossed
    BY <1>16, Zenon DEF ShowKey
  <2> QED
    BY <1>16, <2>1, <2>2 DEF PromisedNow, Promised, Alone, Asking, ShowKey, Generated
<1>17. ASSUME NEW t \in Tty, NEW key \in Key, WizardKey(t, key) PROVE PromisedNow'
  <2>1. ~torn /\ Alone(t) /\ Asking(t, "prompt")
    BY <1>17, KeyComes DEF WizardKey
  <2>2. ~crossed
    BY <1>17, Zenon DEF WizardKey
  <2> QED
    BY <1>17, <2>1, <2>2 DEF PromisedNow, Promised, Alone, Asking, WizardKey
<1>18. ASSUME NEW t \in Tty, NEW key \in Key, TxKey(t, key) PROVE PromisedNow'
  <2>1. ~torn /\ Alone(t) /\ Asking(t, "confirm")
    BY <1>18, KeyComes DEF TxKey
  <2>2. ~crossed
    BY <1>18, Zenon DEF TxKey
  <2> QED
    BY <1>18, <2>1, <2>2 DEF PromisedNow, Promised, Alone, Asking, TxKey
<1>19. ASSUME NEW t \in Tty, NEW key \in Key, BootKey(t, key) PROVE PromisedNow'
  <2>0. PICK wanted \in DOMAIN WaitFor : KeyFor(t, WaitFor[wanted])
    BY <1>19, Zenon DEF BootKey
  <2>1. ~torn /\ Alone(t) /\ Asking(t, WaitFor[wanted])
    BY <2>0, KeyComes DEF WaitFor
  <2>2. ~crossed
    BY <1>19, Zenon DEF BootKey
  <2>3. BootSteps(t, key) /\ WaitFor[wanted] \in Waiting
    BY <1>19, BootKeySteps DEF WaitFor, Waiting
  <2> QED
    BY <2>1, <2>2, <2>3, Constants DEF PromisedNow, Promised, Alone, Asking, BootSteps
<1>20. ASSUME NEW t \in Tty, NEW key \in Key, TermtestKey(t, key) PROVE PromisedNow'
  <2>1. ~torn /\ Alone(t) /\ Asking(t, "termtest")
    BY <1>20, KeyComes DEF TermtestKey
  <2>2. ~crossed
    BY <1>20, Zenon DEF TermtestKey
  <2> QED
    BY <1>20, <2>1, <2>2 DEF PromisedNow, Promised, Alone, Asking, TermtestKey
<1>21. ASSUME NEW ticks \in 0 .. MaxTicks, Receive(ticks) PROVE PromisedNow'
  <2>1. (~torn /\ ~crossed) \/ Settled
    BY <1>21, Zenon DEF Receive
  <2>2. pc' = [pc EXCEPT !["uart"] = "home"] /\ pc["uart"] = "receive" /\ pc["usb"] = "home"
    BY <1>21 DEF Receive, Runs
  <2>3. UNCHANGED <<pending, privkey_gen_ctx, sign_tx_ctx, asked>>
    BY <1>21 DEF Receive
  <2>4. CASE Settled
    BY <2>2, <2>3, <2>4 DEF PromisedNow, Settled
  <2>5. CASE ~torn /\ ~crossed
    BY <2>2, <2>3, <2>5 DEF PromisedNow, Promised
  <2> QED
    BY <2>1, <2>4, <2>5
<1>22. ASSUME InputDone PROVE PromisedNow'
  <2>1. ~torn
    BY <1>22, Zenon DEF InputDone
  <2>2. ~crossed
    BY <1>22, Zenon DEF InputDone
  <2> QED
    BY <1>22, <2>1, <2>2 DEF PromisedNow, Promised, Free, InputDone
<1>23. ASSUME CmdPoll PROVE PromisedNow'
  <2>1. ~torn
    BY <1>23, Zenon DEF CmdPoll
  <2>2. ~crossed
    BY <1>23, Zenon DEF CmdPoll
  <2>3. PromisedNow /\ pc["usb"] = "home" /\ pc["uart"] = "poll"
    BY <1>23, <2>1, <2>2 DEF Promised, CmdPoll, Runs
  <2>4. UNCHANGED <<pending, ctxs, asked>>
    BY <1>23 DEF CmdPoll
  <2>5. \/ cmd_pending_state = "USB_BOOT_CONFIRM" /\ pc' = [pc EXCEPT !["uart"] = "expired"]
        \/ \E where \in {"flushed", "receive"} : pc' = [pc EXCEPT !["uart"] = where]
    BY <1>23 DEF CmdPoll, BootExpired
  <2> QED
    BY <2>3, <2>4, <2>5 DEF PromisedNow
<1>24. ASSUME ExpireBoot PROVE PromisedNow'
  <2>1. ~torn
    BY <1>24, Zenon DEF ExpireBoot
  <2>2. ~crossed
    BY <1>24, Zenon DEF ExpireBoot
  <2> QED
    BY <1>24, <2>1, <2>2 DEF PromisedNow, Promised, Free, ExpireBoot, Runs
<1>25. ASSUME Flushed PROVE PromisedNow'
  <2>1. ~torn
    BY <1>25, Zenon DEF Flushed
  <2>2. ~crossed
    BY <1>25, Zenon DEF Flushed
  <2> QED
    BY <1>25, <2>1, <2>2 DEF PromisedNow, Promised, Free, Flushed, Runs
<1>26. ASSUME UNCHANGED vars PROVE PromisedNow'
  <2>1. ~torn
    BY <1>26, Zenon
  <2>2. ~crossed
    BY <1>26, Zenon
  <2> QED
    BY <1>26, <2>1, <2>2 DEF PromisedNow, Promised, Free
<1>30. ASSUME KeyArrives PROVE PromisedNow'
  <2>1. ~torn /\ Free
    <3>1. Enter("uart")
      BY <1>30, Zenon DEF KeyArrives
    <3> QED
      BY <3>1, Interrupts
  <2>2. Handler("uart") \in Looking /\ pc' = [pc EXCEPT !["uart"] = Handler("uart")]
    BY <1>30, Looks DEF KeyArrives
  <2>3. ~crossed
    BY <1>30, Zenon DEF KeyArrives
  <2>4. UNCHANGED <<pending, ctxs, asked, unshown>>
    BY <1>30 DEF KeyArrives
  <2> QED
    BY <2>1, <2>2, <2>3, <2>4 DEF PromisedNow, Promised, Free
<1>31. ASSUME KeyIgnored PROVE PromisedNow'
  <2>1. ~torn
    BY <1>31, Zenon DEF KeyIgnored
  <2>2. ~crossed
    BY <1>31, Zenon DEF KeyIgnored
  <2>3. /\ pc["uart"] \in Looking /\ pc' = [pc EXCEPT !["uart"] = "home"]
        /\ UNCHANGED <<pending, ctxs, asked, unshown>>
    BY <1>31 DEF KeyIgnored
  <2> QED
    BY <2>1, <2>2, <2>3 DEF PromisedNow, Promised
<1>27. ASSUME NEW t \in Tty, Commands(t) \/ GoOn(t) PROVE PromisedNow'
  BY <1>27, <1>1, <1>2, <1>3, <1>4, <1>5, <1>6, <1>7, <1>8, <1>9, <1>10, <1>11, <1>12,
     <1>13, Zenon DEF Commands, GoOn
<1>28. ASSUME NEW t \in Tty, Keys(t) PROVE PromisedNow'
  BY <1>28, <1>14, <1>15, <1>16, <1>17, <1>18, <1>19, <1>20, Zenon DEF Keys
<1>29. ASSUME MainLoop PROVE PromisedNow'
  BY <1>29, <1>21, <1>22, <1>23, <1>24, <1>25, <1>30, <1>31, Zenon DEF MainLoop
<1> QED
  BY <1>26, <1>27, <1>28, <1>29, Zenon DEF Next

-----------------------------------------------------------------------------
\* An answer in a dialog that nothing tore or crossed is the one promised.
LEMMA Answers ==
    ASSUME TypesOK, Owned, Held, Promised, EnterDoesAsAsked, NEW t \in Tty,
           NEW h \in Looking, KeyFor(t, h), UNCHANGED crossed, NEW k, NEW d, Answer(t, k, d),
           Asking(t, h) /\ PromisedNow => asked[t] = Asked(k, d)
    PROVE  EnterDoesAsAsked'
<1>1. CASE torn' \/ crossed
  BY <1>1, Zenon DEF Answer, EnterDoesAsAsked
<1>2. CASE ~torn' /\ ~crossed
  <2>1. Asking(t, h) /\ PromisedNow
    BY <1>2, KeyComes DEF Promised
  <2> QED
    BY <2>1, Zenon DEF Answer, EnterDoesAsAsked
<1> QED
  BY <1>1, <1>2, Zenon

LEMMA AnswersNext ==
    TypesOK /\ Owned /\ Held /\ Promised /\ EnterDoesAsAsked /\ [Next]_vars => EnterDoesAsAsked'
<1> SUFFICES ASSUME TypesOK, Owned, Held, Promised, EnterDoesAsAsked, [Next]_vars
             PROVE  EnterDoesAsAsked'
  OBVIOUS
<1>1. ASSUME NEW t \in Tty, PrivkeySet(t) PROVE EnterDoesAsAsked'
  BY <1>1 DEF EnterDoesAsAsked, PrivkeySet
<1>2. ASSUME NEW t \in Tty, PrivkeyShow(t) PROVE EnterDoesAsAsked'
  BY <1>2 DEF EnterDoesAsAsked, PrivkeyShow
<1>3. ASSUME NEW t \in Tty, PrivkeyGen(t) PROVE EnterDoesAsAsked'
  BY <1>3 DEF EnterDoesAsAsked, PrivkeyGen
<1>4. ASSUME NEW t \in Tty, SignWizard(t) PROVE EnterDoesAsAsked'
  BY <1>4 DEF EnterDoesAsAsked, SignWizard
<1>5. ASSUME NEW t \in Tty, Sign(t) PROVE EnterDoesAsAsked'
  BY <1>5 DEF EnterDoesAsAsked, Sign
<1>6. ASSUME NEW t \in Tty, SystemUsbBoot(t) PROVE EnterDoesAsAsked'
  BY <1>6 DEF EnterDoesAsAsked, SystemUsbBoot
<1>7. ASSUME NEW t \in Tty, TermtestStart(t) PROVE EnterDoesAsAsked'
  BY <1>7 DEF EnterDoesAsAsked, TermtestStart
<1>8. ASSUME NEW t \in Tty, GenStarted(t) PROVE EnterDoesAsAsked'
  BY <1>8 DEF EnterDoesAsAsked, GenStarted
<1>9. ASSUME NEW t \in Tty, Shown(t) PROVE EnterDoesAsAsked'
  BY <1>9 DEF EnterDoesAsAsked, Shown
<1>10. ASSUME NEW t \in Tty, WizardStarted(t) PROVE EnterDoesAsAsked'
  BY <1>10 DEF EnterDoesAsAsked, WizardStarted
<1>11. ASSUME NEW t \in Tty, SignWrite(t) PROVE EnterDoesAsAsked'
  BY <1>11 DEF EnterDoesAsAsked, SignWrite
<1>12. ASSUME NEW t \in Tty, SignPrompt(t) PROVE EnterDoesAsAsked'
  BY <1>12 DEF EnterDoesAsAsked, SignPrompt
<1>13. ASSUME NEW t \in Tty, Sent(t) PROVE EnterDoesAsAsked'
  BY <1>13 DEF EnterDoesAsAsked, Sent
<1>14. ASSUME NEW t \in Tty, NEW key \in Key, GenKey(t, key) PROVE EnterDoesAsAsked'
  BY <1>14 DEF EnterDoesAsAsked, GenKey
<1>15. ASSUME NEW t \in Tty, NEW key \in Key, AcceptKey(t, key) PROVE EnterDoesAsAsked'
  <2>0. KeyFor(t, "accept")
    BY <1>15, Zenon DEF AcceptKey
  <2>1. UNCHANGED crossed /\ "accept" \in Looking
    BY <1>15 DEF AcceptKey, Looking
  <2>3. Asking(t, "accept") /\ PromisedNow => asked[t] = Asked("accept", privkey_gen_ctx.pending_secret)
    BY DEF PromisedNow, Asking, Generated
  <2>4. CASE Answer(t, "accept", privkey_gen_ctx.pending_secret)
    BY <2>0, <2>1, <2>3, <2>4, Answers
  <2>5. CASE UNCHANGED as_asked
    BY <2>5, Zenon DEF EnterDoesAsAsked
  <2> QED
    BY <1>15, <2>4, <2>5, Zenon DEF AcceptKey
<1>16. ASSUME NEW t \in Tty, NEW key \in Key, ShowKey(t, key) PROVE EnterDoesAsAsked'
  <2>0. KeyFor(t, "show")
    BY <1>16, Zenon DEF ShowKey
  <2>1. UNCHANGED crossed /\ "show" \in Looking
    BY <1>16 DEF ShowKey, Looking
  <2>3. Asking(t, "show") /\ PromisedNow => asked[t] = Asked("show", None)
    BY DEF PromisedNow, Asking, Generated
  <2>4. CASE Answer(t, "show", None)
    BY <2>0, <2>1, <2>3, <2>4, Answers
  <2>5. CASE UNCHANGED as_asked
    BY <2>5, Zenon DEF EnterDoesAsAsked
  <2> QED
    BY <1>16, <2>4, <2>5, Zenon DEF ShowKey
<1>17. ASSUME NEW t \in Tty, NEW key \in Key, WizardKey(t, key) PROVE EnterDoesAsAsked'
  BY <1>17 DEF EnterDoesAsAsked, WizardKey
<1>18. ASSUME NEW t \in Tty, NEW key \in Key, TxKey(t, key) PROVE EnterDoesAsAsked'
  <2>0. KeyFor(t, "confirm")
    BY <1>18, Zenon DEF TxKey
  <2>1. UNCHANGED crossed /\ "confirm" \in Looking
    BY <1>18 DEF TxKey, Looking
  <2>3. Asking(t, "confirm") /\ PromisedNow => asked[t] = Asked("transmit", sign_tx_ctx.payload)
    BY <2>1 DEF PromisedNow, Asking
  <2>4. CASE Answer(t, "transmit", sign_tx_ctx.payload)
    BY <2>0, <2>1, <2>3, <2>4, Answers
  <2>5. CASE UNCHANGED as_asked
    BY <2>5, Zenon DEF EnterDoesAsAsked
  <2> QED
    BY <1>18, <2>4, <2>5, Zenon DEF TxKey
<1>19. ASSUME NEW t \in Tty, NEW key \in Key, BootKey(t, key) PROVE EnterDoesAsAsked'
  <2>0. PICK wanted \in DOMAIN WaitFor : KeyFor(t, WaitFor[wanted])
    BY <1>19, Zenon DEF BootKey
  <2>1. UNCHANGED crossed /\ WaitFor[wanted] \in Waiting /\ WaitFor[wanted] \in Looking
    BY <1>19 DEF BootKey, WaitFor, Waiting, Looking
  <2>3. Asking(t, WaitFor[wanted]) /\ PromisedNow => asked[t] = Asked("boot", None)
    BY <2>1 DEF PromisedNow, Asking
  <2>4. CASE Answer(t, "boot", None)
    BY <2>0, <2>1, <2>3, <2>4, Answers
  <2>5. CASE UNCHANGED as_asked
    BY <2>5, Zenon DEF EnterDoesAsAsked
  <2> QED
    BY <1>19, <2>4, <2>5, Zenon DEF BootKey
<1>20. ASSUME NEW t \in Tty, NEW key \in Key, TermtestKey(t, key) PROVE EnterDoesAsAsked'
  BY <1>20 DEF EnterDoesAsAsked, TermtestKey
<1>21. ASSUME NEW ticks \in 0 .. MaxTicks, Receive(ticks) PROVE EnterDoesAsAsked'
  BY <1>21 DEF EnterDoesAsAsked, Receive
<1>22. ASSUME InputDone PROVE EnterDoesAsAsked'
  BY <1>22 DEF EnterDoesAsAsked, InputDone
<1>23. ASSUME CmdPoll PROVE EnterDoesAsAsked'
  BY <1>23 DEF EnterDoesAsAsked, CmdPoll
<1>24. ASSUME ExpireBoot PROVE EnterDoesAsAsked'
  BY <1>24 DEF EnterDoesAsAsked, ExpireBoot
<1>25. ASSUME Flushed PROVE EnterDoesAsAsked'
  BY <1>25 DEF EnterDoesAsAsked, Flushed
<1>26. ASSUME UNCHANGED vars PROVE EnterDoesAsAsked'
  BY <1>26 DEF EnterDoesAsAsked
<1>30. ASSUME KeyArrives PROVE EnterDoesAsAsked'
  BY <1>30 DEF EnterDoesAsAsked, KeyArrives
<1>31. ASSUME KeyIgnored PROVE EnterDoesAsAsked'
  BY <1>31 DEF EnterDoesAsAsked, KeyIgnored
<1>27. ASSUME NEW t \in Tty, Commands(t) \/ GoOn(t) PROVE EnterDoesAsAsked'
  BY <1>27, <1>1, <1>2, <1>3, <1>4, <1>5, <1>6, <1>7, <1>8, <1>9, <1>10, <1>11, <1>12,
     <1>13, Zenon DEF Commands, GoOn
<1>28. ASSUME NEW t \in Tty, Keys(t) PROVE EnterDoesAsAsked'
  BY <1>28, <1>14, <1>15, <1>16, <1>17, <1>18, <1>19, <1>20, Zenon DEF Keys
<1>29. ASSUME MainLoop PROVE EnterDoesAsAsked'
  BY <1>29, <1>21, <1>22, <1>23, <1>24, <1>25, <1>30, <1>31, Zenon DEF MainLoop
<1> QED
  BY <1>26, <1>27, <1>28, <1>29, Zenon DEF Next

-----------------------------------------------------------------------------
LEMMA SpelledInit == Init => Spelled
BY DEF Init, Spelled, SpelledNow, BootOnlyOnYes, NoBoot, WaitFor, Slipped

\* Steps that leave the boot dialog alone.
LEMMA SpelledStill ==
    ASSUME TypesOK, Spelled, UNCHANGED <<booted, yes, usb_boot_confirm_ctx>>,
           pc'["uart"] = pc["uart"] \/ pc'["uart"] \notin Waiting
    PROVE  Spelled'
<1>1. \A s \in {"Y", "E", "S", "cr"} : WaitFor[s] \in Waiting
  BY DEF WaitFor, Waiting
<1> QED
  BY <1>1 DEF Spelled, SpelledNow, BootOnlyOnYes

LEMMA SpelledNext == TypesOK /\ Spelled /\ [Next]_vars => Spelled'
<1> SUFFICES ASSUME TypesOK, Spelled, [Next]_vars PROVE Spelled'
  OBVIOUS
<1> USE SpelledStill DEF TypesOK, PlacesOK, Waiting
<1>0. \A s \in {"Y", "E", "S", "cr"} : WaitFor[s] \in Waiting
  BY DEF WaitFor
<1>1. ASSUME NEW t \in Tty, PrivkeySet(t) PROVE Spelled'
  BY <1>1 DEF PrivkeySet, Command, Enter
<1>2. ASSUME NEW t \in Tty, PrivkeyShow(t) PROVE Spelled'
  BY <1>2 DEF PrivkeyShow, Command, Enter
<1>3. ASSUME NEW t \in Tty, PrivkeyGen(t) PROVE Spelled'
  BY <1>3 DEF PrivkeyGen, Command, Enter
<1>4. ASSUME NEW t \in Tty, SignWizard(t) PROVE Spelled'
  BY <1>4 DEF SignWizard, Command, Enter
<1>5. ASSUME NEW t \in Tty, Sign(t) PROVE Spelled'
  BY <1>5 DEF Sign, Command, Enter
<1>6. ASSUME NEW t \in Tty, SystemUsbBoot(t) PROVE Spelled'
  <2>1. /\ usb_boot_confirm_ctx' = [ttyp |-> t, state |-> "Y", left |-> BootTimeout]
        /\ yes' = [yes EXCEPT ![t] = IF t = "usb" /\ pc["uart"] \in Waiting THEN Slipped
                                                                           ELSE 0]
        /\ UNCHANGED <<pc, booted>> /\ booted = None /\ pc[t] = "home"
    BY <1>6 DEF SystemUsbBoot, Command, Enter, Runs
  <2>2. SpelledNow /\ yes["uart"] # Slipped
    BY <2>1 DEF Spelled
  <2>3. CASE t = "usb" /\ pc["uart"] \in Waiting
    BY <2>1, <2>2, <2>3 DEF Spelled, SpelledNow, BootOnlyOnYes, Typed
  <2>4. CASE ~(t = "usb" /\ pc["uart"] \in Waiting)
    <3>1. pc["uart"] \notin Waiting
      BY <2>1, <2>4
    <3> QED
      BY <1>0, <2>1, <2>2, <2>4, <3>1 DEF Spelled, SpelledNow, BootOnlyOnYes, Typed, Slipped
  <2> QED
    BY <2>3, <2>4
<1>7. ASSUME NEW t \in Tty, TermtestStart(t) PROVE Spelled'
  BY <1>7 DEF TermtestStart, Command, Enter
<1>8. ASSUME NEW t \in Tty, GenStarted(t) PROVE Spelled'
  BY <1>8 DEF GenStarted
<1>9. ASSUME NEW t \in Tty, Shown(t) PROVE Spelled'
  BY <1>9 DEF Shown
<1>10. ASSUME NEW t \in Tty, WizardStarted(t) PROVE Spelled'
  BY <1>10 DEF WizardStarted
<1>11. ASSUME NEW t \in Tty, SignWrite(t) PROVE Spelled'
  BY <1>11 DEF SignWrite
<1>12. ASSUME NEW t \in Tty, SignPrompt(t) PROVE Spelled'
  BY <1>12 DEF SignPrompt
<1>13. ASSUME NEW t \in Tty, Sent(t) PROVE Spelled'
  BY <1>13 DEF Sent
<1>14. ASSUME NEW t \in Tty, NEW key \in Key, GenKey(t, key) PROVE Spelled'
  BY <1>14 DEF GenKey
<1>15. ASSUME NEW t \in Tty, NEW key \in Key, AcceptKey(t, key) PROVE Spelled'
  BY <1>15 DEF AcceptKey
<1>16. ASSUME NEW t \in Tty, NEW key \in Key, ShowKey(t, key) PROVE Spelled'
  BY <1>16 DEF ShowKey
<1>17. ASSUME NEW t \in Tty, NEW key \in Key, WizardKey(t, key) PROVE Spelled'
  BY <1>17 DEF WizardKey
<1>18. ASSUME NEW t \in Tty, NEW key \in Key, TxKey(t, key) PROVE Spelled'
  BY <1>18 DEF TxKey
<1>19. ASSUME NEW t \in Tty, NEW key \in Key, BootKey(t, key) PROVE Spelled'
  <2>1. PICK wanted \in DOMAIN WaitFor :
            /\ KeyFor(t, WaitFor[wanted])
            /\ \/ /\ key = wanted /\ key # "cr" /\ UNCHANGED booted
                  /\ usb_boot_confirm_ctx' = [usb_boot_confirm_ctx EXCEPT !.state = BootAfter[key]]
               \/ /\ key = wanted /\ key = "cr" /\ booted' = t
                  /\ usb_boot_confirm_ctx' = NoBoot
               \/ usb_boot_confirm_ctx' = NoBoot /\ UNCHANGED booted
    BY <1>19, Zenon DEF BootKey
  <2> DEFINE state == usb_boot_confirm_ctx.state
             owner == usb_boot_confirm_ctx.ttyp
  <2>2. wanted \in {"Y", "E", "S", "cr"} /\ state \in {"Y", "E", "S", "cr"}
    BY DEF WaitFor, ContextsOK, BootContext
  <2>3. SpelledNow /\ yes["uart"] # Slipped /\ booted = None
    BY <2>1 DEF Spelled, KeyFor, Enter, Runs
  <2>4. /\ pc' = [pc EXCEPT ![t] = "home"]
        /\ \A u \in Tty \ {t} : yes'[u] = yes[u]
        /\ yes[t] = Slipped => yes'[t] = Slipped
        /\ yes[t] # Slipped => yes'[t] # Slipped
    BY <1>19 DEF BootKey, Slipped
  <2>5. ASSUME yes[t] = Typed[wanted], key = wanted PROVE yes'[t] = Typed[wanted] + 1
    BY <1>19, <2>2, <2>5 DEF BootKey, Typed, Slipped
  \* What t has typed is what stands before the state that was read.
  <2>6. /\ yes[t] \in {Typed[wanted], Slipped}
        /\ owner = t => state = wanted
        /\ t = "uart" /\ owner = "usb" => yes["usb"] = Slipped
        /\ t = "usb" => owner = t
    <3>1. CASE t = "usb" /\ Takes(t) /\ Handler(t) = WaitFor[wanted]
      <4>1. WaitFor[wanted] \in Waiting /\ Asking(t, WaitFor[wanted])
        BY <1>0, <2>2, <3>1, Looks
      <4>2. owner = t /\ WaitFor[state] = WaitFor[wanted]
        BY <4>1 DEF Asking
      <4>3. state = wanted
        BY <2>2, <4>2 DEF WaitFor
      <4> QED
        BY <2>3, <3>1, <4>2, <4>3 DEF SpelledNow
    <3>2. CASE t = "uart" /\ pc[t] = WaitFor[wanted]
      BY <2>2, <2>3, <3>2 DEF SpelledNow
    <3> QED
      BY <2>1, <3>1, <3>2, Zenon DEF KeyFor
  \* While a key of the UART is halfway, USB's warnings are marked.
  <2>7. ASSUME NEW s \in {"Y", "E", "S", "cr"}, pc'["uart"] = WaitFor[s]
        PROVE  t = "usb" /\ yes["usb"] = Slipped /\ yes'["uart"] = Typed[s]
    <3>1. t = "usb" /\ pc["uart"] = WaitFor[s]
      BY <1>0, <2>4, <2>7
    <3> QED
      BY <2>3, <2>4, <2>6, <3>1 DEF SpelledNow
  <2>8. yes'["uart"] # Slipped
    BY <2>3, <2>4
  <2>9. CASE /\ key = wanted /\ key # "cr" /\ UNCHANGED booted
             /\ usb_boot_confirm_ctx' = [usb_boot_confirm_ctx EXCEPT !.state = BootAfter[key]]
    <3>1. usb_boot_confirm_ctx'.ttyp = owner /\ usb_boot_confirm_ctx'.state = BootAfter[wanted]
      BY <2>9 DEF ContextsOK, BootContext
    <3>2. Typed[BootAfter[wanted]] = Typed[wanted] + 1
      BY <2>2, <2>9 DEF Typed, BootAfter
    <3>3. ASSUME NEW u \in Tty, owner = u
          PROVE  yes'[u] \in {Typed[BootAfter[wanted]], Slipped}
      <4>1. CASE u = t
        BY <2>4, <2>5, <2>6, <2>9, <3>2, <4>1
      <4>2. CASE u # t
        BY <2>4, <2>6, <3>3, <4>2
      <4> QED
        BY <4>1, <4>2
    <3>4. ASSUME NEW s \in {"Y", "E", "S", "cr"}, pc'["uart"] = WaitFor[s]
          PROVE  owner # "uart" /\ yes'["usb"] = Slipped /\ yes'["uart"] = Typed[s]
      BY <2>4, <2>6, <2>7, <3>4
    <3>5. SpelledNow'
      BY <3>1, <3>3, <3>4 DEF SpelledNow
    <3> QED
      BY <2>3, <2>8, <2>9, <3>5 DEF Spelled, BootOnlyOnYes
  <2>10. CASE key = wanted /\ key = "cr" /\ booted' = t /\ usb_boot_confirm_ctx' = NoBoot
    <3>1. yes'[t] \in {4, Slipped}
      BY <2>4, <2>5, <2>6, <2>10 DEF Typed
    <3> QED
      BY <2>8, <2>10, <3>1 DEF Spelled, BootOnlyOnYes
  <2>11. CASE usb_boot_confirm_ctx' = NoBoot /\ UNCHANGED booted
    <3>1. SpelledNow'
      BY <2>7, <2>11 DEF SpelledNow, NoBoot
    <3> QED
      BY <2>3, <2>8, <2>11, <3>1 DEF Spelled, BootOnlyOnYes
  <2> QED
    BY <2>1, <2>9, <2>10, <2>11
<1>20. ASSUME NEW t \in Tty, NEW key \in Key, TermtestKey(t, key) PROVE Spelled'
  BY <1>20 DEF TermtestKey
<1>21. ASSUME NEW ticks \in 0 .. MaxTicks, Receive(ticks) PROVE Spelled'
  <2>1. /\ usb_boot_confirm_ctx'.ttyp = usb_boot_confirm_ctx.ttyp
        /\ usb_boot_confirm_ctx'.state = usb_boot_confirm_ctx.state
    BY <1>21 DEF Receive, ContextsOK, BootContext
  <2>2. UNCHANGED <<booted, yes>> /\ pc'["uart"] = "home"
    BY <1>21 DEF Receive
  <2> QED
    BY <1>0, <2>1, <2>2 DEF Spelled, SpelledNow, BootOnlyOnYes
<1>22. ASSUME InputDone PROVE Spelled'
  BY <1>22 DEF InputDone
<1>23. ASSUME CmdPoll PROVE Spelled'
  BY <1>23 DEF CmdPoll
<1>24. ASSUME ExpireBoot PROVE Spelled'
  BY <1>0, <1>24 DEF ExpireBoot, NoBoot, Spelled, SpelledNow, BootOnlyOnYes
<1>25. ASSUME Flushed PROVE Spelled'
  BY <1>25 DEF Flushed
<1>26. ASSUME UNCHANGED vars PROVE Spelled'
  BY <1>26
<1>30. ASSUME KeyArrives PROVE Spelled'
  <2>1. /\ Asking("uart", Handler("uart")) /\ pc' = [pc EXCEPT !["uart"] = Handler("uart")]
        /\ UNCHANGED <<booted, yes, usb_boot_confirm_ctx>>
    BY <1>30, Looks DEF KeyArrives
  <2>2. usb_boot_confirm_ctx.state \in {"Y", "E", "S", "cr"}
    BY DEF ContextsOK, BootContext
  <2>3. ASSUME NEW s \in {"Y", "E", "S", "cr"}, Handler("uart") = WaitFor[s]
        PROVE  usb_boot_confirm_ctx.ttyp = "uart" /\ usb_boot_confirm_ctx.state = s
    <3>1. Handler("uart") \in Waiting
      BY <1>0, <2>3
    <3>2. usb_boot_confirm_ctx.ttyp = "uart" /\ WaitFor[usb_boot_confirm_ctx.state] = WaitFor[s]
      BY <2>1, <2>3, <3>1 DEF Asking
    <3> QED
      BY <2>2, <2>3, <3>2 DEF WaitFor
  <2> QED
    BY <2>1, <2>3 DEF Spelled, SpelledNow, BootOnlyOnYes
<1>31. ASSUME KeyIgnored PROVE Spelled'
  BY <1>31 DEF KeyIgnored
<1>27. ASSUME NEW t \in Tty, Commands(t) \/ GoOn(t) PROVE Spelled'
  BY <1>27, <1>1, <1>2, <1>3, <1>4, <1>5, <1>6, <1>7, <1>8, <1>9, <1>10, <1>11, <1>12,
     <1>13, Zenon DEF Commands, GoOn
<1>28. ASSUME NEW t \in Tty, Keys(t) PROVE Spelled'
  BY <1>28, <1>14, <1>15, <1>16, <1>17, <1>18, <1>19, <1>20, Zenon DEF Keys
<1>29. ASSUME MainLoop PROVE Spelled'
  BY <1>29, <1>21, <1>22, <1>23, <1>24, <1>25, <1>30, <1>31, Zenon DEF MainLoop
<1> QED
  BY <1>26, <1>27, <1>28, <1>29, Zenon DEF Next

-----------------------------------------------------------------------------
LEMMA TimelyInit == Init => Timely
BY DEF Init, Timely, BootExpired, FlushDue

LEMMA TimelyNext == TypesOK /\ Timely /\ [Next]_vars => Timely'
<1> SUFFICES ASSUME TypesOK, Timely, [Next]_vars PROVE Timely'
  OBVIOUS
<1> USE Constants DEF TypesOK, PlacesOK, Timely, BootExpired, FlushDue
<1>1. ASSUME NEW t \in Tty, PrivkeySet(t) PROVE Timely'
  BY <1>1 DEF PrivkeySet, Command, Enter, Runs
<1>2. ASSUME NEW t \in Tty, PrivkeyShow(t) PROVE Timely'
  BY <1>2 DEF PrivkeyShow, Command, Enter, Runs
<1>3. ASSUME NEW t \in Tty, PrivkeyGen(t) PROVE Timely'
  BY <1>3 DEF PrivkeyGen, Command, Enter, Runs
<1>4. ASSUME NEW t \in Tty, SignWizard(t) PROVE Timely'
  BY <1>4 DEF SignWizard, Command, Enter, Runs
<1>5. ASSUME NEW t \in Tty, Sign(t) PROVE Timely'
  BY <1>5 DEF Sign, Command, Enter, Runs
<1>6. ASSUME NEW t \in Tty, SystemUsbBoot(t) PROVE Timely'
  BY <1>6 DEF SystemUsbBoot, Command, Enter, Runs
<1>7. ASSUME NEW t \in Tty, TermtestStart(t) PROVE Timely'
  BY <1>7 DEF TermtestStart, Command, Enter, Runs, NoTermtest
<1>8. ASSUME NEW t \in Tty, GenStarted(t) PROVE Timely'
  BY <1>8 DEF GenStarted, Runs
<1>9. ASSUME NEW t \in Tty, Shown(t) PROVE Timely'
  BY <1>9 DEF Shown, Runs
<1>10. ASSUME NEW t \in Tty, WizardStarted(t) PROVE Timely'
  BY <1>10 DEF WizardStarted, Runs
<1>11. ASSUME NEW t \in Tty, SignWrite(t) PROVE Timely'
  BY <1>11 DEF SignWrite, Runs
<1>12. ASSUME NEW t \in Tty, SignPrompt(t) PROVE Timely'
  BY <1>12 DEF SignPrompt, Runs
<1>13. ASSUME NEW t \in Tty, Sent(t) PROVE Timely'
  BY <1>13 DEF Sent, Runs
<1>14. ASSUME NEW t \in Tty, NEW key \in Key, GenKey(t, key) PROVE Timely'
  BY <1>14 DEF GenKey, KeyFor, Enter, Runs, Takes, privkey_gen_abort
<1>15. ASSUME NEW t \in Tty, NEW key \in Key, AcceptKey(t, key) PROVE Timely'
  BY <1>15 DEF AcceptKey, KeyFor, Enter, Runs, Takes, privkey_gen_abort
<1>16. ASSUME NEW t \in Tty, NEW key \in Key, ShowKey(t, key) PROVE Timely'
  BY <1>16 DEF ShowKey, KeyFor, Enter, Runs, Takes
<1>17. ASSUME NEW t \in Tty, NEW key \in Key, WizardKey(t, key) PROVE Timely'
  BY <1>17 DEF WizardKey, KeyFor, Enter, Runs, Takes
<1>18. ASSUME NEW t \in Tty, NEW key \in Key, TxKey(t, key) PROVE Timely'
  BY <1>18 DEF TxKey, KeyFor, Enter, Runs, Takes
<1>19. ASSUME NEW t \in Tty, NEW key \in Key, BootKey(t, key) PROVE Timely'
  <2>1. BootSteps(t, key)
    BY <1>19, BootKeySteps
  <2>2. t = "usb" => usb_boot_confirm_ctx'.left = usb_boot_confirm_ctx.left \/ EndDialog
    BY <2>1 DEF BootSteps, ContextsOK, BootContext
  <2>3. t = "usb" => cmd_pending_state = "USB_BOOT_CONFIRM" /\ usb_boot_confirm_ctx.ttyp # None
    <3>1. PICK wanted \in DOMAIN WaitFor : KeyFor(t, WaitFor[wanted])
      BY <1>19, Zenon DEF BootKey
    <3>2. t = "usb" => Asking(t, WaitFor[wanted]) /\ WaitFor[wanted] \in Waiting
      BY <3>1, Looks DEF KeyFor, WaitFor, Waiting
    <3> QED
      BY <3>2 DEF Asking
  <2> QED
    BY <2>1, <2>2, <2>3 DEF BootSteps
<1>20. ASSUME NEW t \in Tty, NEW key \in Key, TermtestKey(t, key) PROVE Timely'
  BY <1>20 DEF TermtestKey, KeyFor, Enter, Runs, Takes
<1>21. ASSUME NEW ticks \in 0 .. MaxTicks, Receive(ticks) PROVE Timely'
  BY <1>21 DEF Receive
<1>22. ASSUME InputDone PROVE Timely'
  BY <1>22 DEF InputDone, Runs
<1>23. ASSUME CmdPoll PROVE Timely'
  BY <1>23 DEF CmdPoll, Runs
<1>24. ASSUME ExpireBoot PROVE Timely'
  BY <1>24 DEF ExpireBoot, Runs, NoBoot
<1>25. ASSUME Flushed PROVE Timely'
  BY <1>25 DEF Flushed, Runs, ContextsOK, TermtestContext
<1>26. ASSUME UNCHANGED vars PROVE Timely'
  BY <1>26
<1>30. ASSUME KeyArrives PROVE Timely'
  <2>1. Handler("uart") \in Looking
    BY <1>30, Looks DEF KeyArrives
  <2> QED
    BY <1>30, <2>1 DEF KeyArrives, Looking, Waiting
<1>31. ASSUME KeyIgnored PROVE Timely'
  BY <1>31 DEF KeyIgnored
<1>27. ASSUME NEW t \in Tty, Commands(t) \/ GoOn(t) PROVE Timely'
  BY <1>27, <1>1, <1>2, <1>3, <1>4, <1>5, <1>6, <1>7, <1>8, <1>9, <1>10, <1>11, <1>12,
     <1>13, Zenon DEF Commands, GoOn
<1>28. ASSUME NEW t \in Tty, Keys(t) PROVE Timely'
  BY <1>28, <1>14, <1>15, <1>16, <1>17, <1>18, <1>19, <1>20, Zenon DEF Keys
<1>29. ASSUME MainLoop PROVE Timely'
  BY <1>29, <1>21, <1>22, <1>23, <1>24, <1>25, <1>30, <1>31, Zenon DEF MainLoop
<1> QED
  BY <1>26, <1>27, <1>28, <1>29, Zenon DEF Next

-----------------------------------------------------------------------------
LEMMA CountedInit == Init => Counted
BY DEF Init, Counted, CountedNow

LEMMA CountedNext == TypesOK /\ Owned /\ Held /\ Counted /\ [Next]_vars => Counted'
<1> SUFFICES ASSUME TypesOK, Owned, Held, Counted, [Next]_vars, ~torn' PROVE CountedNow'
  BY DEF Counted
<1> USE DEF TypesOK, PlacesOK, Inside, Looking, Halfway, Waiting
<1>1. ASSUME NEW t \in Tty, PrivkeySet(t) PROVE CountedNow'
  <2>1. ~torn /\ Free
    <3>1. Enter(t)
      BY <1>1, Zenon DEF PrivkeySet, Command
    <3> QED
      BY <3>1, Interrupts
  <2> QED
    BY <1>1, <2>1, Constants DEF CountedNow, Counted, Free, PrivkeySet, Command, Enter, Runs
<1>2. ASSUME NEW t \in Tty, PrivkeyShow(t) PROVE CountedNow'
  <2>1. ~torn /\ Free
    <3>1. Enter(t)
      BY <1>2, Zenon DEF PrivkeyShow, Command
    <3> QED
      BY <3>1, Interrupts
  <2> QED
    BY <1>2, <2>1, Constants DEF CountedNow, Counted, Free, PrivkeyShow, Command, Enter,
       Runs
<1>3. ASSUME NEW t \in Tty, PrivkeyGen(t) PROVE CountedNow'
  <2>1. ~torn /\ Free
    <3>1. Enter(t)
      BY <1>3, Zenon DEF PrivkeyGen, Command
    <3> QED
      BY <3>1, Interrupts
  <2> QED
    BY <1>3, <2>1, Constants DEF CountedNow, Counted, Free, PrivkeyGen, Command, Enter, Runs
<1>4. ASSUME NEW t \in Tty, SignWizard(t) PROVE CountedNow'
  <2>1. ~torn /\ Free
    <3>1. Enter(t)
      BY <1>4, Zenon DEF SignWizard, Command
    <3> QED
      BY <3>1, Interrupts
  <2> QED
    BY <1>4, <2>1, Constants DEF CountedNow, Counted, Free, SignWizard, Command, Enter, Runs
<1>5. ASSUME NEW t \in Tty, Sign(t) PROVE CountedNow'
  <2>1. ~torn /\ Free
    <3>1. Enter(t)
      BY <1>5, Zenon DEF Sign, Command
    <3> QED
      BY <3>1, Interrupts
  <2> QED
    BY <1>5, <2>1, Constants DEF CountedNow, Counted, Free, Sign, Command, Enter, Runs
<1>6. ASSUME NEW t \in Tty, SystemUsbBoot(t) PROVE CountedNow'
  <2>1. ~torn /\ Free
    <3>1. Enter(t)
      BY <1>6, Zenon DEF SystemUsbBoot, Command
    <3> QED
      BY <3>1, Interrupts
  <2> QED
    BY <1>6, <2>1, Constants DEF CountedNow, Counted, Free, SystemUsbBoot, Command, Enter,
       Runs
<1>7. ASSUME NEW t \in Tty, TermtestStart(t) PROVE CountedNow'
  <2>1. ~torn /\ Free
    <3>1. Enter(t)
      BY <1>7, Zenon DEF TermtestStart, Command
    <3> QED
      BY <3>1, Interrupts
  <2> QED
    BY <1>7, <2>1, Constants DEF CountedNow, Counted, Free, TermtestStart, Command, Enter,
       Runs, NoTermtest
<1>8. ASSUME NEW t \in Tty, GenStarted(t) PROVE CountedNow'
  <2>1. ~torn
    BY <1>8, Zenon DEF GenStarted
  <2> QED
    BY <1>8, <2>1, Constants DEF CountedNow, Counted, Free, GenStarted, Owned, OwnedNow,
       Runs
<1>9. ASSUME NEW t \in Tty, Shown(t) PROVE CountedNow'
  <2>1. ~torn
    BY <1>9, Zenon DEF Shown
  <2> QED
    BY <1>9, <2>1, Constants DEF CountedNow, Counted, Free, Shown, Owned, OwnedNow, Runs
<1>10. ASSUME NEW t \in Tty, WizardStarted(t) PROVE CountedNow'
  <2>1. ~torn
    BY <1>10, Zenon DEF WizardStarted
  <2> QED
    BY <1>10, <2>1, Constants DEF CountedNow, Counted, Free, WizardStarted, Owned, OwnedNow,
       Runs
<1>11. ASSUME NEW t \in Tty, SignWrite(t) PROVE CountedNow'
  <2>1. ~torn
    BY <1>11, Zenon DEF SignWrite
  <2> QED
    BY <1>11, <2>1, Constants DEF CountedNow, Counted, Free, SignWrite, Owned, OwnedNow,
       Runs
<1>12. ASSUME NEW t \in Tty, SignPrompt(t) PROVE CountedNow'
  <2>1. ~torn
    BY <1>12, Zenon DEF SignPrompt
  <2> QED
    BY <1>12, <2>1, Constants DEF CountedNow, Counted, Free, SignPrompt, Owned, OwnedNow,
       Runs
<1>13. ASSUME NEW t \in Tty, Sent(t) PROVE CountedNow'
  <2>1. ~torn
    BY <1>13, Zenon DEF Sent
  <2> QED
    BY <1>13, <2>1, Constants DEF CountedNow, Counted, Free, Sent, Owned, OwnedNow, Runs
<1>14. ASSUME NEW t \in Tty, NEW key \in Key, GenKey(t, key) PROVE CountedNow'
  <2>1. ~torn /\ Alone(t) /\ Asking(t, "collect")
    BY <1>14, KeyComes DEF GenKey
  <2> QED
    BY <1>14, <2>1, Constants DEF CountedNow, Counted, Alone, Asking, GenKey, privkey_gen_abort
<1>15. ASSUME NEW t \in Tty, NEW key \in Key, AcceptKey(t, key) PROVE CountedNow'
  <2>1. ~torn /\ Alone(t) /\ Asking(t, "accept")
    BY <1>15, KeyComes DEF AcceptKey
  <2> QED
    BY <1>15, <2>1, Constants DEF CountedNow, Counted, Alone, Asking, AcceptKey, privkey_gen_abort
<1>16. ASSUME NEW t \in Tty, NEW key \in Key, ShowKey(t, key) PROVE CountedNow'
  <2>1. ~torn /\ Alone(t) /\ Asking(t, "show")
    BY <1>16, KeyComes DEF ShowKey
  <2> QED
    BY <1>16, <2>1, Constants DEF CountedNow, Counted, Alone, Asking, ShowKey
<1>17. ASSUME NEW t \in Tty, NEW key \in Key, WizardKey(t, key) PROVE CountedNow'
  <2>1. ~torn /\ Alone(t) /\ Asking(t, "prompt")
    BY <1>17, KeyComes DEF WizardKey
  <2> QED
    BY <1>17, <2>1, Constants DEF CountedNow, Counted, Alone, Asking, WizardKey
<1>18. ASSUME NEW t \in Tty, NEW key \in Key, TxKey(t, key) PROVE CountedNow'
  <2>1. ~torn /\ Alone(t) /\ Asking(t, "confirm")
    BY <1>18, KeyComes DEF TxKey
  <2> QED
    BY <1>18, <2>1, Constants DEF CountedNow, Counted, Alone, Asking, TxKey
<1>19. ASSUME NEW t \in Tty, NEW key \in Key, BootKey(t, key) PROVE CountedNow'
  <2>0. PICK wanted \in DOMAIN WaitFor : KeyFor(t, WaitFor[wanted])
    BY <1>19, Zenon DEF BootKey
  <2>1. ~torn /\ Alone(t) /\ Asking(t, WaitFor[wanted])
    BY <2>0, KeyComes DEF WaitFor
  <2>3. BootSteps(t, key) /\ WaitFor[wanted] \in Waiting
    BY <1>19, BootKeySteps DEF WaitFor, Waiting
  <2> QED
    BY <2>1, <2>3, Constants DEF CountedNow, Counted, Alone, Asking, BootSteps
<1>20. ASSUME NEW t \in Tty, NEW key \in Key, TermtestKey(t, key) PROVE CountedNow'
  <2>1. ~torn /\ Alone(t) /\ Asking(t, "termtest")
    BY <1>20, KeyComes DEF TermtestKey
  <2>3. pc' = [pc EXCEPT ![t] = "home"]
    BY <1>20 DEF TermtestKey
  <2>4. CASE EndDialog
    BY <2>1, <2>3, <2>4 DEF CountedNow, Alone
  <2>5. CASE key # "ctrl_c"
    <3>1. CountedNow /\ cmd_pending_state = "TERMTEST"
      BY <2>1 DEF Counted, Asking
    <3>2. pc["uart"] # "flushed"
      <4>1. CASE t = "usb"
        BY <2>1, <4>1 DEF Alone
      <4>2. CASE t = "uart"
        BY <1>20, <4>2 DEF TermtestKey, KeyFor
      <4> QED
        BY <4>1, <4>2
    <3>3. unshown = termtest_ctx.len
      BY <3>1, <3>2 DEF CountedNow
    <3>4. termtest_ctx.len \in 0 .. TermtestLen
      BY DEF ContextsOK, TermtestContext
    <3>5. unshown' = termtest_ctx'.len
      BY <1>20, <2>5, <3>3, <3>4, Constants DEF TermtestKey, Minus, AtMost
    <3> QED
      BY <2>3, <3>2, <3>5 DEF CountedNow
  <2> QED
    BY <1>20, <2>4, <2>5, Zenon DEF TermtestKey
<1>21. ASSUME NEW ticks \in 0 .. MaxTicks, Receive(ticks) PROVE CountedNow'
  <2>1. ~torn \/ Settled
    BY <1>21, Zenon DEF Receive
  <2>2. pc' = [pc EXCEPT !["uart"] = "home"] /\ pc["uart"] = "receive"
    BY <1>21 DEF Receive, Runs
  <2>3. UNCHANGED <<pending, unshown>> /\ termtest_ctx'.len = termtest_ctx.len
    BY <1>21 DEF Receive, ContextsOK, TermtestContext
  <2>4. CASE Settled
    BY <2>2, <2>3, <2>4 DEF CountedNow, Settled
  <2>5. CASE ~torn
    BY <2>2, <2>3, <2>5 DEF CountedNow, Counted
  <2> QED
    BY <2>1, <2>4, <2>5
<1>22. ASSUME InputDone PROVE CountedNow'
  <2>1. ~torn
    BY <1>22, Zenon DEF InputDone
  <2> QED
    BY <1>22, <2>1, Constants DEF CountedNow, Counted, Free, InputDone, Runs
<1>23. ASSUME CmdPoll PROVE CountedNow'
  <2>1. ~torn
    BY <1>23, Zenon DEF CmdPoll
  <2>2. /\ pc["uart"] = "poll" /\ UNCHANGED <<cmd_pending_state, termtest_ctx>>
        /\ \/ BootExpired /\ pc' = [pc EXCEPT !["uart"] = "expired"] /\ UNCHANGED unshown
           \/ /\ FlushDue /\ pc' = [pc EXCEPT !["uart"] = "flushed"]
              /\ unshown' = Minus(unshown, termtest_ctx.len)
           \/ pc' = [pc EXCEPT !["uart"] = "receive"] /\ UNCHANGED unshown
    BY <1>23, Zenon DEF CmdPoll
  <2>3. CASE FlushDue /\ pc' = [pc EXCEPT !["uart"] = "flushed"]
             /\ unshown' = Minus(unshown, termtest_ctx.len)
    <3>1. cmd_pending_state = "TERMTEST" /\ unshown = termtest_ctx.len /\ unshown \in Nat
      BY <2>1, <2>2, <2>3 DEF FlushDue, Counted, CountedNow
    <3>2. unshown' = 0
      BY <2>3, <3>1 DEF Minus
    <3> QED
      BY <2>2, <2>3, <3>1, <3>2 DEF CountedNow
  <2>4. CASE /\ \E where \in {"expired", "receive"} : pc' = [pc EXCEPT !["uart"] = where]
             /\ UNCHANGED unshown
    BY <2>1, <2>2, <2>4 DEF Counted, CountedNow
  <2> QED
    BY <2>2, <2>3, <2>4
<1>24. ASSUME ExpireBoot PROVE CountedNow'
  <2>1. ~torn
    BY <1>24, Zenon DEF ExpireBoot
  <2> QED
    BY <1>24, <2>1, Constants DEF CountedNow, Counted, Free, ExpireBoot, Runs
<1>25. ASSUME Flushed PROVE CountedNow'
  <2>1. ~torn
    BY <1>25, Zenon DEF Flushed
  <2> QED
    BY <1>25, <2>1, Constants DEF CountedNow, Counted, Free, Flushed, Runs, ContextsOK,
       TermtestContext
<1>26. ASSUME UNCHANGED vars PROVE CountedNow'
  <2>1. ~torn
    BY <1>26, Zenon
  <2> QED
    BY <1>26, <2>1, Constants DEF CountedNow, Counted, Free
<1>30. ASSUME KeyArrives PROVE CountedNow'
  <2>1. ~torn /\ Free
    <3>1. Enter("uart")
      BY <1>30, Zenon DEF KeyArrives
    <3> QED
      BY <3>1, Interrupts
  <2>2. Handler("uart") \in Looking /\ pc' = [pc EXCEPT !["uart"] = Handler("uart")]
    BY <1>30, Looks DEF KeyArrives
  <2>4. UNCHANGED <<pending, ctxs, asked, unshown>>
    BY <1>30 DEF KeyArrives
  <2> QED
    BY <2>1, <2>2, <2>4 DEF CountedNow, Counted, Free
<1>31. ASSUME KeyIgnored PROVE CountedNow'
  <2>1. ~torn
    BY <1>31, Zenon DEF KeyIgnored
  <2>3. /\ pc["uart"] \in Looking /\ pc' = [pc EXCEPT !["uart"] = "home"]
        /\ UNCHANGED <<pending, ctxs, asked, unshown>>
    BY <1>31 DEF KeyIgnored
  <2> QED
    BY <2>1, <2>3 DEF CountedNow, Counted
<1>27. ASSUME NEW t \in Tty, Commands(t) \/ GoOn(t) PROVE CountedNow'
  BY <1>27, <1>1, <1>2, <1>3, <1>4, <1>5, <1>6, <1>7, <1>8, <1>9, <1>10, <1>11, <1>12,
     <1>13, Zenon DEF Commands, GoOn
<1>28. ASSUME NEW t \in Tty, Keys(t) PROVE CountedNow'
  BY <1>28, <1>14, <1>15, <1>16, <1>17, <1>18, <1>19, <1>20, Zenon DEF Keys
<1>29. ASSUME MainLoop PROVE CountedNow'
  BY <1>29, <1>21, <1>22, <1>23, <1>24, <1>25, <1>30, <1>31, Zenon DEF MainLoop
<1> QED
  BY <1>26, <1>27, <1>28, <1>29, Zenon DEF Next

-----------------------------------------------------------------------------
(* The theorems *)

\* The inductive invariant.
Dialogs == TypesOK /\ Owned /\ Held /\ Promised /\ EnterDoesAsAsked /\ Spelled /\ Timely /\ Counted

LEMMA Invariance == Spec => []Dialogs
<1>1. Init => Dialogs
  <2>1. Init => EnterDoesAsAsked
    BY DEF Init, EnterDoesAsAsked
  <2> QED
    BY <2>1, PlacesInit, ContextsInit, OwnedInit, HeldInit, PromisedInit, SpelledInit, TimelyInit,
       CountedInit, Zenon DEF Dialogs, TypesOK
<1>2. Dialogs /\ [Next]_vars => Dialogs'
  BY PlacesNext, ContextsNext, OwnedNext, HeldNext, PromisedNext, AnswersNext, SpelledNext,
     TimelyNext,
     CountedNext, Zenon DEF Dialogs, TypesOK
<1> QED
  BY <1>1, <1>2, PTL DEF Spec

\* Type correctness of the dialogs, for every set of keys and payloads and every
\* length and timeout.
THEOREM TypeCorrect == Spec => []TypeOK
<1>1. Dialogs => TypeOK
  BY ContextsTyped, Zenon DEF Dialogs
<1> QED
  BY <1>1, Invariance, PTL

\* The keys that end a dialog reach it: whenever both terminals are between
\* handlers, and no handler was torn, the pending dialog takes the keys of one.
THEOREM DialogsAreAnswerable == Spec => []Answerable
<1>1. Dialogs => Answerable
  <2> SUFFICES ASSUME TypesOK, Owned, cmd_pending_state # "IDLE", ~torn,
                      \A t \in Tty : pc[t] \notin Inside
               PROVE  \E t \in Tty : Takes(t)
    BY DEF Dialogs, Answerable
  <2>1. Owner
    BY DEF Owned, OwnedNow, Inside, Halfway
  <2>2. cmd_pending_ttyp \in Tty /\ Takes(cmd_pending_ttyp)
    BY <2>1 DEF Owner, Takes, TypesOK, PlacesOK, PendingState
  <2> QED
    BY <2>2, Zenon
<1> QED
  BY <1>1, Invariance, PTL

\* Enter does what its terminal was told it would, unless a dialog of the other
\* terminal came in between: the payload sent is the one previewed, the key
\* stored is the one whose addresses were shown.
THEOREM EnterIsHonest == Spec => []EnterDoesAsAsked
<1>1. Dialogs => EnterDoesAsAsked
  BY Zenon DEF Dialogs
<1> QED
  BY <1>1, Invariance, PTL

\* The bootloader is entered only after Y E S Enter from the terminal that was
\* warned, whatever the other terminal, the main loop and the interrupt do
\* meanwhile, unless USB was warned while a key of the UART's own boot dialog was
\* halfway.
THEOREM OnlyYesBoots == Spec => []BootOnlyOnYes
<1>1. Dialogs => BootOnlyOnYes
  BY Zenon DEF Dialogs, Spelled
<1> QED
  BY <1>1, Invariance, PTL

\* No deadline is missed by more than the turn of the main loop in which it
\* passes, whatever the interrupt does in that turn.
THEOREM DeadlinesAreKept == Spec => []DeadlinesKept
<1>1. Dialogs => DeadlinesKept
  BY Zenon DEF Dialogs, Timely, DeadlinesKept
<1> QED
  BY <1>1, Invariance, PTL

\* TERMTEST shows every byte but LF once, for every size of its buffer, unless
\* the interrupt came in while the main loop was inside a handler.
THEOREM TermtestIsComplete == Spec => []TermtestShowsAll
<1>1. Dialogs => TermtestShowsAll
  BY DEF Dialogs, Counted, CountedNow, TermtestShowsAll
<1> QED
  BY <1>1, Invariance, PTL
=============================================================================
