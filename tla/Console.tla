------------------------------ MODULE Console ------------------------------
(***************************************************************************)
(* The dialogs of the command interpreter (cmd.c): PRIVKEY SHOW and GEN,   *)
(* SIGN with its QSL wizard, SYSTEM USB_BOOTLOADER, TERMTEST.  A dialog    *)
(* takes the keys of the terminal that started it until it ends.  There is *)
(* one cmd_pending_state and one context per kind of dialog for both       *)
(* terminals, and a terminal that does not own the dialog goes on giving   *)
(* commands, which may start the next dialog.                              *)
(*                                                                         *)
(* The UART is read by the main loop (receive, serial_input, cmd_poll in   *)
(* turn), the USB terminal in an interrupt that runs to its end: while     *)
(* pc["usb"] is not "home" the main loop stands still.  Handlers that      *)
(* print or compute for long between reading and writing the shared state  *)
(* are two or three steps, so that the interrupt can come in between.  So  *)
(* are the keys the main loop takes: it sees what dialog they are for (and *)
(* what USB_BOOTLOADER waits for) in one step and acts on it in the next.  *)
(***************************************************************************)
EXTENDS Integers, Sequences

CONSTANTS
    Secret,         \* private keys that can be generated
    Payload,        \* signed payloads
    LongPayload,    \* those whose frame would have 256 bytes or more
    Garbled,        \* the payload buffer after a text that did not fit
    Entropy,        \* privkey_gen_ctx.remaining at the start
    WizardSteps,    \* number of wizard prompts
    Required,       \* how many of them, the first ones, must be answered
    BootTimeout,    \* USB_BOOT_CONFIRM_TIMEOUT_TICKS
    FlushTimeout,   \* TERMTEST_FLUSH_TIMEOUT_TICKS
    TermtestLen,    \* sizeof(termtest_ctx.bytes)
    MaxTicks,       \* bound: ticks in one call of receive()
    MaxDialogs      \* bound: dialogs started

None == "none"      \* NULL, no key, no prompt

ASSUME ConsoleAssumption ==
    /\ LongPayload \subseteq Payload /\ Garbled \notin Payload
    /\ None \notin Secret /\ None \notin Payload \cup {Garbled}
    /\ \A n \in {Entropy, WizardSteps, BootTimeout, FlushTimeout, TermtestLen, MaxTicks} :
           n \in Nat \ {0}
    /\ Required \in 0 .. WizardSteps /\ MaxDialogs \in Nat

VARIABLES
    cmd_pending_state, cmd_pending_ttyp,
    privkey_gen_ctx, sign_tx_ctx, usb_boot_confirm_ctx, sign_qsl_wizard_ctx, termtest_ctx,
    privkey,        \* param.mona_privkey, None while not valid
    booted,         \* the terminal for which reset_usb_boot was called
    pc,             \* where the main loop ("uart") and the USB interrupt are
    asked,          \* history: the last prompt each terminal was shown
    as_asked,       \* history: the last affirmative key did what it was asked for,
                    \* or if not: dialogs were mixed up by then, or they were not
    yes,            \* history: right keys since the last USB boot warning, -1 after
                    \* a wrong one, Slipped if a key of the UART was halfway then
    unshown,        \* history: TERMTEST bytes typed and not shown yet
    torn,           \* history: the interrupt ran inside a handler of the main loop
    crossed,        \* history: a dialog was started while another was pending
    dialogs         \* dialogs started

pending == <<cmd_pending_state, cmd_pending_ttyp>>
ctxs == <<privkey_gen_ctx, sign_tx_ctx, usb_boot_confirm_ctx, sign_qsl_wizard_ctx,
          termtest_ctx>>
history == <<asked, as_asked, yes, unshown>>
flags == <<torn, crossed, dialogs>>
vars == <<pending, ctxs, privkey, booted, pc, history, flags>>

Tty == {"usb", "uart"}
Key == {"esc", "cr", "lf", "sp", "bs", "ctrl_c", "Y", "E", "S"}
Printable == {"sp", "Y", "E", "S"}

PendingState == {"IDLE", "PRIVKEY_SHOW_CONFIRM", "PRIVKEY_GEN_COLLECTING",
                 "SIGN_QSL_WIZARD", "SIGN_TX_CONFIRM", "USB_BOOT_CONFIRM", "TERMTEST"}

\* home: between two keys (the main loop: in serial_input).  receive, poll: the
\* main loop's other stations.  The others are inside a handler; in those of
\* Looking the main loop has seen what a key is for and has done nothing yet.
Station == {"receive", "home", "poll"}
WaitFor == [Y |-> "wait_Y", E |-> "wait_E", S |-> "wait_S", cr |-> "wait_cr"]
Waiting == {"wait_Y", "wait_E", "wait_S", "wait_cr"}
Looking == {"accept", "show", "collect", "prompt", "confirm", "termtest"} \cup Waiting
Halfway == {"gen", "wizard", "signing", "preview", "sent", "shown", "expired", "flushed"}
Inside == Looking \cup Halfway
Slipped == 5

Prompt == [kind : {None, "show", "boot"}, data : {None}]
              \cup [kind : {"accept"}, data : Secret]
              \cup [kind : {"transmit"}, data : Payload]
Asked(k, d) == [kind |-> k, data |-> d]

NoGen == [ttyp |-> None, remaining |-> 0, pending_secret |-> None]
NoTx == [ttyp |-> None, payload |-> None]
NoBoot == [ttyp |-> None, state |-> "Y", left |-> 0]
NoWizard == [ttyp |-> None, step |-> 0, input_len |-> 0]
NoTermtest == [ttyp |-> None, len |-> 0, idle |-> 0]

\* has_pending_secret is pending_secret # None; left and idle are deadline_tick
\* and last_tick seen from tnc_time().
TypeOK ==
    /\ cmd_pending_state \in PendingState /\ cmd_pending_ttyp \in Tty \cup {None}
    /\ privkey_gen_ctx \in [ttyp : Tty \cup {None}, remaining : 0 .. Entropy,
                            pending_secret : Secret \cup {None}]
    /\ sign_tx_ctx \in [ttyp : Tty \cup {None}, payload : Payload \cup {Garbled, None}]
    /\ usb_boot_confirm_ctx \in [ttyp : Tty \cup {None}, state : {"Y", "E", "S", "cr"},
                                 left : 0 .. BootTimeout]
    /\ sign_qsl_wizard_ctx \in [ttyp : Tty \cup {None}, step : 0 .. WizardSteps - 1,
                                input_len : 0 .. 1]
    /\ termtest_ctx \in [ttyp : Tty \cup {None}, len : 0 .. TermtestLen,
                         idle : 0 .. FlushTimeout]
    /\ privkey \in Secret \cup {None} /\ booted \in Tty \cup {None}
    /\ asked \in [Tty -> Prompt]
    /\ pc["usb"] \in {"home"} \cup Halfway /\ pc["uart"] \in Station \cup Inside

Init ==
    /\ cmd_pending_state = "IDLE" /\ cmd_pending_ttyp = None
    /\ privkey_gen_ctx = NoGen /\ sign_tx_ctx = NoTx /\ usb_boot_confirm_ctx = NoBoot
    /\ sign_qsl_wizard_ctx = NoWizard /\ termtest_ctx = NoTermtest
    /\ privkey \in Secret \cup {None} /\ booted = None
    /\ pc = [usb |-> "home", uart |-> "receive"]
    /\ asked = [t \in Tty |-> Asked(None, None)]
    /\ as_asked = "yes"
    /\ yes = [t \in Tty |-> -1] /\ unshown = 0
    /\ torn = FALSE /\ crossed = FALSE /\ dialogs = 0
-----------------------------------------------------------------------------
(* Common parts of the handlers *)

AtMost(m, n) == IF n > m THEN m ELSE n
Minus(a, b) == IF a > b THEN a - b ELSE 0

Runs(t) == booted = None /\ (t = "uart" => pc["usb"] = "home")

\* The dialog takes t's keys; a dialog whose context names another terminal
\* takes nobody's.
Takes(t) ==
    /\ cmd_pending_ttyp = t
    /\ CASE cmd_pending_state = "IDLE" -> FALSE
         [] cmd_pending_state = "PRIVKEY_GEN_COLLECTING" -> privkey_gen_ctx.ttyp = t
         [] cmd_pending_state = "SIGN_QSL_WIZARD" -> sign_qsl_wizard_ctx.ttyp = t
         [] cmd_pending_state = "USB_BOOT_CONFIRM" -> usb_boot_confirm_ctx.ttyp = t
         [] cmd_pending_state = "TERMTEST" -> termtest_ctx.ttyp = t
         [] OTHER -> TRUE

\* Terminal t begins to handle an input; torn is set if that interrupts a handler.
Enter(t) ==
    /\ Runs(t) /\ pc[t] = "home"
    /\ torn' = (torn \/ (t = "usb" /\ pc["uart"] \in Inside))

\* A line given by t is a command.
Command(t) == Enter(t) /\ ~Takes(t)

\* PRIVKEY_SHOW_CONFIRM is the state of two dialogs; the context tells them apart.
Generated(t) == privkey_gen_ctx.pending_secret # None /\ privkey_gen_ctx.ttyp = t

\* The part of cmd_consume_pending_input that handles a key of t.
Handler(t) ==
    CASE cmd_pending_state = "PRIVKEY_SHOW_CONFIRM" ->
             IF Generated(t) THEN "accept" ELSE "show"
      [] cmd_pending_state = "PRIVKEY_GEN_COLLECTING" -> "collect"
      [] cmd_pending_state = "SIGN_QSL_WIZARD" -> "prompt"
      [] cmd_pending_state = "SIGN_TX_CONFIRM" -> "confirm"
      [] cmd_pending_state = "USB_BOOT_CONFIRM" -> WaitFor[usb_boot_confirm_ctx.state]
      [] OTHER -> "termtest"

\* A key typed by t is handled as handler says.  The main loop has looked
\* before (KeyArrives); whatever the interrupt did since, it goes on as it saw.
KeyFor(t, handler) ==
    \/ t = "usb" /\ Enter(t) /\ Takes(t) /\ Handler(t) = handler
    \/ t = "uart" /\ Runs(t) /\ pc[t] = handler /\ UNCHANGED torn

StartDialog ==
    /\ dialogs < MaxDialogs
    /\ dialogs' = dialogs + 1
    /\ crossed' = (crossed \/ cmd_pending_state # "IDLE")

Pend(t, state) == cmd_pending_state' = state /\ cmd_pending_ttyp' = t
EndDialog == Pend(None, "IDLE")
Goto(t, where) == pc' = [pc EXCEPT ![t] = where]
Resume(t, from) == Runs(t) /\ pc[t] = from /\ Goto(t, "home")
Show(t, k, d) == asked' = [asked EXCEPT ![t] = Asked(k, d)]
Answer(t, k, d) ==
    as_asked' = IF asked[t] = Asked(k, d) THEN "yes"
                                          ELSE IF torn' \/ crossed THEN "mixed" ELSE "no"

\* The main loop looks what the next key is for.
KeyArrives ==
    /\ Enter("uart") /\ Takes("uart") /\ Goto("uart", Handler("uart"))
    /\ UNCHANGED <<pending, ctxs, privkey, booted, history, crossed, dialogs>>

\* Keys a handler does not know; two states of USB_BOOTLOADER know every key.
KeyIgnored ==
    /\ Runs("uart") /\ pc["uart"] \in Looking \ {"wait_E", "wait_S"} /\ Goto("uart", "home")
    /\ UNCHANGED <<pending, ctxs, privkey, booted, history, flags>>
-----------------------------------------------------------------------------
(* PRIVKEY *)

PrivkeySet(t) ==
    /\ Command(t)
    /\ privkey' \in Secret
    /\ UNCHANGED <<pending, ctxs, booted, pc, history, crossed, dialogs>>

PrivkeyShow(t) ==
    /\ Command(t) /\ StartDialog
    /\ privkey # None
    /\ Pend(t, "PRIVKEY_SHOW_CONFIRM")
    /\ Show(t, "show", None)
    /\ UNCHANGED <<ctxs, privkey, booted, pc, as_asked, yes, unshown>>

PrivkeyGen(t) ==
    /\ Command(t) /\ StartDialog
    /\ privkey_gen_ctx' = [NoGen EXCEPT !.ttyp = t, !.remaining = Entropy]
    /\ Goto(t, "gen")
    /\ UNCHANGED <<pending, sign_tx_ctx, usb_boot_confirm_ctx, sign_qsl_wizard_ctx,
                   termtest_ctx, privkey, booted, history>>

GenStarted(t) ==
    /\ Resume(t, "gen")
    /\ Pend(t, "PRIVKEY_GEN_COLLECTING")
    /\ UNCHANGED <<ctxs, privkey, booted, history, flags>>

privkey_gen_abort == EndDialog /\ privkey_gen_ctx' = NoGen /\ UNCHANGED asked

\* The next secret, from entropy or by respin; its addresses are shown to t.
Propose(t, s) ==
    /\ privkey_gen_ctx' = [privkey_gen_ctx EXCEPT !.remaining = 0, !.pending_secret = s]
    /\ Show(t, "accept", s)

\* ESC, or a secret that cannot be derived at the end, aborts.
GenKey(t, key) ==
    /\ KeyFor(t, "collect") /\ Goto(t, "home")
    /\ \/ key # "lf" /\ privkey_gen_abort
       \/ /\ key \notin {"esc", "lf"}
          /\ \E dec \in 1 .. Entropy :
                 /\ dec < privkey_gen_ctx.remaining
                 /\ privkey_gen_ctx' = [privkey_gen_ctx EXCEPT !.remaining = @ - dec]
          /\ UNCHANGED <<pending, asked>>
       \/ /\ key \notin {"esc", "lf"}
          /\ \E s \in Secret : Propose(t, s)
          /\ cmd_pending_state' = "PRIVKEY_SHOW_CONFIRM" /\ UNCHANGED cmd_pending_ttyp
    /\ UNCHANGED <<sign_tx_ctx, usb_boot_confirm_ctx, sign_qsl_wizard_ctx, termtest_ctx,
                   privkey, booted, as_asked, yes, unshown, crossed, dialogs>>

AcceptKeyNoReset(t, key) ==
    /\ KeyFor(t, "accept") /\ Goto(t, "home")
    /\ \/ /\ key = "sp" /\ privkey_gen_ctx.pending_secret # None
          /\ \E s \in Secret : Propose(t, s)
          /\ UNCHANGED <<pending, privkey, as_asked>>
       \/ key = "esc" /\ privkey_gen_abort /\ UNCHANGED <<privkey, as_asked>>
       \/ /\ key = "cr" /\ privkey_gen_ctx.pending_secret # None
          /\ privkey' = privkey_gen_ctx.pending_secret
          /\ Answer(t, "accept", privkey_gen_ctx.pending_secret)
          /\ EndDialog /\ UNCHANGED <<privkey_gen_ctx, asked>>
    /\ UNCHANGED <<sign_tx_ctx, usb_boot_confirm_ctx, sign_qsl_wizard_ctx, termtest_ctx,
                   booted, yes, unshown, crossed, dialogs>>

AcceptKey(t, key) ==
    /\ KeyFor(t, "accept") /\ Goto(t, "home")
    /\ \/ /\ key = "sp" /\ privkey_gen_ctx.pending_secret # None
          /\ \E s \in Secret : Propose(t, s)
          /\ UNCHANGED <<pending, privkey, as_asked>>
       \/ key \in {"sp", "esc", "cr"} /\ privkey_gen_abort /\ UNCHANGED <<privkey, as_asked>>
       \/ /\ key = "cr" /\ privkey_gen_ctx.pending_secret # None
          /\ privkey' = privkey_gen_ctx.pending_secret
          /\ Answer(t, "accept", privkey_gen_ctx.pending_secret)
          /\ privkey_gen_abort
    /\ UNCHANGED <<sign_tx_ctx, usb_boot_confirm_ctx, sign_qsl_wizard_ctx, termtest_ctx,
                   booted, yes, unshown, crossed, dialogs>>

ShowKey(t, key) ==
    /\ KeyFor(t, "show")
    /\ \/ key = "cr" /\ Answer(t, "show", None) /\ Goto(t, "shown") /\ UNCHANGED pending
       \/ key \notin {"cr", "lf"} /\ EndDialog /\ Goto(t, "home") /\ UNCHANGED as_asked
    /\ UNCHANGED <<ctxs, privkey, booted, asked, yes, unshown, crossed, dialogs>>

Shown(t) ==
    /\ Resume(t, "shown")
    /\ EndDialog
    /\ UNCHANGED <<ctxs, privkey, booted, history, flags>>
-----------------------------------------------------------------------------
(* SIGN *)

SignWizard(t) ==
    /\ Command(t) /\ StartDialog
    /\ privkey # None
    /\ sign_qsl_wizard_ctx' = [NoWizard EXCEPT !.ttyp = t]
    /\ Goto(t, "wizard")
    /\ UNCHANGED <<pending, privkey_gen_ctx, sign_tx_ctx, usb_boot_confirm_ctx,
                   termtest_ctx, privkey, booted, history>>

WizardStarted(t) ==
    /\ Resume(t, "wizard")
    /\ Pend(t, "SIGN_QSL_WIZARD")
    /\ UNCHANGED <<ctxs, privkey, booted, history, flags>>

\* A required field is not left empty, except that date and time, the last of
\* them, may be left to the soft clock, if it is set.
Answered(w) == w.input_len > 0 \/ w.step >= Required - 2

\* After the last prompt the card is signed like any message, unless a
\* field is invalid.
WizardKey(t, key) ==
    /\ KeyFor(t, "prompt")
    /\ LET w == sign_qsl_wizard_ctx IN
       \/ /\ key = "esc"
          /\ EndDialog /\ sign_qsl_wizard_ctx' = NoWizard /\ Goto(t, "home")
       \/ /\ key = "bs" /\ w.input_len > 0
          /\ sign_qsl_wizard_ctx' = [w EXCEPT !.input_len = @ - 1]
          /\ Goto(t, "home") /\ UNCHANGED pending
       \/ /\ key \in Printable
          /\ sign_qsl_wizard_ctx' = [w EXCEPT !.input_len = 1]
          /\ Goto(t, "home") /\ UNCHANGED pending
       \/ /\ key = "cr" /\ w.step + 1 < WizardSteps
          /\ Answered(w)
          /\ sign_qsl_wizard_ctx' = [w EXCEPT !.step = @ + 1, !.input_len = 0]
          /\ Goto(t, "home") /\ UNCHANGED pending
       \/ /\ key = "cr" /\ w.step + 1 = WizardSteps
          /\ Answered(w)
          /\ EndDialog /\ sign_qsl_wizard_ctx' = NoWizard
          /\ (Goto(t, "home") \/ (privkey # None /\ Goto(t, "signing")))
    /\ UNCHANGED <<privkey_gen_ctx, sign_tx_ctx, usb_boot_confirm_ctx, termtest_ctx,
                   privkey, booted, history, crossed, dialogs>>

Sign(t) ==
    /\ Command(t) /\ StartDialog
    /\ privkey # None
    /\ Goto(t, "signing")
    /\ UNCHANGED <<pending, ctxs, privkey, booted, history>>

\* The signature is there: the payload goes into the one buffer, and if it fits
\* it is shown.
SignWrite(t) ==
    /\ Runs(t) /\ pc[t] = "signing"
    /\ \/ Goto(t, "home") /\ UNCHANGED <<sign_tx_ctx, asked>>
       \/ /\ sign_tx_ctx' = [sign_tx_ctx EXCEPT !.payload = Garbled]
          /\ Goto(t, "home") /\ UNCHANGED asked
       \/ \E p \in Payload :
              /\ sign_tx_ctx' = [ttyp |-> t, payload |-> p]
              /\ Show(t, "transmit", p)
              /\ Goto(t, "preview")
    /\ UNCHANGED <<pending, privkey_gen_ctx, usb_boot_confirm_ctx, sign_qsl_wizard_ctx,
                   termtest_ctx, privkey, booted, as_asked, yes, unshown, flags>>

SignPrompt(t) ==
    /\ Resume(t, "preview")
    /\ IF sign_tx_ctx.payload \in LongPayload
         THEN UNCHANGED pending
         ELSE Pend(t, "SIGN_TX_CONFIRM")
    /\ UNCHANGED <<ctxs, privkey, booted, history, flags>>

\* send_unproto, then (Sent) the end of the dialog.
TxKey(t, key) ==
    /\ KeyFor(t, "confirm")
    /\ \/ /\ key = "esc"
          /\ EndDialog /\ sign_tx_ctx' = NoTx /\ Goto(t, "home") /\ UNCHANGED as_asked
       \/ /\ key = "cr"
          /\ Answer(t, "transmit", sign_tx_ctx.payload)
          /\ Goto(t, "sent") /\ UNCHANGED <<pending, sign_tx_ctx>>
    /\ UNCHANGED <<privkey_gen_ctx, usb_boot_confirm_ctx, sign_qsl_wizard_ctx, termtest_ctx,
                   privkey, booted, asked, yes, unshown, crossed, dialogs>>

Sent(t) ==
    /\ Resume(t, "sent")
    /\ EndDialog /\ sign_tx_ctx' = NoTx
    /\ UNCHANGED <<privkey_gen_ctx, usb_boot_confirm_ctx, sign_qsl_wizard_ctx, termtest_ctx,
                   privkey, booted, history, flags>>
-----------------------------------------------------------------------------
(* SYSTEM USB_BOOTLOADER *)

SystemUsbBootKeepsState(t) ==
    /\ Command(t) /\ StartDialog
    /\ usb_boot_confirm_ctx' = [usb_boot_confirm_ctx EXCEPT !.ttyp = t, !.left = BootTimeout]
    /\ Pend(t, "USB_BOOT_CONFIRM")
    /\ Show(t, "boot", None)
    /\ yes' = [yes EXCEPT ![t] = IF t = "usb" /\ pc["uart"] \in Waiting THEN Slipped ELSE 0]
    /\ UNCHANGED <<privkey_gen_ctx, sign_tx_ctx, sign_qsl_wizard_ctx, termtest_ctx,
                   privkey, booted, pc, as_asked, unshown>>

SystemUsbBoot(t) ==
    /\ Command(t) /\ StartDialog
    /\ usb_boot_confirm_ctx' = [ttyp |-> t, state |-> "Y", left |-> BootTimeout]
    /\ Pend(t, "USB_BOOT_CONFIRM")
    /\ Show(t, "boot", None)
    /\ yes' = [yes EXCEPT ![t] = IF t = "usb" /\ pc["uart"] \in Waiting THEN Slipped ELSE 0]
    /\ UNCHANGED <<privkey_gen_ctx, sign_tx_ctx, sign_qsl_wizard_ctx, termtest_ctx,
                   privkey, booted, pc, as_asked, unshown>>

BootAfter == [Y |-> "E", E |-> "S", S |-> "cr"]

\* Line ends left over from the command line.
BootIgnores(wanted, key) ==
    \/ key = "lf" /\ wanted \in {"Y", "cr"}
    \/ key = "cr" /\ wanted = "Y"

\* The state is read, compared with the key and written.
BootKey(t, key) ==
    /\ Goto(t, "home")
    /\ \E wanted \in DOMAIN WaitFor :
       /\ KeyFor(t, WaitFor[wanted]) /\ ~BootIgnores(wanted, key)
       /\ \/ /\ key = wanted /\ key # "cr"
             /\ usb_boot_confirm_ctx' = [usb_boot_confirm_ctx EXCEPT !.state = BootAfter[key]]
             /\ UNCHANGED <<pending, booted, as_asked>>
          \/ /\ key = wanted /\ key = "cr"
             /\ EndDialog /\ usb_boot_confirm_ctx' = NoBoot /\ booted' = t
             /\ Answer(t, "boot", None)
          \/ /\ key # wanted
             /\ EndDialog /\ usb_boot_confirm_ctx' = NoBoot /\ UNCHANGED <<booted, as_asked>>
    /\ yes' = [yes EXCEPT ![t] =
                  IF @ = Slipped THEN @
                  ELSE IF @ \in 0 .. 3 /\ key = <<"Y", "E", "S", "cr">>[@ + 1] THEN @ + 1
                  ELSE -1]
    /\ UNCHANGED <<privkey_gen_ctx, sign_tx_ctx, sign_qsl_wizard_ctx, termtest_ctx,
                   privkey, asked, unshown, crossed, dialogs>>
-----------------------------------------------------------------------------
(* TERMTEST *)

TermtestStart(t) ==
    /\ Command(t) /\ StartDialog
    /\ termtest_ctx' = [NoTermtest EXCEPT !.ttyp = t]
    /\ unshown' = 0
    /\ Pend(t, "TERMTEST")
    /\ UNCHANGED <<privkey_gen_ctx, sign_tx_ctx, usb_boot_confirm_ctx, sign_qsl_wizard_ctx,
                   privkey, booted, pc, asked, as_asked, yes>>

TermtestKeyUnbounded(t, key) ==
    /\ KeyFor(t, "termtest") /\ Goto(t, "home") /\ key # "lf" /\ key # "ctrl_c"
    /\ termtest_ctx' = [ttyp |-> termtest_ctx.ttyp, len |-> termtest_ctx.len + 1, idle |-> 0]
    /\ unshown' = AtMost(TermtestLen + 1, unshown + 1)
    /\ UNCHANGED <<pending, privkey_gen_ctx, sign_tx_ctx, usb_boot_confirm_ctx,
                   sign_qsl_wizard_ctx, privkey, booted, asked, as_asked, yes, crossed,
                   dialogs>>

TermtestKeyDropsFull(t, key) ==
    /\ KeyFor(t, "termtest") /\ Goto(t, "home") /\ key # "lf" /\ key # "ctrl_c"
    /\ termtest_ctx' = [ttyp |-> termtest_ctx.ttyp,
                         len |-> (termtest_ctx.len % TermtestLen) + 1, idle |-> 0]
    /\ unshown' = AtMost(TermtestLen + 1, unshown + 1)
    /\ UNCHANGED <<pending, privkey_gen_ctx, sign_tx_ctx, usb_boot_confirm_ctx,
                   sign_qsl_wizard_ctx, privkey, booted, asked, as_asked, yes, crossed,
                   dialogs>>

TermtestKey(t, key) ==
    /\ KeyFor(t, "termtest") /\ Goto(t, "home") /\ key # "lf"
    /\ LET full == termtest_ctx.len >= TermtestLen
           flushed == IF full THEN 0 ELSE termtest_ctx.len
       IN \/ /\ key = "ctrl_c"
             /\ EndDialog /\ termtest_ctx' = NoTermtest
             /\ unshown' = Minus(unshown, termtest_ctx.len)
          \/ /\ key # "ctrl_c"
             /\ termtest_ctx' = [ttyp |-> termtest_ctx.ttyp, len |-> flushed + 1, idle |-> 0]
             /\ unshown' = AtMost(TermtestLen + 1, Minus(unshown, termtest_ctx.len - flushed) + 1)
             /\ UNCHANGED pending
    /\ UNCHANGED <<privkey_gen_ctx, sign_tx_ctx, usb_boot_confirm_ctx, sign_qsl_wizard_ctx,
                   privkey, booted, asked, as_asked, yes, crossed, dialogs>>
-----------------------------------------------------------------------------
(* The main loop *)

\* Nothing is left of dialogs that got in each other's way.
Settled ==
    /\ cmd_pending_state = "IDLE" /\ privkey_gen_ctx.pending_secret = None

\* receive(): time passes.
Receive(ticks) ==
    /\ Runs("uart") /\ pc["uart"] = "receive" /\ Goto("uart", "home")
    /\ usb_boot_confirm_ctx' = [usb_boot_confirm_ctx EXCEPT !.left = Minus(@, ticks)]
    /\ termtest_ctx' = [termtest_ctx EXCEPT !.idle = AtMost(FlushTimeout, @ + ticks)]
    /\ torn' = (torn /\ ~Settled) /\ crossed' = (crossed /\ ~Settled)
    /\ UNCHANGED <<pending, privkey_gen_ctx, sign_tx_ctx, sign_qsl_wizard_ctx, privkey,
                   booted, history, dialogs>>

\* serial_input() has read all there was.
InputDone ==
    /\ Runs("uart") /\ pc["uart"] = "home" /\ Goto("uart", "poll")
    /\ UNCHANGED <<pending, ctxs, privkey, booted, history, flags>>

BootExpired == cmd_pending_state = "USB_BOOT_CONFIRM" /\ usb_boot_confirm_ctx.ttyp # None
                   /\ usb_boot_confirm_ctx.left = 0
FlushDue == cmd_pending_state = "TERMTEST" /\ termtest_ctx.ttyp # None
                /\ termtest_ctx.len > 0 /\ termtest_ctx.idle >= FlushTimeout

CmdPollBootOnly ==
    /\ Runs("uart") /\ pc["uart"] = "poll"
    /\ IF BootExpired THEN Goto("uart", "expired") ELSE Goto("uart", "receive")
    /\ UNCHANGED <<pending, ctxs, privkey, booted, history, flags>>

\* cmd_poll() looks; ExpireBoot and Flushed are the second halves of what it does.
CmdPoll ==
    /\ Runs("uart") /\ pc["uart"] = "poll"
    /\ \/ BootExpired /\ Goto("uart", "expired") /\ UNCHANGED unshown
       \/ /\ FlushDue /\ Goto("uart", "flushed")
          /\ unshown' = Minus(unshown, termtest_ctx.len)
       \/ ~BootExpired /\ ~FlushDue /\ Goto("uart", "receive") /\ UNCHANGED unshown
    /\ UNCHANGED <<pending, ctxs, privkey, booted, asked, as_asked, yes, flags>>

ExpireBootContextOnly ==
    /\ Runs("uart") /\ pc["uart"] = "expired" /\ Goto("uart", "receive")
    /\ usb_boot_confirm_ctx' = NoBoot
    /\ UNCHANGED <<pending, privkey_gen_ctx, sign_tx_ctx, sign_qsl_wizard_ctx, termtest_ctx,
                   privkey, booted, history, flags>>

ExpireBoot ==
    /\ Runs("uart") /\ pc["uart"] = "expired" /\ Goto("uart", "receive")
    /\ EndDialog /\ usb_boot_confirm_ctx' = NoBoot
    /\ UNCHANGED <<privkey_gen_ctx, sign_tx_ctx, sign_qsl_wizard_ctx, termtest_ctx, privkey,
                   booted, history, flags>>

Flushed ==
    /\ Runs("uart") /\ pc["uart"] = "flushed" /\ Goto("uart", "receive")
    /\ termtest_ctx' = [termtest_ctx EXCEPT !.len = 0]
    /\ UNCHANGED <<pending, privkey_gen_ctx, sign_tx_ctx, usb_boot_confirm_ctx,
                   sign_qsl_wizard_ctx, privkey, booted, history, flags>>

Commands(t) ==
    \/ PrivkeySet(t) \/ PrivkeyShow(t) \/ PrivkeyGen(t) \/ SignWizard(t) \/ Sign(t)
    \/ SystemUsbBoot(t) \/ TermtestStart(t)

Keys(t) ==
    \E key \in Key :
        \/ GenKey(t, key) \/ AcceptKey(t, key) \/ ShowKey(t, key) \/ WizardKey(t, key)
        \/ TxKey(t, key) \/ BootKey(t, key) \/ TermtestKey(t, key)

GoOn(t) ==
    \/ GenStarted(t) \/ Shown(t) \/ WizardStarted(t) \/ SignWrite(t) \/ SignPrompt(t)
    \/ Sent(t)

MainLoop ==
    \/ \E ticks \in 0 .. MaxTicks : Receive(ticks)
    \/ KeyArrives \/ KeyIgnored \/ InputDone \/ CmdPoll \/ ExpireBoot \/ Flushed

Next == (\E t \in Tty : Commands(t) \/ Keys(t) \/ GoOn(t)) \/ MainLoop

Spec == Init /\ [][Next]_vars
-----------------------------------------------------------------------------
(* Properties *)

\* The keys that end a dialog reach it: between handlers, whatever dialogs of the two terminals
\* have replaced each other, the one pending has an owner, whose keys it takes.
\* (Two starts torn into each other leave a dialog that only a new command ends.)
Answerable ==
    (cmd_pending_state # "IDLE" /\ ~torn /\ \A t \in Tty : pc[t] \notin Inside)
        => \E t \in Tty : Takes(t)

\* Enter (or the last key of YES) does what the last prompt on that terminal
\* announced: the payload sent is the one previewed, the key stored is the one
\* whose addresses were shown, PRIVKEY SHOW changes nothing.  Claimed as long as
\* no dialog of the other terminal has come in between; what it may leave behind,
\* an overwritten payload or a generated key, is settled only by the idle state.
EnterDoesAsAsked == as_asked # "no"

\* The same without that proviso.
EnterAlwaysDoesAsAsked == as_asked = "yes"

\* The processor is reset only for Y E S Enter, each typed in that order by
\* the terminal that was warned, and nothing else since; except on a warning that
\* USB was given while the main loop was handling a key of the UART's own
\* USB_BOOTLOADER dialog, and had read that dialog's state before.
BootOnlyOnYes == booted # None => yes[booted] \in {4, Slipped}

\* The same without that exception.
BootAlwaysOnYes == booted # None => yes[booted] = 4

\* No dialog outlives its deadline by more than the turn of the main loop in
\* which it passes: the USB boot dialog is gone, and TERMTEST has shown its bytes.
DeadlinesKept ==
    pc["uart"] = "receive" => ~BootExpired /\ ~FlushDue

\* Every byte typed in TERMTEST but LF, which is dropped, is shown or waits to
\* be shown, once, unless the interrupt came in while the main loop flushed them
\* or handled a key.
TermtestShowsAll ==
    (cmd_pending_state = "TERMTEST" /\ ~torn /\ pc["uart"] # "flushed")
        => unshown = termtest_ctx.len
=============================================================================
