# pico_tnc in TLA+

`src/pico_tnc` is the firmware of a packet radio TNC (terminal node controller)
for the Raspberry Pi Pico. It demodulates Bell 202 tones from an ADC, decodes
AX.25 frames, shows them on two terminals (USB and UART) or hands them over in
KISS, repeats them as a digipeater, and sends frames of its own: it waits for a
clear channel, keys the transmitter (PTT) and plays tones through a PWM. This
directory holds TLA+ models of its parts, the TLC runs that check them and the
theorems TLAPS proves about them.

## The system

### Where code runs

There is one core and no operating system. Four contexts share memory:

| context | code | may be interrupted by |
|---|---|---|
| main loop (`main.c:109-157`) | `receive`, `send`, `serial_input/output`, `beacon`, `calibrate`, `help_poll`, `cmd_poll`, `__wfi`, one after the other, for ever | all interrupts |
| `DMA_IRQ_0` (`send.c:50-84`) | next block of tones, or PTT off | `DMA_IRQ_1` |
| `DMA_IRQ_1` (`receive.c:67-88`) | next buffer of samples | - |
| USB interrupt, low priority | `tud_cdc_rx_cb` -> `tty_input` -> any command, `tud_cdc_tx_complete_cb` | both DMA interrupts |

The UART terminal is read in the main loop, the USB terminal in an interrupt;
both call `tty_input`, so every command, every KISS frame and every line of
converse mode can run in the middle of the main loop's own work. Most of what
is hard about this code comes from there. The rest comes from the two DMA
channels, which go on whether the main loop has been in time or not, and from
power failures while settings are written to flash.

### Components

| component | source | state | operations | correct when |
|---|---|---|---|---|
| Modulator | `send.c:50-309` | `dma_blocks`, `next`, `dac_queue`, `busy`, PTT, two DMA channels | `send_byte`, `send_start`, `dma_handler` | bytes are played once, in order, keyed; a block is not overwritten while it plays or waits |
| Transmit state machine | `send.c:317-456`, `cmd.c:1062-1092`, `tty.c:521-541` | `send_state`, `send_len`, `send_data`, `send_time`, `cal_time`, `do_nrzi`, `calibrate_mode` | one per case of `send`, CALIBRATE and its keys | every frame is sent whole, once, in order, on a clear channel; PTT is released; calibrate mode and state agree |
| Send queue and producers | `send.c:96-123`, `unproto.c`, `ax25.c:44-76` | `send_queue`, `param.unproto`, the DMA sniffer | `send_packet`, `send_unproto`, `ax25_fcs` | frames come out as they went in |
| Sample buffers and clock | `receive.c` | `buf`, two `buf_next`, a semaphore, `__tnc_time` | `dma_handler`, `receive` | each buffer is read once, in order; no tick is lost |
| Demodulator | `decode.c:376-504`, `bell202.c`, `filter.c` | filters, PLL, `cdt` | per sample | numerical |
| Bit layer | `send.c:125-201`, `decode.c:315-386` | `cnt_one`, `level` / `flag`, `state`, `data`, `data_byte`, `data_bit_cnt`, `nrzi` | per bit | what is sent is found |
| Frames | `ax25.c`, `digipeat.c`, `decode.c:198-311` | `tp->data` while a frame is handled | `output_packet`, `digipeat`, `display_packet` | a frame is repeated at most once per hop, unchanged but for one H bit |
| KISS | `kiss.c` | `kiss_state`, `kiss_buf`, `kiss_idx`, `kiss_timeout`, `kiss_mode` | `kiss_input`, `kiss_packet`, `kiss_output` | frames are framed and unframed without loss or mixing |
| Terminals | `tty.c` | command line and cursor, escape state, shared history ring with a position for each terminal | `tty_input` | the line shown is the one the user is at in the history; the draft comes back |
| Commands and dialogs | `cmd.c` | `param`, `cmd_pending_state` with its owner and contexts | one per command; `cmd_consume_pending_input`, `cmd_poll` | a dialog ends, for its owner, doing what was confirmed |
| Help | `help.c` | index, tables, terminal, flags | `help_handle_command`, `help_poll` | each help text comes whole, then OK |
| USB and UART output | `usb_output.c`, `serial.c` | a queue each, the endpoint's FIFO | writes, tx-complete, `serial_output` | order is kept |
| Beacon, GPS | `beacon.c`, `gps.c` | a time each | `beacon`, `gps_send` | one frame per interval |
| Settings | `flash.c`, `cmd.c:886-897` | a flash sector of pages | `flash_read`, `flash_write` | a restart reads what PERM wrote last |
| Signatures, QSL cards | `mona_backend_minimal.c`, `qsl_card.c`, `libmona_pico`, `secp256k1` | none that lasts | - | cryptography, formatting |

How they interact: the producers (terminal in converse mode, KISS, beacon, GPS,
digipeater, SIGN) fill `send_queue`; `send` drains it into the modulator, whose
DMA interrupt ends the transmission; the ADC's interrupt feeds `receive`, which
advances the clock everything else times out by, and the demodulator, whose
`cdt` holds `send` back and whose bits become frames; `output_packet` gives a
frame to the digipeater, KISS and the monitor.

## The modules

| module | models | abstracts |
|---|---|---|
| `AudioPipe` | what the transmit state machine relies on: a bounded FIFO of chunks (a byte's worth of tone), keyed while it plays | - |
| `Dac` | the modulator as it is: a ring of blocks, `next`, the queue of pointers, control and data channel, the interrupt, PTT and `busy` | samples (a block holds one chunk) |
| `Wire` | the two length bytes before a frame in `send_queue`, with `Radix` for 256 | - |
| `SendQueue` | producers byte by byte, the interrupt between any two bytes, the sniffer, the consumer | each address, the information field and the FCS are one byte |
| `Transmitter` | the state machine of `send`, the main loop around it, the DMA interrupt, CALIBRATE, on top of `AudioPipe`; a station that listens | frames are queued whole |
| `AdcRing` | the sample buffers | samples (a buffer holds the number of its fill) |
| `Hdlc` | a transmitter's bits, a receiver's bits | modulation; a tone sent is the tone heard |
| `Console` | the dialogs of PRIVKEY, SIGN, SYSTEM and TERMTEST for two terminals, their contexts, `cmd_poll` | key material, texts; a payload is its identity and whether it fits; the fields of the QSL wizard are empty or not |
| `Kiss` | the receiver `kiss_input` as a function of its state and a byte, `kiss_packet`'s verdict on a frame, the bytes `kiss_output` writes, one by one | bytes other than FEND, FESC and their escapes; what a frame asks for is its first byte |
| `Terminal` | `tty_input` on two terminals: editing, ANSI sequences byte by byte, the shared history with a store in steps, CR, the KISS receiver with its timeout, a KISS host on a line that loses bytes | the echo; `cmd()` |
| `UsbOutput` | `usb_write` in steps, the interrupt's writes, completed transfers, the endpoint's FIFO as TinyUSB keeps it | packets are two bytes |
| `Help` | HELP on both terminals and `help_poll` in steps, on top of `UsbOutput` | texts of one or two lines, of different length |
| `Digipeater` | `digipeat()` in stations that hear each other, over links that lose frames, the search for a repeater that runs on into the text | a call sign is a name; the text behind the address field is a few slots; the FCS is left out |
| `Flash` | pages, `flash_write` in steps, power failures that cut off an erase or a programming, a nested call | a page holds a magic word and the number of the call that wrote it |

`Dac` implements `AudioPipe` (property and theorem `ImplementsPipe`), and
`Transmitter` is built on `AudioPipe`: what is checked of the state machine over
a pipe of three chunks holds over the modulator as it is. `Help` is built on
`UsbOutput`, whose state and actions it extends; `Terminal` is built on `Kiss`.

### How they correspond to the code

An action is one step between two points where another context may come in and
matter. Variables have the names of the code (`send_state`, `dac_queue`,
`irq_next` for `buf_next` in `dma_handler`, and so on); a comment at each
variable says so where they do not. Variables commented "history" are not in
the program.

- `Dac`. `send_byte` is three steps: the test of the queue, the samples and the `NULL`
  written into block `next` (`SendByteRender`), `queue_try_add` and the increment of
  `next` (`SendByteAdd`). `send_start` is one step (`SendStart`): it acts only while
  `busy` is false, when no interrupt of this DMA can come. `BlockEnd` is the control
  channel reading `NULL`, which raises the interrupt, `DmaHandler` the interrupt.
- `Transmitter`. `pc` is where the main loop is. `Receive` is `receive()`: time
  passes and `cdt` is anything. Then `send()` runs, a step per turn of its loop;
  `continue` is `Continue`, `break` is `Break`. A full pipe makes `send_byte`
  call `send_start` (`SendByteFull`, then `SendStart`). SP_IDLE is two steps,
  the look at the queue and the assignment. `Rest` is the rest of the main loop
  with `calibrate()`. `stall` counts chunks played since `send()` was entered;
  `late` says that it has gone beyond `MaxStall` once, after which `NothingCut`
  and `EveryFrameHeard` claim nothing more. Times are ages (`age`, `cal_age`),
  counted only while something looks at them. `axhang` is chosen at the start.
- `SendQueue`. `todo` lists the bytes a main-loop producer still has to put;
  `SumFcs` is the run of the sniffer. The USB interrupt's frame goes in as a
  whole because the main loop stands still for it.
- `AdcRing`. `BufferFull` is the end of a transfer, `AdcDmaHandler` the interrupt,
  `Acquire` and `Demodulated` the two ends of a turn of `receive()`.
- `Hdlc`. `SendBit` is a turn of the loop of `send_byte`, `DecodeBit` is
  `decode_bit`; the two run in lock step. `Stop` cuts a transmission anywhere.
- `Console`. `pc["uart"]` is where the main loop is (`receive`, `serial_input`,
  `cmd_poll`, or inside a handler), `pc["usb"]` the interrupt. An action `...Key` is
  one key for a dialog, an action named after a command its start. A handler that
  prints or computes for long before it has written all it writes goes on in a second
  action (`GenStarted`, `SignWrite` and `SignPrompt`, `Sent`, `Shown`, `ExpireBoot`,
  `Flushed`); the interrupt may run whole dialogs in between, and stays undisturbed
  itself. So is a key in the main loop: `KeyArrives` looks which dialog it is for (and
  what USB_BOOTLOADER waits for), the `...Key` action does what follows from that,
  whatever the interrupt has changed since. Between two assignments of one handler the
  interrupt does not come in: what could go wrong there falls under `torn`, set in any
  case. `deadline_tick` and `last_tick` are kept as the time left and the time since.
- `Terminal`. An action is one byte. `Pressed` says which key it is, or completes:
  `NextEsc` is `esc_state`, which takes the bytes behind ESC, a FEND too
  (`tty_handle_ansi_sequence` comes before the switch). `Show` is the second half of an
  arrow key, the copy of the entry chosen. `Cr` enters `tty_history_store`, which reads
  head and count; `StoreCopy` is any part of its memcpy, `StoreHead` the end of it with
  the length and the head's move, `StoreCount` the count with the end of the
  handler: the UART terminal's handler may be interrupted between any two of these, the
  USB terminal's not. A store that interrupts another's memcpy leaves a mixture in the
  slot (`Copied`). `log` and `walk` are the user's view, a list of lines and a place
  in it. `host` is a KISS host's frame on its way, written as `kiss_output` writes one
  (`KissWrites`, `KissWritten`); `whole` says that the receiver ought to take it. The
  clock ticks in `receive()` only, so not while a handler runs. An answer to the QSL
  wizard is stored in the history too (`cmd.c:2171`), a line like any other.
- `UsbOutput`. `UsbWrite`, `UsbWriteRoom`, `UsbWriteWrite`, `UsbWriteAdd` (once for
  each byte) are the main loop's `usb_write`; `UsbInterruptWrite` is a whole one in
  the interrupt, which nothing disturbs; `TxComplete` the end of a transfer with
  `tud_cdc_tx_complete_cb`. `due` is, for each writer, what the host has still to get.
- `Help`. `UartHelp` chooses the text, `UartHelpGood` and `UartHelpBad` what follows
  after the arguments; `UsbHelp` and `UsbBadHelp` do both in the interrupt. A call
  of `help_poll` is `PollLine`, `PollNewLine`, `PollNext` with the steps of
  `usb_write` between; `PollGap`, `PollWarning`, `PollEnd`, `PollOk` are its other
  cases. Indices are one more than in the code. Behind the end of a table
  (`BeyondEnd`) `help_poll` finds anything, and so does `tty_write` behind the NULL
  pointer that `PollOk` leaves (`TtyWrite`).
- `Digipeater`. `Transmit` is a frame on the air, received by any of those that hear
  the station, each of which goes through `digipeat()` and `send_packet`. The loop in
  `digipeat()` goes by the length of the frame: a frame is a list of slots of seven bytes,
  the first `digis` of them the repeaters. The two bytes of the FCS, which count for that
  length, are left out: they could complete a last slot only.
- `Flash`. `FlashWrite` chooses the page, `FlashErase`, `FlashProgram` and
  `Compare` follow; `Crash*` are power failures; `UsbFlashWrite` is a whole
  `flash_write` in the interrupt. The hardware assumed: an erase that is cut off leaves
  each page for itself as it was, erased, or in between, its magic word apart from its
  data; a programming that is cut off touches its page only and clears some of the bits.

## The runs

| run | shows | bounds, and why they are enough |
|---|---|---|
| `audio` | of `Dac`: `NoBlockReuse`, `BusyIsTrue`, `ImplementsPipe`; of `AdcRing`: `InStep`, `ClockRight` | a queue of 3 (4 blocks): the ring goes round several times in every phase; 4 buffers and a clock modulo 11: coprime, so all alignments of ring and clock occur. The two share nothing: `running` says which of them moves in a behaviour. Also proved for every size |
| `send_queue` | `FramesIntact`, `NothingLost` | room for about two frames, so that the check of free space decides; lengths of two digits (`Radix` 4); up to one repeater, `MaxFrames` 3 per busy period (the queue may run empty any number of times) |
| `transmitter` | `NothingCut`, `HeardInOrder`, `NothingStranded`, `CalibrateModeAgrees`, `ListenBeforeKey`, `EveryFrameHeard`, `PttReleased`, `CalibrateEnds` | `AxHang` 0, the hardest value for the closing flag, and 2, so that PTT is held by more than one flag; a pipe of 3, `MaxStall` 1 for a main loop in time and `MaxLate` 2 more for one that is not, so that the pipe runs dry anywhere; two frames of different length, two commands; a send queue that does not hold both |
| `transmitter_usb` | `CalibrateModeAgrees` is violated when the console is in the interrupt (finding) | - |
| `flash` | `ReadBack`, `NothingOlder` | 3 pages and `MaxWrites` 6 calls: the sector is filled and erased twice, also when an erase has been cut off before. Deadlock is not checked: nobody has to type PERM again |
| `console` | `Answerable`, `EnterDoesAsAsked`, `BootOnlyOnYes`, `DeadlinesKept`, `TermtestShowsAll` | `MaxDialogs` 3: one is pending, one comes in between, one meets what they left; two secrets and two payloads that fit, interchangeable (symmetry; there is no liveness in this run), one that does not fit; two wizard prompts, one of them required; a tick is a timeout (`MaxTicks` 1 in a call of `receive()`), a TERMTEST buffer of one byte is full at the second. Deadlock is not checked: the bootloader is the end |
| `console_both` | `EnterAlwaysDoesAsAsked` is violated (finding) | the same |
| `console_boot` | `BootAlwaysOnYes` is violated (finding) | two dialogs |
| `terminal` | `HistoryShown`, `KissWhole` | a history of two slots and `MaxStored` 3 lines: the ring is full and wraps under a walk; lines of one character (`CmdBufLen` 1), a letter for each terminal, so that lines differ by who typed them; the USB terminal has all edit keys and the sequences `ESC [ A` and `ESC [ 3 ~`, the UART terminal enters lines, walks and has a KISS host, whose frames have an escape, no data, or an ESC and `[` and are too long for the buffer; a timeout of two ticks. `MaxStoredKiss` 0 and `MaxStoredEsc` 1: host's frames and ANSI sequences are not combined with a full history, as they meet only in the command line; arrows on a full ring are CTRL-P and CTRL-N |
| `help` | `InOrder`, `Awake`, `HelpWhole` | FIFO and packet of two bytes and a queue of one, so that a line and its new line overflow all three (the theorems hold for any sizes); an empty line and a text shorter than the other; `MaxBeyond` 3: one line from behind the end of a text; `MaxDone` 1: between two steps of `usb_write` one packet at most is sent, less than the FIFO holds in the program |
| `digipeater` | `HopsInOrder`, `StormDies` | three stations in a line, two of which share an alias; routes that go back and forth, one with as many repeaters as `MAX_DIGIPEATER`; text that looks like a marked or an unmarked slot, or reads like a station; queues of 2, `MaxFrames` 4. Deadlock is not checked: when nobody has anything to send the net is silent |
| `hdlc` | `FrameFound`, `FitsBlock` | bytes 31, 126, 248, 255 (five ones at either end, a flag, all ones), frames up to `MaxLen` 3 with a buffer of 2, `MaxNoise` 3 bits and one cut |

Every run but `digipeater`, and those that expect a violation, also checks its
module's type invariant.

### What the properties say

`NothingCut` is about a listener's frames, not about the queue: it follows a
byte from the producer through the pipe to a station that knows only flags and
NRZI. It needs the main loop to come back to `send()` before the DAC queue runs
dry (64 bytes, 427 ms, while the watchdog allows a second); `HeardInOrder` is
what is left without that. `FramesIntact` and `NothingLost` hold *unless* the
USB interrupt has run inside a main-loop producer (`disturbed`): then a frame is
torn, which the code does nothing about, and what they claim is that the damage
ends when the queue has run empty. `InStep` and `ClockRight` hold until the main
loop is `BUF_NUM - 1` buffers behind: the semaphore then saturates, and the
indices stay out of step until a restart. `ReadBack` allows for a write that
fails or is cut off once it has begun to change the sector, which says nothing any
more about what is read, and `NothingOlder` says what is not read even then. Both make
one exception, which the code has no defence against: a page that an erase cut off has
left in the sector (`left`). If page 0 is left whole and the next one is not,
`flash_find_id` ends at page 0 and the oldest settings are back; pages left with their
magic word behind the page that the next PERM writes hide that PERM and those
after it. The exception is per search: it holds only while the search ends at such a page.

`HistoryShown` compares what a terminal shows with a list that knows nothing of rings.
It is silent after a store has interrupted another (`torn`) and while the user's own
line has dropped out of the ring, is being overwritten by a store as he goes to it, or
is not listed between a store's move of the head and its count (`walk.kept`). A reader
in the middle of a store is included otherwise. `KissWhole` is about a host's frame
from its first FEND to what `kiss_packet` is given, and to the command line, which
must get nothing of it. It is silent on a frame that loses a byte, that takes longer
than the timeout, that begins while the receiver is inside another, or while an ANSI
sequence is open (ESC `[` typed, or leaked from a torn frame), which swallows its
first FEND and lets the rest be typed: after a lost FEND inside and outside are
swapped until the timeout, and the next frame's bytes are keys. `InOrder` says of each
writer that its bytes are on their way in order and without a gap but for what found
no room; `Awake` that whatever waits in `usb_queue` has a completed transfer to wait
for, as nothing else would ever take it up. `HelpWhole` ties OK to the text that was
asked for, in the order `help.c` prints it: the warning that MYCALL or UNPROTO is not
set comes last, behind an empty line, where `WORKLOG.md:659-663` says that help "first
prints" it and that the empty line comes between it and the text. The property states
the code's order. It also covers a HELP given in the interrupt while `help_poll`
prints a line: the new text then lacks its first line, and nothing else (`Passed`).
`HopsInOrder` follows a frame back hop by hop to the station that originated it; that
goes on into the text, where a station that finds its call sign marks it as if it were
a repeater. `StormDies` says that stations with one alias do not repeat each other for
ever.

In `Console`, `torn` says that the interrupt has run inside a handler of the main
loop and `crossed` that a dialog was started while one of the other terminal was
pending; both are forgotten when everything is idle and no generated key is left
over. `Answerable` and `TermtestShowsAll` need `torn` to be false (two starts torn
into each other leave a dialog whose context names the other terminal; a byte
that arrives between the printing of TERMTEST's line and its reset is lost),
`EnterDoesAsAsked` needs both to be, `BootOnlyOnYes` and `DeadlinesKept` neither.
`BootOnlyOnYes` makes one exception (`Slipped`): a warning given to the USB terminal
while the main loop is between its look at the UART's own boot dialog and what it
does with the key. That is the finding of `console_boot`, and the only way past the
four keys. `TermtestShowsAll` counts every byte but LF: `cmd.c:2565` drops LF, although
`termtest_label_for_byte` has a label for it (`cmd.c:222`) and `WORKLOG.md:185` lists it
among the bytes shown.

Facts met while modelling that are no violations of a documented promise:

- With KISS TXDELAY 0 one flag precedes the first frame, and a receiver may miss
  it because its first bit depends on the tone before.
- A transmission that a late main loop has cut is resumed without listening first:
  the state machine is past its test of the channel.
- A sector erase that is cut off may bring replaced settings back, or hide later ones
  (see above).
- A page whose programming was cut off may have its magic word and be read as
  settings, as there is no checksum; two PERMs that interrupt a third can leave a
  page with a magic word ahead of the run, hence one nested call in `Flash`.
- When the line a user is at drops out of the full history ring, because the other
  terminal has stored one, its index is that of the newest line. Two lines stored at
  the same time leave a mixture of both, and possibly a count that is one short.
- `help_handle_command` sets tables and indices one after the other with `help_poll`
  in between: a HELP on the USB terminal may lose its first line, or be answered by OK
  at once; one that comes between the last OK and its reset leaves `help_ttyp` NULL,
  which `tty_write` dereferences (`tty.c:483`); a bad HELP during a Japanese text
  leaves an index that may be behind the end of the shorter English table.
- `usb_write` does not look at what `tud_cdc_write` returns: an echo between
  `tud_cdc_write_available` and it costs the main loop bytes.
- `usb_output()` is called from nowhere. If the endpoint's whole FIFO (256 bytes,
  four packets) is sent between `tud_cdc_write_flush` and `queue_try_add`, or a bus
  reset drops the transfer, the queue is not taken up again until something is sent
  past it, and nothing is while it is not empty. With `MaxDone` 2 the run finds the
  former.
- An eighth repeater is never looked at, since `++digis >= MAX_DIGIPEATER` comes
  before the test; and `digipeat` goes on behind the address field if all
  repeaters are marked: text that reads like a call sign has a bit set.
- `tty_input` gives the receiver no byte while an ANSI sequence is open: `ESC [` takes the
  first FEND of a KISS frame.
- KISS output, like all output, drops what the queue has no room for, the closing
  FEND too.

### Fairness

`transmitter` and `digipeater` need some. In the first, `WF(MainLoop)`: the loop never
blocks (`__wfi` ends at the next interrupt, 100 a second from the ADC alone) and the
watchdog restarts a processor that hangs. `SF(Receive(TRUE))`: ticks come for ever.
`WF(Dma)`: the hardware plays on. `SF` of `Receive` with a clear channel in
SP_WAIT_CLR_CH: the channel is clear again and again, without which no station ever
sends. `SF(PersistencePass)`: `rand()` is at most `kiss_p` (63 of 255) again and
again. Producers and the console have no fairness. In `digipeater`, `WF(Transmit(s))`:
a station with something to send gets the channel in the end, which is what
`EveryFrameHeard` says of one; which frames are lost is nobody's choice, so there is
no fairness of reception.

### Findings

`transmitter_usb`: `send()` tests the queue (`send.c:327`) and then assigns
SP_WAIT_CLR_CH (`send.c:328`). CALIBRATE on the USB console, in between, passes
the test for SP_IDLE (`cmd.c:1066`) and enters calibrate mode; `send()` then
overwrites SP_CALIBRATE. `calibrate_mode` stays true and NRZI stays off while a
frame is sent, and no timeout ends it. Frames in `transmitter` are safe from
this because there the console is the UART, in the main loop; the keys of calibrate
mode come from either.

`console_both`: CMD_PENDING_PRIVKEY_SHOW_CONFIRM is the state of PRIVKEY SHOW and of
the end of PRIVKEY GEN, told apart by `privkey_gen_ctx` (`cmd.c:2422`). A PRIVKEY
GEN of the other terminal resets that context under a proposal, and Enter shows
the stored key instead of accepting the new one; a proposal that a PRIVKEY SHOW of
the other terminal has replaced is left behind, and the next Enter in a PRIVKEY
SHOW on the first terminal stores that key instead of showing one. Likewise
`sign_prepare_and_prompt_tx` writes the payload (`cmd.c:1423`) before it has
checked it, under the nose of the other terminal's "Ready to send".

`console_boot`: the UART's keys are handled in the main loop. Between the look at the
dialog's owner, its state and the key (`cmd.c:2512-2532`) and the write of its next state
(`cmd.c:2529`, `2536`, `2543`) the USB terminal may give SYSTEM USB_BOOTLOADER, which takes
the one context over; the write then goes into the USB terminal's dialog, whose user
gets into the bootloader with the rest of the letters, or with Enter alone.

## The proofs

All proofs are checked by `tlapm` to the last leaf, and every invariant that a passing
run checks is also proved, for all values of the constants that the assumptions named
below allow.

`AudioProofs` is about both rings of buffers that a DMA walks. Of the modulator it
assumes `DacAssumption` (a queue length of at least 1, marks that are no chunks) and
proves the three invariants and the refinement for every length. The inductive
invariant says that the blocks that play or wait are the `Len(dac_queue)` (plus one,
while a block plays) blocks just before `next` in the ring, in order (`Behind`-style
facts on `Before`), that block `next` is rendered when `send_byte` is past its loop,
and how `busy`, PTT and the channels are related at each step of `send_start`.
`NoBlockReuse` alone is not inductive: it does not say why the next block is free. The
refinement follows from the same invariant: each step of `Dac` is a step of
`AudioPipe` on the queued blocks' contents, or leaves them alone.

Of the sample buffers it assumes `AdcRingAssumption` (at least two buffers, a clock that
wraps beyond the number of buffers). The inductive invariant, as long as there
was no overrun: `irq_next` is `Unread + 1` steps after `read_next` and the buffer
being filled `Unread` steps (`InPlace`), and the full buffers between are numbered
on from the clock (`Numbered`). `InStep` and `ClockRight` follow.

`SendQueueProofs` assumes `SendQueueAssumption` and `RadixAssumption`: the queue is
no longer than a 16-bit length can count (16 KB in the program), any number of
repeaters, any traffic. Nothing in the queue marks where a frame ends, so neither
`FramesIntact` nor `NothingLost` is inductive, and no invariant about the queue
alone is. The inductive one numbers all bytes since the queue was last seen empty
(`Ends`: where each frame ends; p: how many bytes were taken) and says that the
queue holds the bytes behind p (`Carries`), where `send()` stands in its frame
(`Taking`), and how far the producer is with its own (`Putting`): that the repeaters
are still as many as it counted, that the sniffer is still its own when the FCS is
added, and that the room it checked is still there. `LengthBack` (two bytes give the
length back) is where the bound of 64 KB comes in. The invariant is claimed while
`disturbed` is false, and starts again from nothing when the queue is seen empty.

`TransmitterProofs` proves the type invariant, all four safety invariants and the
action property `ListenBeforeKey`, for every set of frames, length of queue and
pipe, `TXDELAY`, slot time and calibrate timeout. Two hypotheses appear in the
theorems:

- `~UsbConsole`: CALIBRATE is given in the main loop. With the USB console the
  agreement of mode and state fails (run `transmitter_usb`), and with it what rests
  on it.
- `FastEnough` (`ListensBeforeKey`, `NothingIsStranded`, `NothingIsCut`): from one
  call of `send()` to the next at most half the pipe is played, and no more than
  the leading flags. In the program that is 32 bytes, 213 ms, with a `TXDELAY`
  at least as long. A main loop that is slower than the `MaxStall` of an instance is
  in every instance too, up to `MaxLate` (`late`); `HeardAsQueued` needs no
  `FastEnough` and covers it.

The invariant is a tower. `Modes` relates calibrate mode, its timer, NRZI and
`send_state` at every place of the main loop. `Sender(i)` says that frame i is the one
being sent, or the next, and that the send queue holds what is left of it and the
frames behind it, each in its wire form. `KeepsUp` says how many blocks there are for
the DMA: `Supplied`, the pipe with what was played since the call (`stall`) holds at
least `MaxStall`, or `Leading`, the flags still to come make up for it. `Stream`
assigns to each chunk in the pipe a frame and a position, in order, and the same to
what the listener has gathered; it holds late or not, and gives `HeardInOrder`.
`Complete` adds that nothing is missing between two of them, which a late main loop
destroys, and gives `NothingCut`. The properties speak of the listener or of the state
at rest, and none of them alone says anything of the pipe.

`FlashProofs` assumes `FlashAssumption` and proves `TypeOK`, `ReadBack` and
`NothingOlder` for every number of pages and writes. `Sound(n)` names the last page n
of the run with magic words: behind it at most one page is not blank (`CleanBehind`), a
page without one holds nothing that was acknowledged (`NotAcknowledged`), and the page
that a write under way goes to is the one behind n, or n itself when a nested call has
been there first (`Under`). Each of these makes an exception of the pages that a
cut-off erase has left (`left`), which is why both properties do.

`ConsoleProofs` assumes `ConsoleAssumption` and proves all six invariants of the
run, for every set of keys and payloads, every buffer and every timeout. The
properties hold between handlers; the invariant says what each place inside a
handler has promised and owns (`Owned`, `Promised`, `Spelled`, `Timely`, `Counted`).
`torn` and `crossed` carry the argument: a handler that starts without tearing
another starts when none is halfway (`Interrupts`), and then still finds what its look
at the key has seen (`Asking`). `Spelled`, which no tear may break, says that the
contents of the one context agree with the letters its owner has typed, as long as
the owner was not warned with a key of the UART halfway.

`FrameProofs` assumes `HdlcAssumption` and proves `FrameFound` for frames of any bytes
and any length, any buffer of the receiver, any noise and any number of
transmissions; `FitsBlock` and `TypeOK` under `ControlN >= 10`, the `CONTROL_N` of the
program, which nothing smaller could replace. `FrameFound` speaks of one moment, the
end of the flag behind a frame. The invariant follows the bits up to it: every bit
heard is the bit sent (`InStep`), the last bits heard are a zero and as many ones as
`send_byte` counts (`Ones`), so that within a frame no flag and no end is heard and a
zero is dropped exactly where one was stuffed, and of the byte on the air the
receiver holds the bits that were sent (`InByte`). What a bit does to the byte is
arithmetic on eight powers of two, a case each (`OneBitOn`). `Samples` counts: r bits
of a byte and the zeros among them are at most `r + (r + 4) / 5` samples, ten for r = 8.

Of the digipeater it assumes `DigipeaterAssumption` (what a frame is; its repeaters
are originated without marks, its text may be anything) and proves `HopsInOrder` for
every net, every assignment of call signs, every text and every length of queue.
`HopsInOrder` speaks of what has been transmitted, the inductive invariant says the
same of the frames that wait (`QueuesOnPath`). The step from a frame to the one
repeated marks the first slot without a mark; all before it are marked already, by
stations or from the start.

`TerminalProofs` assumes `TerminalAssumption`: lines of any characters up to any length,
any number of slots, any keys, any KISS frames that are not empty, buffer and timeout of
any size.

- `TypeOK`, torn or not: two stores at once leave head, count and lengths in range.
- `HistoryShown` with more than one slot. With one, the head is also the slot of the
  newest line, and the down key never brings the draft back; the program has eight. A
  ring does not say which lines it holds, so the invariant ties it to the log: the
  slots before the head hold the last lines, newest first (`HoldsLog`); a store under
  way has head and count as they still are (`StoresAlone`); a terminal's index is as
  far before the head as its user's line is before the newest (`InPlace`). A store of
  the other terminal moves the head and the log by one each, in one step
  (`StoreHead`), and so keeps that distance; what is copied before goes to a slot
  nobody's line is in, unless the ring is full, and the count, which comes later, says
  only when up stops. It is claimed until a store is torn.
- `KissWhole`. It speaks of a frame that has been sent or has leaked; the invariant
  `Carried` follows it: what the receiver has put in its buffer and what is still to
  be sent make the frame, unless it has overrun the buffer. No ANSI sequence is open when
  the host begins, and none can begin before the first FEND has arrived, as the line is
  the host's. The two are kept apart by the
  escape, which is why the sender is a machine of its own.

`HelpProofs` assumes `UsbOutputAssumption` and `HelpAssumption` (as many warning lines in
each language, as the code has; the texts themselves may differ in length) and proves:

- `InOrder`, for any queue, FIFO and packet, any texts and echoes. Each writer's bytes
  in flight, in the FIFO, in the queue and in the main loop's hands are what it is
  due, in order (`Sent`). A `usb_write` may write past a queue it has seen empty, so
  the invariant also says that the queue then holds only the main loop's own bytes
  (`RoomKept`).
- `Awake` with `MaxDone <= 1`: at most one transfer ends between two steps of
  `usb_write`. The bound is needed: two empty a FIFO of one packet (TLC finds that), and
  several the program's (see above). `AwakeInv` says what keeps a transfer under way between
  the look for room and `queue_try_add`.
- `HelpWhole` and `TypeOK`: `help_poll`'s indices say how much of the text asked for
  has been shown (`HelpInv`), unless a HELP has come at a bad moment.

Only model-checked: all liveness (`EveryFrameHeard`, `PttReleased`, `CalibrateEnds`,
`StormDies`), which is out of the provers' reach.

## Not modelled

- The demodulator: numerical. Its results are free inputs (`cdt`, noise bits).
- Cryptography and QSL cards, the Shift-JIS table, the monitor's formatting: no
  state that lasts. Most lines of the repository are here, nearly all of them in the
  vendored `secp256k1` with its precomputed tables, which is why the share of lines
  that the models cover is small although they cover most of the firmware proper.
- `receive_off`/`receive_on`, which PERM puts around `flash_write`: the ADC
  stands still meanwhile, which in `AdcRing` is `BufferFull` not happening for a
  while; `__tnc_time` stands still with it. SP_ERROR, which nothing assigns.
- The timers of beacon and GPS: a comparison and an assignment each, in the main
  loop, where alone time advances. `send_unproto` drops a frame that does not fit
  (`SendQueue`) and the timer starts again all the same: that beacon is lost.
- The UART's output queue: bytes go in and out one at a time under the queue's lock.
- Converse mode, which hands a line to `send_unproto` (a producer in `SendQueue`)
  instead of to `cmd()`, and the commands that only set a parameter.
- Failing memory allocation, and the static address buffer of `unproto.c:37`.

## Plan

1. Done: modulator, transmit state machine, send queue, sample buffers, bit
   layer, settings, dialogs, terminals and KISS, help and USB output, digipeater.
2. Done: proofs of every invariant, of the action property `ListenBeforeKey` and of the
   refinement `ImplementsPipe`.
