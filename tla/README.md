# Verification of the CAN prototype firmware

The repository holds the firmware of a prototype on-board computer (a SAMV71 board) that
commands two subsystems over a CAN bus, and the sketches of the two subsystem nodes. This
directory models the on-board computer's own code, `CAN_BASE_EXAMPLE/CAN_BASE_EXAMPLE/src/`
(paths below are relative to it), what it uses of the vendored drivers to boot, to keep time
and to print, and the sketch of the one node that obeys; it checks all of it with TLC and
proves the central results with TLAPS.

## The system

| Part | Source | State | Operations |
|---|---|---|---|
| Main program | `main.c` | the key read | `system_init`, one `switch` case per menu key |
| Telemetry | `telemetry.c` | `telemetry` | `telemetry_update`, `telemetry_get`; `telemetry_init` (not called) |
| Command processor | `commands.c` | `counters` | `cmd_init`, `cmd_process`, getters |
| Command module | `commands_module.c`, `conf_commands_module.h` | constant list | nine command functions, `commands_module_execute` |
| Subsystem controllers | `subsystem_1.c`, `subsystem_2.c` | none | LED on, LED off, LED status, temperature |
| CAN controller | `can_controller/can_controller.c` | Rx elements, FIFO indexes | init, start, stop, filters, send; `MCAN1_INT0_Handler` |
| MCAN driver and peripheral | `ASF/sam/drivers/mcan/` | registers, message RAM | the register accesses of the driver; reception, transmission and errors by hardware |
| Timer ticker | `tc/tc.c`, `conf_telemetry.c` | timer registers | init, start, stop, period; `TC0_Handler` |
| Console | ASF `stdio`, `usart.c` | transmit and receive register | blocking `printf` and `scanf` |
| Clocks and boot | ASF `sysclk.c`, `osc.h`, `pll.h`, `pmc.c`, `system_samv71.c` | clock registers, flash wait states, watchdog | `sysclk_init` and the driver functions it calls |
| Subsystem nodes | `SW_Subsystem_1/`, `SW_Subsystem_2/` | LED, last command | `setup`, `loop` |

They call each other downwards: main reads a key, executes a command, the command's function
sends a CAN message; a get function of subsystem 1 then installs the filter for the response.
Nothing waits for a response. Upwards there is one path only: the interrupt handler prints what
arrives. All calls run on one thread, which the handler preempts between any two instructions;
the peripheral works beside both.

What is hard in it:

* the handler against the thread: both write CCCR, the interrupt enables and the message RAM,
  without masking interrupts. The bus-off branch takes the node into configuration under a call
  that has just checked it is not there;
* the peripheral against both: it sends a Tx buffer while it is rewritten, ignores a request that
  comes while it sends the one before, and refills an Rx buffer while it is copied;
* loss: one Tx buffer, one response buffer, FIFOs that overwrite, flags that stand for several
  events, one element served per interrupt;
* bounds: indexes wrapped by hand, a command list indexed after a range check, 32-bit counters;
* liveness: two busy waits, a handler that must clear what raised it, and a bus-off after which
  nothing starts the node again;
* one register, three writers: main and two handlers print by polling, and the handlers preempt
  between the poll and the write;
* a timer that runs on: its compare value, its interrupt and its clock are changed under way, in
  an order that the functions choose;
* a boot whose steps may time out without anybody looking: each moment of the clock switch has
  to suit the flash, the core and the bus, and the results have to suit the console.

What makes each part correct:

* peripheral and driver: the message RAM is only indexed inside its arrays;
* CAN controller: a message on offer to the bus is one message; while the node is on the bus the
  last accepted message is lost only if its request met an older frame on the wire; nothing is sent
  once the node is off the bus; each received frame is read or has an interrupt to come; every call
  returns;
* command processor: each command makes one entry in the counters, on the right side;
* firmware: a counted success means a message on its way, with that one exception; a counted
  failure means the node is off the bus; the menu always comes back;
* firmware and node: a switch command counted as executed, and not lost in that way, switches the
  LED;
* console: a character is lost only to a preemption, a key is run once, main gets its turn;
* ticker: the next tick is one period away, a stopped ticker is silent, its calls return;
* boot: flash, core and bus are never clocked beyond their limits, `SystemCoreClock` and the
  baud rate fit the clock reached, and the menu comes out.

## Modules

| Module | Models | Builds on |
|---|---|---|
| `Mcan` | peripheral, message RAM, driver functions (as operators), bus | |
| `TxMailbox` | abstract: what `can_tx_message` promises | |
| `RxSlots` | abstract: what the operator is shown of the Rx buffers | |
| `CanController` | `can_controller.c`: calls of any client, and the handler | extends `Mcan`, implements `TxMailbox` and `RxSlots` |
| `CommandLedger` | abstract: what the counters promise | |
| `Commands` | `commands.c` with the list of `commands_module.c` | implements `CommandLedger` |
| `Firmware` | `main.c`, `telemetry.c`, `subsystem_1.c`, `subsystem_2.c` | extends `CanController` and `Commands`, implements `CanController!Spec` |
| `Network` | `can_slave_nano.ino` behind its MCP2515, composed with the whole firmware | extends `Firmware` |
| `Console` | `printf` and `scanf` of main and two handlers over one USART | |
| `Ticker` | `tc.c`, the counter and `TC0_Handler` | |
| `Boot` | `system_init`: clocks, flash, watchdog, baud rate | |
| `CanLengths` | the data length codes of `can_controller.c` | |
| `MCCanController`, `MCFirmware`, `MCNetwork`, `MCConsole`, `MCTicker`, `MCBoot` | values of constants for TLC | |
| `CommandsProofs`, `CanControllerProofs`, `CanReceiveProofs`, `FirmwareProofs`, `NetworkProofs`, `ConsoleProofs`, `TickerProofs`, `BootProofs` | theorems; those about `CanLengths` are at the end of `CanControllerProofs` | |

### How the state corresponds

`Mcan`: `cccr` is the INIT and CCE bits of CCCR, `ie` and `ir` the enabled and raised sources,
`busOff` PSR.BO, `txbrp` the request bit of Tx buffer 0 and `txElement` its content, `ndat` and
`rxBuffer` the dedicated Rx buffers, `fifo` both Rx FIFOs. Messages and payloads are constants.
An element is a pair (header words, data words), because the driver writes and reads it word by
word while the peripheral uses it: that is as much of the words as a torn element needs.
Actions that start with `Hw` are the peripheral's own steps, from how the driver uses it.

A transmission takes time. `HwTakeHead` begins a frame and takes the header words, `HwTakeData`
takes the data words, and `HwTransmitted` ends it: only then is `txbrp` cleared and the frame the
last one carried (`onBus`). `wire` is what was taken so far. In between the thread may rewrite the
element and write TXBAR again. `HwRetransmit`, a protocol error or bus-off breaks the frame off
(`AbortFrame`); the request stays and the next attempt takes the element anew. `fate` is a history
variable: what became of the last request. It is `"waits"` if nothing was on the wire when TXBAR was
written, `"behind"` if an older frame was, then `"missed"` once that frame got through, `"sent"`
after its own transmission, and `"dropped"` by configuration. What this assumes of the peripheral:

* a write to TXBAR for a buffer whose bit is set has no effect;
* each attempt takes the element anew, header words first, and once;
* a frame that got through clears the request at once (no duplicate after an error in its last
  bit, which CAN allows);
* a received element is complete when its NDAT bit or fill level says so (`HwStore` is one step),
  and an element of an Rx FIFO is copied in one step (`FifoRead`), although overwrite mode could
  refill it: no property reads that copy.

`CanController`: `step` says where the thread is inside a call, `isr` where the handler is. An
action ends where another context could tell the next access from this one. So
`mcan_tx_transfer_request` is two steps (`TxCheck` reads CCE, `TxRequest` writes TXBAR),
`mcan_stop`'s `|=` is two (`StopRead`, `StopWrite`), but its copy of an Rx element is two and not
eight. While `isr` is not `"idle"` the thread stands still; the peripheral does not. `scan` is
the handler's local `i`, whose second use as the print loop's counter ends the scan: that is
why a value above the buffer count appears. `rxElement`, `rxFifoElement` and the two
`..._receive_index` are the file's statics; `printed` records what the operator was shown, and
no step depends on it.

`TxMailbox` knows neither registers nor interrupts: one message waits, a call replaces it and is
accepted or, if the mailbox is closed, refused. The bus takes the content, its head and then its data
(`taken`), and sends it or gives up and takes it again. A call that comes meanwhile changes the
content but not what was taken, and nothing waits any more once that was sent: so the mailbox allows
the late message to be lost, and nothing else while it is open. It is open while CCE is 0, its
content is the data of the Tx element, it waits while the bit in TXBRP is set, and what was taken is
`wire`. What happens between the calls of the thread, in the handler and in the peripheral is for it
a taking, a sending, a giving up, a closing, an opening, or nothing.
`RxSlots` has a slot for each Rx buffer: `unread` is NDAT, `shown` is what was printed, and a slot is
being read from the clearing of its NDAT bit until it is printed. If the next frame comes during the
copy, what is shown may have the head of one frame and the data of the other.

`Commands`: `cmdStep` splits `cmd_process` at the accesses a reader of the counters sees.
A command's function is a pair of node and operation; what it may return is `Results`.

`Firmware`: `main` and `key` are main's position and input, `fnStep` the running subsystem
function's, `todo` what `telemetry_update` still has to ask, `telemetry` the copied counters.
Its steps are those of `CanController` and `Commands`, joined where the code calls.

`Network`: `rxb0` and `rxb1` are the MCP2515's receive buffers, of which the library's
`readMessage` takes the first one first; `led` is the sketch's pin. `overtaken` remembers that a
command met a full buffer or was stored in front of an older one, which three frames in a row can
do. A frame reaches the node in the step that ends its transmission, and is what was taken from the
Tx element, not what the element then holds. Subsystem 1's
sketch prints and changes nothing; it has no state here.

`Console`: `text` counts the characters each context has still to write, `ready` is the answer of
its last poll of TXRDY, `thr`, `shift` and `rhr` are the USART's registers. `hit` remembers that
a handler was entered between a poll and its write. `MCAN1_INT0` has priority 1 and `TC0` 5, so
the first preempts the second; `noisy` are the handlers that go on being requested.

`Ticker`: `program` is what is left of the running function, a sequence of register accesses;
the handler comes between any two. `tc` holds the channel's clock, counter, RC, status and mask.
The counts are those of the divided clock. `since` counts from the last match or start; `late`
and `stopped` record what the properties speak of. With `gated` a channel without a clock
ignores its registers, which the data sheet leaves open.

`Boot`: `system_init` is the list of the functions that run, each as its accesses: `Write`, `Wait`
(an endless loop on a status bit) and `Poll` (a loop that gives up after `PMC_TIMEOUT` and
returns 1 from its function). `fn` is the function that runs and `acc` its next access. `mckr` against `mck`, `mor` against `mainck` and `slck.sel` against
`slck.now` are what was asked of the clock hardware and what is in effect. The master clock
changes in one step to whatever the register then asks for.

Operators commented as a faulty variant (`TxDataIfFree`, `NextIndexEarly`, ...) are not part of
any specification. Each is a definition as a plausible bug would have it; substituting it shows
that a property can fail.

## Runs

Deadlock is checked too, except in `can_client`, whose client can make `can_start` wait for ever
(its second property says when), and in `boot`, which ends at the menu or waits for a clock that
does not come.

| Run | Question | Bounds |
|---|---|---|
| `can_client` | may a client that also stops and restarts the node make it send a torn message, lose one in an open mailbox, or hang? | 2 messages, both protocol errors |
| `can_receive` | is every response read, is none replaced unseen, and is none taken for another? | 4 Rx buffers, 2 payloads, an unaccepted identifier |
| `can_fifo` | are the indexes in range, and when do they agree with the peripheral? | FIFOs of 3 |
| `firmware` | what do `STATUS_OK`, results and counters say about the bus, what is the node after bus-off, and do the counters implement the ledger? | keys 0, 1, 2, 9 and others, counters modulo 2, no frames of other nodes, no protocol errors |
| `network` | does a command counted as executed switch the LED, does every call return and the menu come back? | keys 2, 6, 7, counters modulo 1, the same bus |
| `console` | which characters can be lost, and does main get its turn? | texts of 3 characters, both handlers, one key |
| `ticker` | when is the next tick due, is a stopped ticker silent, does every call return? | a counter of 3 bits; periods 0, 1, 2, 3 and 5 ms, the first and last invalid |
| `boot` | is any step of the boot out of the chip's limits, do the results fit, does the menu come out? | 14 configurations, each with and without its two external clocks |
| `doc_lost_request`, `doc_fifo_1`, `doc_bus_off`, `doc_tick_period` | four statements of documentation and texts | as small as shows them: key 0 only in the first, the board's real clocks in the last |

Why the bounds are enough. Two messages make a torn element, the firmware has more. Rx buffer
contents are compared for equality only, so two payloads tell a stale copy from
a fresh one. FIFOs of 3 are the smallest in which an index that wraps early differs from one that
wraps right and from one that never wraps; the shipped FIFOs have 4, and the type theorem
covers every size. The firmware's keys have at least one of each kind of path: telemetry, no
command, a switch command of subsystem 1, a get of subsystem 2, an unused key; telemetry
includes the gets of subsystem 1, with the filter, and its four sends meet each other's frames on the
wire. The menu reaches every identifier of the command list and no other; that an identifier outside
it is aborted is proved only (`CmdRefinesLedger`). The network's keys are the two of subsystem 2's
LED and a command to subsystem 1, whose frame is in the way of the others; three frames fill the
node's two buffers and one more. Counters are only compared and incremented:
any modulus shows the wrap, and `network`, whose properties do not read them, takes 1. A text of
3 characters has a first, a last and one between; keys are told apart by nobody. The ticker's
counter wraps after 8 counts, its periods are 2, 4 and 6 of them, so RC can be moved ahead of
the counter, onto it and behind it; the divisor is 1, with which `tc_ticker_init` makes one access more
(`tc_configure_to_no_divide_clock`). The boot's configurations have every source, every order of
switching, prescalers of 1, 2, 3 and 4, and PLL outputs below and above what the core takes. The
only other bound is on the inputs: `ProtocolFlags`, `BusFrames`, `FilterRequests`, `ClientCalls`
and `Calls` say what can happen in a run.

Two properties depend on what clients do, and say so. `LastAcceptedWins` and
`ServedNodeIsSilent` are for clients that neither stop nor restart the node;
`NoStrandedBuffer` and `EveryBufferIsRead` for clients that use one Rx buffer. The firmware is
such a client in every respect.

### Fairness

`CallStep` and `IsrStep` are weakly fair: the processor executes, so a call that can go on does
so unless the handler runs for ever, and a raised, enabled interrupt is taken. `Recovery` is
weakly fair: ISO 11898 makes the peripheral rejoin after 129 idle sequences once software
lets it. Nothing is assumed of a client (main may wait for a key for ever) nor of the bus
(a message may stay pending for ever).
`network` excludes protocol-error interrupts, and takes the frames of other nodes away: an
unacknowledged message is retransmitted at once and interrupts again, and a handler that prints
over a serial line at each error may leave the thread no time at all. `console` is about just
that: `MainGetsBack` promises main its turn only if the handlers' sources fall silent in the end.
In `can_receive` the interrupts of received frames can come for ever and the properties hold.

`network` adds what its two properties of the LED need: the bus begins to carry a frame that is
pending (`HwTakeHead`, weakly fair), one that is begun again and again gets through in the end
(`HwTakeData` and `HwTransmitted`, strongly fair: arbitration is not lost for ever, and there is a
second node to acknowledge it), and the sketch loops. Its keys do not include telemetry: that the
menu comes back from there is checked by no run (its calls return as those of any command do). `console` has
the processor and the transmitter, `boot` the processor and each part of the clock hardware that
can get ready; of the external clocks only those in `fed` ever do. The watchdog's 16 s are far
longer than a boot: it bites only when what the processor waits for does not come, and it is not
assumed to bite at all. `ticker` has the handler and the thread; both strongly in one respect:
the handler sometimes ends before the next match, and the thread then gets on. A period shorter
than its own handler would starve the thread for good; which of the two holds is a question of
rates. The handler's own text is six characters, half a millisecond at 115200 baud, and the
board's tick comes every 56 ms.

### Findings

* `can_tx_message` answers `STATUS_OK` to a message that is never sent on a healthy bus: while the
  frame before it is on the wire its TXBAR write is ignored, and the completion of that frame clears
  the request (`doc_lost_request`, with the four requests of `telemetry_update`). The controller would have to
  look at TXBRP, or use more than one Tx buffer.
* The handler acknowledges FIFO 1's elements to FIFO 0 (`doc_fifo_1`).
* "Bus off error, re-initialization" initialises and never starts: the node is off the bus until
  the board is reset (`doc_bus_off`).
* The ticker's "period in ms" is computed from `BOARD_MCK`, the CPU's 300 MHz, for a channel that
  divides 150 MHz: every valid period is twice as long as asked (`doc_tick_period`). The
  configured 1000 ms is not valid at all: it becomes RC = 0, a tick every 56 ms, and nobody looks.

Observations that no run states, since a property would only restate one line: `can_stop`
"disables interrupts" but leaves `MCAN_RX_BUFFER_NEW_MESSAGE` enabled; `STATUS_OK` of
`mcan_tx_transfer_request` does not mean the request is set for one more reason: bus-off served
between the check of CCE and the write of TXBAR discards it (`fate = "dropped"` in `LastAcceptedWins`); menu
key 1 executes no command.

What the properties had to except, because the code does not do it, is in their definitions:
`SystemCoreClockUpdate` does not know the UPLL, `MAINCK_4M_RC` is not switched to and so keeps
the reset's prescaler and division, a console fed from a slow clock has no divider and blocks
the first character, a shorter period under way can cost one counter round, and a stopped ticker
whose registers are dead without a clock can be served for ever.

## Proofs

All theorems hold for every value of the constants under the modules' named assumptions: at
least one buffer, filter and FIFO element, the clients' filters inside the filter lists and not
"off", identifiers of 8 bits, a positive counter modulus; in `Firmware`, the wiring of the
constants to the firmware's own messages and its one filter.

`CommandsProofs` proves `CmdTypeOK` (the runs check it as a part of `FwTypeOK`), and that `CmdSpec` implements `CommandLedger` under the
mapping `Ledger`, which counts an entry from the write of its identifier on. The invariant
it needs besides types is `ResultMeans`: a command whose result is `STATUS_OK` is in the list,
and one with an error is not an infallible one.

`CanControllerProofs` builds up an inductive invariant, `ClientInv`:

1. `TypeOK`, one step per action. Theorem `TypeCorrect`: no index leaves its array.
2. `ElementInv`: which parts of the Tx element hold the current message, by `step`. It makes
   `PendingIsWhole` inductive. Theorem `PendingWhole`.
3. `RequestInv`: a node in configuration has nothing pending, because what sets CCE drops requests
   and CCE suppresses them; a frame on the wire belongs to a pending request and begins with its
   head. With `ElementInv` it maps every step of every client to a step of `TxMailbox` or to none:
   the torn and the lost frames are ones the mailbox may tear or lose. Theorem `IsMailbox`.
4. `BootInv` and `OffBusInv`, for clients that neither stop nor restart: the thread writes CCCR
   only during boot, before interrupts are delivered, and the handler's bus-off branch leaves
   INIT set and then CCE. Theorem `ServedSilent`.
5. `LastAcceptedWins` is inductive with `BootInv`, `ElementInv` and `RequestInv`: each fate is tied
   to what element, request bit and wire hold. Theorem `LastAccepted`.
6. `ConfigInv`: CCE set outside boot means that a bus-off was served; it separates a rejected
   request from an accepted one, which the firmware's theorems need.

`CanReceiveProofs` is about reception and about `can_start`, for every client. `CurrentInv` adds to
`ReadIsCurrent` what the copy under way already holds (`ReadCurrent`: the peripheral cannot
touch a buffer until NDAT is set again, and NDAT is cleared before the copy, not after). With it and
`FramesInv`, what is new or being copied is a frame of the bus, every step is one of `RxSlots` or
none (`IsSlots`).
`FiltersInv` says that a client of one buffer never has a filter to another; with it
`NoStrandedBuffer` is inductive (`NoneStranded`). `WaitInv` says who can set INIT under
`can_start` (`StartHangs`). `InStep` proves `FifoInStep` from the arithmetic of one acknowledge.

`FirmwareProofs` first proves that a step of `Firmware` is a step of `CanController` or leaves it
alone (`FirmwareClient`). So the theorems above hold of the firmware, the client
assumptions being discharged by `FirmwareAssumption` (`FirmwareServedSilent`, `FirmwareMailbox`,
`FirmwareSlots`, `FirmwareNoneStranded`). What is left are
the links between the layers: the running function's message is the controller's `msg`, and
`result` is what `ret` was. They give `AbortedOffBus`, `ExecutedOnItsWay`, `FirmwareLedger` and, with the types of
what they leave out (`DataInv`), `FwTypeCorrect`.

`NetworkProofs` carries `ExecutedOnItsWay` on to the LED. The last frame carried changes only in
the step that ends a request, and is then what was on the wire (`TransmittedMeans`: initialisation
drops requests too, but with the node in configuration). `LedInv` then says that, unless commands overtook each other,
the last frame for subsystem 2 is the last command in its buffers or, when these are empty, the
level of its LED. Theorem `ExecutedObeyed`.

`ConsoleProofs` needs one inductive invariant: a context that has polled and not yet written
runs or was hit (`StackInv`); a handler's characters follow each other through `thr` and
`shift` as long as the handler that nothing preempts is the one that writes (`PiecesInv`). The four theorems
are conjuncts or consequences of it.

`TickerProofs` first bounds the arithmetic (`PeriodCount`, `DivisorFits`). The invariant
`TickerInv` classifies what may be left of the running function (`ProgramInv`), says that the
counter runs only with CPCTRG set (`BootInv`), and that the interrupt stays off while and after
`tc_ticker_stop` (`StopInv`). `AccessLeaves` says once what one access leaves of each function;
each action's lemma cites it.

`BootProofs` proves all invariants of `Boot` for every configuration of `conf_clock.h` that is
`Legal` (the chip's limits and, with PLLA, the assertions of `pll_config_init`: `BootAssumption`; the
repository's own is one of them, `ShippedIsLegal`) and every state of the external clocks. None of
them is inductive: that a switch is safe depends on what the functions before it left behind. `IInv` says, function by function, what has been reached:

1. `OscInv`: before `osc_enable` the main clock is the reset's 4 MHz; afterwards it is the
   oscillator asked for, or still to be switched to it, and after `osc_wait_ready` in effect.
2. `PllInv`: once `pll_enable` has run PLLA has the configuration's factors, and once it was waited
   for it is locked, because nothing writes it again.
3. `MasterInv`: source, prescaler and division of the master clock are the reset's or the
   configuration's, in the order in which the functions write them, and how far they have got;
   a poll that gives up leaves each combination that its function may leave, and no other.
4. `ResultInv`: what flash, `SystemCoreClock` and the divider of the console were set to.

`Stages` says which functions a configuration runs, and one lemma per function (`Enabling` to
`Switching`) which accesses it makes; `WrittenWhere` and `PollWhere` turn this round, from an
access to the function it is made in. `ProcessorFrame` and `ProcessorGoes` say once what every
step of the processor leaves alone and where it goes. With them each part of `IInv` has one lemma
per kind of step. `Speeds` is the arithmetic: with the configured source each combination that
`MasterInv` allows is no faster than what `Legal` bounds. The theorems `FlashWaits`,
`ClocksLegal`, `CoreClockRight` and `BaudRight` are consequences of `IInv`; `BootTypeCorrect` is
its first conjunct, and contains that a divider fits US_BRGR's fields for every clock. TLC checked
`IInv` too, on some 12000 pairs of a legal configuration and working clocks.

`LengthCode` and `LengthOrder`, in `CanControllerProofs`, are about `CanLengths`: a message's length
code is that of the smallest element that holds it, and longer messages have no smaller codes.

Every invariant and action property that a passing run checks, and all refinements, is stated by
a theorem. Only model-checked are the leads-to properties (`EveryBufferIsRead`, `CallsReturn`, `MainReturns`,
`SwitchTakesEffect`, `MainGetsBack`, `TickerReturns`, `BootEnds`): liveness under fairness is
outside what the prover does.

## Not modelled

* What messages contain and what is printed, except which element was printed and, in `Console`,
  which character of a text is where.
* `telemetry_update` from `TC0_Handler`: `telemetry_init` is commented out in `main.c`, so the
  shipped firmware never runs it there. `Ticker` has the handler's own steps.
* The composition of `Console` or `Ticker` with `Firmware`: printing delays the firmware and
  changes nothing in it, and the ticker is not started.
* Driver functions nobody calls (MCAN test modes, FD switch, Tx FIFO and events; the other modes
  of `usart.c`; the rest of `pmc.c`; `pio_handler.c`, `uart.c`, `sleep.c`).
* Pin multiplexing, cache and MPU set-up, section copying at reset: each is done once, at boot,
  and no other step depends on its order. CMSIS headers, register definitions and the DSP
  library's headers: declarations without behaviour, and by far the most lines of the repository.
* Subsystem 1's sketch: it prints what it receives. `uart_controller`: a stub.
* `mcan_set_baudrate`, called with the module instance for a register block: its write falls
  into a static that is dead until the handler fills it (see the comment at `can_init`).

## Plan

Done: all modules above, their runs and theorems. What would come next:

1. Frames of other nodes and protocol errors in `network`, under a fairness that bounds how often
   they interrupt.
2. An abstract view of the link from key to LED, which `Network` implements.
