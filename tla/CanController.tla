--------------------------- MODULE CanController ---------------------------
(***************************************************************************)
(* can_controller.c: the functions the rest of the firmware calls, and the *)
(* MCAN1_INT0_Handler interrupt handler, over the peripheral of Mcan.tla.  *)
(*                                                                         *)
(* Two contexts run on the one core: the thread (main) and the handler,    *)
(* which preempts the thread between any two accesses to shared state and  *)
(* runs to its end.  The peripheral steps at any time.  Each action below  *)
(* is a piece of one function that contains one access that another        *)
(* context can tell apart; "step" and "isr" say where each context is.     *)
(*                                                                         *)
(* The client here is any caller of the API that boots as system_init      *)
(* does and whose calls are of the kinds in ClientCalls.                   *)
(***************************************************************************)
EXTENDS Mcan

CONSTANTS
    ClientCalls,      \* which of "send", "filter", "stop", "start" are called
    FilterRequests,   \* the filters a client may install
    NoRequest,        \* no filter call yet
    ElementDataSize   \* CONF_MCAN_ELEMENT_DATA_SIZE

\* A call of one of the four can_set_rx_*_filter functions.
FilterRequest == [ext : BOOLEAN, slot : Nat, filter : Filter]

ASSUME ClientAssumption ==
    /\ ClientCalls \subseteq {"send", "filter", "stop", "start"}
    /\ FilterRequests \subseteq FilterRequest
    /\ \A r \in FilterRequests :
         /\ r.filter.dest # "off"
         /\ r.slot < IF r.ext THEN ExtFilterNum ELSE StdFilterNum
    /\ ElementDataSize \in Nat

VARIABLES
    nvic,        \* the NVIC delivers MCAN1_INT0
    step,        \* where the thread is in a call ("ready": in none)
    msg,         \* argument of the last can_tx_message call
    request,     \* argument of the last filter call
    cceRead,     \* CCCR.CCE as mcan_stop read it
    ret,         \* result of the last can_tx_message call
    isr,         \* where the handler is ("idle": not running)
    status,      \* the handler's local: IR as read on entry
    scan,        \* the handler's local i, as the loop over the Rx buffers uses it
    rxElement,   \* rx_element_buffer
    rxFifoElement,             \* rx_element_fifo_0 and _1
    standard_receive_index,
    extended_receive_index,
    printed      \* what the handler printed last of each Rx buffer

threadVars == <<step, msg, request, cceRead, ret>>
isrVars    == <<isr, status, scan, rxElement, rxFifoElement,
                standard_receive_index, extended_receive_index, printed>>
canVars    == <<mcanVars, nvic, threadVars, isrVars>>

-----------------------------------------------------------------------------
TxSteps     == {"txHead", "txData", "txCheck", "txRequest"}
FilterSteps == {"filterId", "filterArg", "filterIrq"}
StartSteps  == {"start", "startWait", "startIrq"}
StopSteps   == {"stopRead", "stopWrite", "stopWait", "stopIrq"}
ThreadSteps == {"init", "ready"} \cup TxSteps \cup FilterSteps
                 \cup StartSteps \cup StopSteps
IsrSteps    == {"idle", "rxBuffer", "scan", "copyHead", "copyData",
                "fifo0", "fifo0Read", "fifo0Ack", "fifo1", "fifo1Read", "fifo1Ack",
                "error", "busOff", "busOffStop", "busOffInit"}

RxElement == [head : Frame \cup {NoFrame}, data : Frame \cup {NoFrame}]

ThreadTypeOK ==
    /\ nvic \in BOOLEAN
    /\ step \in ThreadSteps
    /\ msg \in Messages \cup {NoMessage}
    /\ request \in FilterRequests \cup {NoRequest}
    /\ step \in FilterSteps => request \in FilterRequests
    /\ step \in TxSteps => msg \in Messages
    /\ cceRead \in BOOLEAN
    /\ ret \in {"none", "STATUS_OK", "ERR_BUSY"}

IsrTypeOK ==
    /\ isr \in IsrSteps
    /\ status \in SUBSET Flags
    /\ scan \in Nat
    /\ isr \in {"copyHead", "copyData"} => scan \in RxBuffers
    /\ rxElement \in RxElement
    /\ rxFifoElement \in [{0, 1} -> Frame \cup {NoFrame}]
    /\ standard_receive_index \in 0 .. FifoSize - 1
    /\ extended_receive_index \in 0 .. FifoSize - 1
    /\ printed \in [RxBuffers -> RxElement]

\* Type correctness of the peripheral, of the driver's locals and statics: the
\* indexes the handler uses are indexes of the arrays they are used on.
TypeOK == McanTypeOK /\ ThreadTypeOK /\ IsrTypeOK

\* system_init is about to call can_init and then can_start.
Init ==
    /\ McanInit
    /\ nvic = FALSE
    /\ step = "init"
    /\ msg = NoMessage
    /\ request = NoRequest
    /\ cceRead = FALSE
    /\ ret = "none"
    /\ isr = "idle"
    /\ status = {}
    /\ scan = 0
    /\ rxElement = Whole(NoFrame)
    /\ rxFifoElement = [n \in {0, 1} |-> NoFrame]
    /\ standard_receive_index = 0
    /\ extended_receive_index = 0
    /\ printed = [b \in RxBuffers |-> Whole(NoFrame)]

-----------------------------------------------------------------------------
(* The thread.  It runs only while the handler does not.                   *)

At(s) == isr = "idle" /\ step = s

\* can_init at boot.  mcan_set_baudrate is given &mcan_instance for a register
\* block: its one write goes to the memory after mcan_instance.  In the build
\* kept in Debug/ (CAN_BASE_EXAMPLE.map) that is rx_element_fifo_0.data, dead
\* until the handler copies the next element into it.
can_init ==
    /\ At("init")
    /\ mcan_init
    /\ step' = "start"
    /\ UNCHANGED <<ie, ir, busOff, txElement, onBus, stdFilter, extFilter, ndat, rxBuffer,
                   nvic, msg, request, cceRead, ret, isrVars>>

\* can_start: mcan_start, its busy wait for INIT, can_enable_irq.
StartWrite ==
    /\ At("start")
    /\ ClearInit
    /\ step' = "startWait"
    /\ UNCHANGED <<ie, ir, busOff, txVars, rxVars, nvic,
                   msg, request, cceRead, ret, isrVars>>

StartWait ==
    /\ At("startWait")
    /\ ~cccr.init
    /\ step' = "startIrq"
    /\ UNCHANGED <<mcanVars, nvic, msg, request, cceRead, ret, isrVars>>

can_enable_irq ==
    /\ At("startIrq")
    /\ nvic' = TRUE
    /\ mcan_enable_interrupt({"FOE", "ACKE", "BO", "DRX"})
    /\ step' = "ready"
    /\ UNCHANGED <<cccr, ir, busOff, txVars, rxVars,
                   msg, request, cceRead, ret, isrVars>>

\* can_stop: mcan_stop is a read-modify-write of CCCR, then the wait, then
\* can_disable_irq.
StopRead ==
    /\ At("stopRead")
    /\ cceRead' = cccr.cce
    /\ step' = "stopWrite"
    /\ UNCHANGED <<mcanVars, nvic, msg, request, ret, isrVars>>

StopWrite ==
    /\ At("stopWrite")
    /\ SetInit(cceRead)
    /\ step' = "stopWait"
    /\ UNCHANGED <<ie, ir, busOff, txElement, txbrp, onBus, rxVars, nvic,
                   msg, request, cceRead, ret, isrVars>>

StopWait ==
    /\ At("stopWait")
    /\ cccr.init
    /\ step' = "stopIrq"
    /\ UNCHANGED <<mcanVars, nvic, msg, request, cceRead, ret, isrVars>>

can_disable_irq ==
    /\ At("stopIrq")
    /\ mcan_disable_interrupt({"FOE", "ACKE", "BO"})
    /\ step' = "ready"
    /\ UNCHANGED <<cccr, ir, busOff, txVars, rxVars, nvic,
                   msg, request, cceRead, ret, isrVars>>

\* can_tx_message and the other can_*tx* functions, which differ in the message
\* they build and drop the result.  The element goes to the message RAM word by
\* word (mcan_set_tx_buffer_element, which succeeds: the instance is MCAN1);
\* then mcan_tx_transfer_request reads CCCR and writes TXBAR.  Nothing looks at
\* TXBRP: the element may belong to a pending request or a frame on the bus.
\* Faulty variant: the data is not written.
TxHeadOnly ==
    /\ At("txHead")
    /\ txElement' = [txElement EXCEPT !.head = msg]
    /\ step' = "txCheck"
    /\ UNCHANGED <<cccr, ie, ir, busOff, txbrp, wire, onBus, fate, rxVars, nvic,
                   msg, request, cceRead, ret, isrVars>>

TxHead ==
    /\ At("txHead")
    /\ txElement' = [txElement EXCEPT !.head = msg]
    /\ step' = "txData"
    /\ UNCHANGED <<cccr, ie, ir, busOff, txbrp, wire, onBus, fate, rxVars, nvic,
                   msg, request, cceRead, ret, isrVars>>

\* Faulty variant: the data of a pending message is spared, its head is not.
TxDataIfFree ==
    /\ At("txData")
    /\ txElement' = IF txbrp THEN txElement ELSE [txElement EXCEPT !.data = msg]
    /\ step' = "txCheck"
    /\ UNCHANGED <<cccr, ie, ir, busOff, txbrp, wire, onBus, fate, rxVars, nvic,
                   msg, request, cceRead, ret, isrVars>>

TxData ==
    /\ At("txData")
    /\ txElement' = [txElement EXCEPT !.data = msg]
    /\ step' = "txCheck"
    /\ UNCHANGED <<cccr, ie, ir, busOff, txbrp, wire, onBus, fate, rxVars, nvic,
                   msg, request, cceRead, ret, isrVars>>

\* Faulty variant: INIT is tested for CCE.
TxCheckInit ==
    /\ At("txCheck")
    /\ IF cccr.init THEN ret' = "ERR_BUSY" /\ step' = "ready"
                    ELSE step' = "txRequest" /\ UNCHANGED ret
    /\ UNCHANGED <<mcanVars, nvic, msg, request, cceRead, isrVars>>

TxCheck ==
    /\ At("txCheck")
    /\ IF cccr.cce THEN ret' = "ERR_BUSY" /\ step' = "ready"
                   ELSE step' = "txRequest" /\ UNCHANGED ret
    /\ UNCHANGED <<mcanVars, nvic, msg, request, cceRead, isrVars>>

TxRequest ==
    /\ At("txRequest")
    /\ WriteTxbar
    /\ ret' = "STATUS_OK"
    /\ step' = "ready"
    /\ UNCHANGED <<cccr, ie, ir, busOff, txElement, wire, onBus, rxVars, nvic,
                   msg, request, cceRead, isrVars>>

\* The can_set_rx_*_filter functions.  A standard element is one word; of an
\* extended element F0 (destination and identifier) is written before F1.
FilterId ==
    /\ At("filterId")
    /\ LET f == request.filter IN
         IF request.ext
           THEN /\ extFilter' = [extFilter EXCEPT
                      ![request.slot] = [f EXCEPT !.arg = extFilter[request.slot].arg]]
                /\ step' = "filterArg"
                /\ UNCHANGED stdFilter
           ELSE /\ stdFilter' = [stdFilter EXCEPT ![request.slot] = f]
                /\ step' = "filterIrq"
                /\ UNCHANGED extFilter
    /\ UNCHANGED <<cccr, ie, ir, busOff, txVars, ndat, rxBuffer, fifo, nvic,
                   msg, request, cceRead, ret, isrVars>>

FilterArg ==
    /\ At("filterArg")
    /\ extFilter' = [extFilter EXCEPT ![request.slot].arg = request.filter.arg]
    /\ step' = "filterIrq"
    /\ UNCHANGED <<cccr, ie, ir, busOff, txVars, stdFilter, ndat, rxBuffer, fifo, nvic,
                   msg, request, cceRead, ret, isrVars>>

FilterIrq ==
    /\ At("filterIrq")
    /\ mcan_enable_interrupt({CASE request.filter.dest = "buffer" -> "DRX"
                                [] request.ext                    -> "RF1N"
                                [] OTHER                          -> "RF0N"})
    /\ step' = "ready"
    /\ UNCHANGED <<cccr, ir, busOff, txVars, rxVars, nvic,
                   msg, request, cceRead, ret, isrVars>>

\* The calls of a client.
Send(m) ==
    /\ At("ready")
    /\ step' = "txHead"
    /\ msg' = m
    /\ UNCHANGED <<mcanVars, nvic, request, cceRead, ret, isrVars>>

SetFilter(r) ==
    /\ At("ready")
    /\ step' = "filterId"
    /\ request' = r
    /\ UNCHANGED <<mcanVars, nvic, msg, cceRead, ret, isrVars>>

Stop ==
    /\ At("ready")
    /\ step' = "stopRead"
    /\ UNCHANGED <<mcanVars, nvic, msg, request, cceRead, ret, isrVars>>

Start ==
    /\ At("ready")
    /\ step' = "start"
    /\ UNCHANGED <<mcanVars, nvic, msg, request, cceRead, ret, isrVars>>

CallStep ==
    \/ can_init
    \/ StartWrite \/ StartWait \/ can_enable_irq
    \/ StopRead \/ StopWrite \/ StopWait \/ can_disable_irq
    \/ TxHead \/ TxData \/ TxCheck \/ TxRequest
    \/ FilterId \/ FilterArg \/ FilterIrq

Client ==
    \/ "send" \in ClientCalls /\ \E m \in Messages : Send(m)
    \/ "filter" \in ClientCalls /\ \E r \in FilterRequests : SetFilter(r)
    \/ "stop" \in ClientCalls /\ Stop
    \/ "start" \in ClientCalls /\ Start

-----------------------------------------------------------------------------
(* MCAN1_INT0_Handler.                                                     *)

IrqEnter ==
    /\ isr = "idle"
    /\ nvic
    /\ ir \cap ie # {}
    /\ status' = ir     \* all flags, those not enabled too
    /\ isr' = "rxBuffer"
    /\ UNCHANGED <<mcanVars, nvic, threadVars, scan, rxElement, rxFifoElement,
                   standard_receive_index, extended_receive_index, printed>>

\* The branch for flag f: clear the flag and go on at "next", or go to "skip".
Branch(f, next, skip) ==
    /\ IF f \in status
         THEN mcan_clear_interrupt_status({f}) /\ isr' = next
         ELSE isr' = skip /\ UNCHANGED ir
    /\ UNCHANGED <<cccr, ie, busOff, txVars, rxVars, nvic, threadVars, status, rxElement,
                   rxFifoElement, standard_receive_index, extended_receive_index, printed>>

IsrRxBuffer ==
    /\ isr = "rxBuffer"
    /\ Branch("DRX", "scan", "fifo0")
    /\ scan' = 0

\* One turn of the loop over the Rx buffers, up to the clearing of NDAT.
IsrScan ==
    /\ isr = "scan"
    /\ \/ scan >= RxBufferNum /\ isr' = "fifo0" /\ UNCHANGED <<scan, ndat>>
       \/ scan \in RxBuffers \ ndat /\ scan' = scan + 1 /\ UNCHANGED <<isr, ndat>>
       \/ scan \in ndat /\ ndat' = ndat \ {scan} /\ isr' = "copyHead" /\ UNCHANGED scan
    /\ UNCHANGED <<cccr, ie, ir, busOff, txVars, stdFilter, extFilter, rxBuffer, fifo, nvic,
                   threadVars, status, rxElement, rxFifoElement,
                   standard_receive_index, extended_receive_index, printed>>

\* The copy of the element follows, and its printing, whose loop runs over the
\* same i and leaves it at CONF_MCAN_ELEMENT_DATA_SIZE.
IsrCopyHead ==
    /\ isr = "copyHead"
    /\ rxElement' = [rxElement EXCEPT !.head = rxBuffer[scan]]
    /\ isr' = "copyData"
    /\ UNCHANGED <<mcanVars, nvic, threadVars, status, scan, rxFifoElement,
                   standard_receive_index, extended_receive_index, printed>>

\* Faulty variants: NDAT is cleared (again) after the copy; DRX is.
IsrCopyDataLateNdat ==
    /\ isr = "copyData"
    /\ rxElement' = [rxElement EXCEPT !.data = rxBuffer[scan]]
    /\ printed' = [printed EXCEPT ![scan] = rxElement']
    /\ ndat' = ndat \ {scan}
    /\ scan' = ElementDataSize + 1
    /\ isr' = "scan"
    /\ UNCHANGED <<cccr, ie, ir, busOff, txVars, stdFilter, extFilter, rxBuffer, fifo, nvic,
                   threadVars, status, rxFifoElement,
                   standard_receive_index, extended_receive_index>>

IsrCopyDataLateFlag ==
    /\ isr = "copyData"
    /\ rxElement' = [rxElement EXCEPT !.data = rxBuffer[scan]]
    /\ printed' = [printed EXCEPT ![scan] = rxElement']
    /\ ir' = ir \ {"DRX"}
    /\ scan' = ElementDataSize + 1
    /\ isr' = "scan"
    /\ UNCHANGED <<cccr, ie, busOff, txVars, rxVars, nvic, threadVars, status, rxFifoElement,
                   standard_receive_index, extended_receive_index>>

IsrCopyData ==
    /\ isr = "copyData"
    /\ rxElement' = [rxElement EXCEPT !.data = rxBuffer[scan]]
    /\ printed' = [printed EXCEPT ![scan] = rxElement']
    /\ scan' = ElementDataSize + 1
    /\ isr' = "scan"
    /\ UNCHANGED <<mcanVars, nvic, threadVars, status, rxFifoElement,
                   standard_receive_index, extended_receive_index>>

\* The FIFO branches read one element, at an index the software counts.  Both
\* acknowledge it to FIFO 0.  The copy is one step here, although in overwrite mode
\* the peripheral may refill the element under it: no property reads the copy.
FifoRead(n, index) ==
    /\ rxFifoElement' = [rxFifoElement EXCEPT ![n] = fifo[n].ram[index]]
    /\ UNCHANGED <<mcanVars, nvic, threadVars, status, scan, rxElement,
                   standard_receive_index, extended_receive_index, printed>>

mcan_rx_fifo_acknowledge(n, index) ==
    /\ \E q \in FifoAcknowledge(fifo[n], index) : fifo' = [fifo EXCEPT ![n] = q]
    /\ UNCHANGED <<cccr, ie, ir, busOff, txVars, stdFilter, extFilter, ndat, rxBuffer, nvic,
                   threadVars, status, scan, rxElement, rxFifoElement, printed>>

\* Faulty variants: the index never wraps; it wraps one element early.
NextIndexNoWrap(index) == index + 1
NextIndexEarly(index)  == IF index + 2 = FifoSize THEN 0 ELSE index + 1

NextIndex(index) == IF index + 1 = FifoSize THEN 0 ELSE index + 1

IsrFifo0 == isr = "fifo0" /\ Branch("RF0N", "fifo0Read", "fifo1") /\ UNCHANGED scan

IsrFifo0Read ==
    /\ isr = "fifo0Read"
    /\ FifoRead(0, standard_receive_index)
    /\ isr' = "fifo0Ack"

IsrFifo0Ack ==
    /\ isr = "fifo0Ack"
    /\ mcan_rx_fifo_acknowledge(0, standard_receive_index)
    /\ standard_receive_index' = NextIndex(standard_receive_index)
    /\ isr' = "fifo1"
    /\ UNCHANGED extended_receive_index

IsrFifo1 == isr = "fifo1" /\ Branch("RF1N", "fifo1Read", "error") /\ UNCHANGED scan

IsrFifo1Read ==
    /\ isr = "fifo1Read"
    /\ FifoRead(1, extended_receive_index)
    /\ isr' = "fifo1Ack"

IsrFifo1Ack ==
    /\ isr = "fifo1Ack"
    /\ mcan_rx_fifo_acknowledge(0, extended_receive_index)
    /\ extended_receive_index' = NextIndex(extended_receive_index)
    /\ isr' = "error"
    /\ UNCHANGED standard_receive_index

IsrError ==
    /\ isr = "error"
    /\ IF status \cap {"ACKE", "FOE"} # {}
         THEN mcan_clear_interrupt_status({"ACKE", "FOE"})
         ELSE UNCHANGED ir
    /\ isr' = "busOff"
    /\ UNCHANGED <<cccr, ie, busOff, txVars, rxVars, nvic, threadVars, status, scan, rxElement,
                   rxFifoElement, standard_receive_index, extended_receive_index, printed>>

\* Faulty variant: the flag stays.
IsrBusOffKeepsFlag ==
    /\ isr = "busOff"
    /\ isr' = IF "BO" \in status THEN "busOffStop" ELSE "idle"
    /\ UNCHANGED <<mcanVars, nvic, threadVars, status, scan, rxElement, rxFifoElement,
                   standard_receive_index, extended_receive_index, printed>>

\* The bus-off branch: clear the flag, mcan_stop, can_init.  Not mcan_start.
IsrBusOff == isr = "busOff" /\ Branch("BO", "busOffStop", "idle") /\ UNCHANGED scan

IsrBusOffStop ==
    /\ isr = "busOffStop"
    /\ SetInit(cccr.cce)
    /\ isr' = "busOffInit"
    /\ UNCHANGED <<ie, ir, busOff, txElement, txbrp, onBus, rxVars, nvic, threadVars, status, scan, rxElement,
                   rxFifoElement, standard_receive_index, extended_receive_index, printed>>

\* Faulty variant: the node is stopped and not initialised.
IsrBusOffNoInit ==
    /\ isr = "busOffInit"
    /\ isr' = "idle"
    /\ UNCHANGED <<mcanVars, nvic, threadVars, status, scan, rxElement, rxFifoElement,
                   standard_receive_index, extended_receive_index, printed>>

IsrBusOffInit ==
    /\ isr = "busOffInit"
    /\ mcan_init
    /\ isr' = "idle"
    /\ UNCHANGED <<ie, ir, busOff, txElement, onBus, stdFilter, extFilter, ndat, rxBuffer,
                   nvic, threadVars, status, scan, rxElement, rxFifoElement,
                   standard_receive_index, extended_receive_index, printed>>

IsrStep ==
    \/ IrqEnter
    \/ IsrRxBuffer \/ IsrScan \/ IsrCopyHead \/ IsrCopyData
    \/ IsrFifo0 \/ IsrFifo0Read \/ IsrFifo0Ack
    \/ IsrFifo1 \/ IsrFifo1Read \/ IsrFifo1Ack
    \/ IsrError \/ IsrBusOff \/ IsrBusOffStop \/ IsrBusOffInit

\* The node takes part in bus traffic 11 recessive bits (22 us) after INIT is
\* cleared: not before mcan_start reads it back, unless the handler intervenes.
Hardware ==
    /\ HwNext
    /\ ~At("startWait")
    /\ UNCHANGED <<nvic, threadVars, isrVars>>

-----------------------------------------------------------------------------
Next == CallStep \/ Client \/ IsrStep \/ Hardware

Spec == Init /\ [][Next]_canVars

\* The processor executes: a function that can go on does, and an interrupt
\* that is raised is served.  A node that software lets rejoin the bus does so.
\* Nothing else is assumed of the bus, of the client or of the order in which
\* the two contexts are chosen.
Recovery == HwRecover /\ ~At("startWait") /\ UNCHANGED <<nvic, threadVars, isrVars>>

Fairness == WF_canVars(CallStep) /\ WF_canVars(IsrStep) /\ WF_canVars(Recovery)

FairSpec == Spec /\ Fairness

-----------------------------------------------------------------------------
(* Properties.                                                             *)

\* A message that waits to be sent is one whole message: the peripheral finds
\* the identifier of one and the data of another only while can_tx_message is
\* between its two writes into an element whose request was still pending.
PendingIsWhole == txbrp /\ step # "txData" => txElement.head = txElement.data

\* The wait for INIT in mcan_start ends, but for one case: while the handler held
\* the thread up there, the node went bus-off, or the handler served a bus-off
\* and put the node back into configuration.  Then the thread waits for ever.
StartHangsOnlyByBusOff == At("startWait") /\ cccr.init => busOff \/ cccr.cce

Mailbox == INSTANCE TxMailbox WITH
    open    <- ~cccr.cce,
    content <- txElement.data,
    waiting <- txbrp,
    taken   <- wire,
    calling <- IF step \in TxSteps THEN msg ELSE NoMessage,
    answer  <- ret,
    sent    <- onBus

\* can_tx_message is a mailbox for any client, one that stops and restarts the
\* node too: what the bus takes is whole unless a call replaces it meanwhile, a
\* refusal means a closed mailbox, and a message is lost only if it is replaced, if
\* the mailbox closes, or if it came while the bus was carrying another.
ImplementsMailbox == Mailbox!MailSpec

\* What the bus has taken so far, if anything, is of message m.
OnlyOf(m) == wire.head \in {NoMessage, m} /\ wire.data \in {NoMessage, m}

\* What became of the last message that can_tx_message accepted: it waits and the
\* bus takes it and nothing else, or it was the last one carried, or the node is in
\* configuration, or its request came while an older frame was on the bus.  Only
\* then may it be lost ("missed"), and not before that frame got through: if the
\* frame breaks off, the message waits again.  (A message before the last may also
\* be overwritten while it waits.)  For clients that neither stop nor restart the
\* node.
LastAcceptedWins ==
    ret = "STATUS_OK" /\ step \notin TxSteps =>
      /\ fate # "none"
      /\ fate = "waits"   => txbrp /\ txElement = Whole(msg) /\ OnlyOf(msg)
      /\ fate = "behind"  => txbrp /\ txElement = Whole(msg) /\ OnWire
      /\ fate = "sent"    => onBus = Whole(msg) /\ ~txbrp
      /\ fate = "dropped" => cccr.cce

\* The bus-off interrupt has been served.
BusOffServed == busOff /\ "BO" \notin ir /\ isr \notin {"busOffStop", "busOffInit"}

\* Once the handler has served bus-off the node is in configuration with nothing
\* pending, and stays so: can_tx_message can only answer ERR_BUSY, and the
\* message it was about to request at that moment is never sent late.  For
\* clients that neither stop nor restart the node.
ServedNodeIsSilent == BusOffServed => cccr.init /\ cccr.cce /\ ~txbrp

\* What the handler printed last of an Rx buffer without new data is what the
\* buffer holds, but for the one it is copying: a frame that arrives while the
\* handler copies an older one is never taken for read.
ReadIsCurrent ==
    \A b \in RxBuffers :
      /\ b \notin ndat
      /\ isr \in {"copyHead", "copyData"} => scan # b
      /\ rxBuffer[b] # NoFrame
      => printed[b] = Whole(rxBuffer[b])

\* A buffer with new data has an interrupt to come or is ahead of the running
\* scan.  For clients that use one Rx buffer, as the firmware does: the scan
\* ends at the first buffer it serves.
NoStrandedBuffer ==
    \A b \in ndat :
      \/ "DRX" \in ir
      \/ isr = "scan" /\ scan <= b

Reception == INSTANCE RxSlots WITH
    Slots   <- RxBuffers,
    Frames  <- Frame,
    content <- rxBuffer,
    unread  <- ndat,
    reading <- IF isr \in {"copyHead", "copyData"} THEN {scan} ELSE {},
    shown   <- printed

\* Handler and peripheral together are slots: a response is not replaced before
\* the handler took it, one that was taken is printed, and it is printed whole
\* unless the next one came during the copy and is marked as new.
ImplementsSlots == Reception!SlotsSpec

\* The software's index into FIFO 0 keeps to the peripheral's get index, and an
\* acknowledge releases exactly the element that was read, from the moment they
\* agree until a full FIFO overwrites, FIFO 1 is served, or the node is
\* initialised again.  (An acknowledge after an overwrite releases the whole
\* FIFO, and the flags of what it held then make the handler read elements that
\* are not there.)
FifoInStep ==
    [][ /\ fifo[0].get = standard_receive_index
        /\ fifo[0].fill < FifoSize
        /\ isr = "fifo0Ack" => fifo[0].fill > 0
        /\ isr \notin {"fifo1Ack", "busOffInit"}
        => /\ fifo'[0].get = standard_receive_index'
           /\ isr = "fifo0Ack" /\ isr' # isr => fifo'[0].fill + 1 = fifo[0].fill
      ]_canVars

\* Every call comes to its end, whatever the peripheral does, provided no other
\* interrupts than bus-off keep the processor.
CallsReturn == []<>(step = "ready")

\* The handler reads every Rx buffer that gets new data.
EveryBufferIsRead == \A b \in RxBuffers : b \in ndat ~> b \notin ndat

-----------------------------------------------------------------------------
(* What comments of the code promise and the code does not do.             *)

\* mcan.h:959, mcan_tx_transfer_request: "STATUS_OK   Set the transfer request."
\* The message accepted last waits or was carried last.
AcceptedIsRequested ==
    ret = "STATUS_OK" /\ step \notin TxSteps /\ ~cccr.cce => txbrp \/ onBus = Whole(msg)

\* mcan.h:847, mcan_rx_fifo_acknowledge, "Set Rx acknowledge", of the FIFO that
\* was read: serving FIFO 1 leaves FIFO 0 alone.
Fifo1AckIsForFifo1 == [][ isr = "fifo1Ack" /\ isr' # isr => fifo'[0] = fifo[0] ]_canVars

\* can_controller.c:363, "MCAN bus off error, re-initialization.", and
\* mcan.c:351, "start can module after initialization": the node comes back.
BusOffRecovers == busOff ~> Running

=============================================================================
