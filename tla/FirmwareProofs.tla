--------------------------- MODULE FirmwareProofs ---------------------------
(* Proofs about Firmware.tla: the firmware is a client of the controller   *)
(* and its command processing implements the ledger, and what its counters *)
(* say about the bus, for every set of keys, every size of the message RAM *)
(* and every behaviour of the bus.                                         *)
EXTENDS Firmware, CanReceiveProofs, CommandsProofs

-----------------------------------------------------------------------------
(* The firmware is a client.                                               *)

LEMMA IsNoStopStart == NoStopStart
  BY FirmwareAssumption DEF NoStopStart

LEMMA FilterIsRequested == ResponseFilter \in FilterRequests
  BY FirmwareAssumption

\* Steps of main outside the controller.
MainLocal ==
    \/ FinishBoot
    \/ \E k \in Keys : ReadKey(k)
    \/ FnReturn
    \/ SetId
    \/ Count
    \/ CopyCounters

LEMMA MainLocalFrame == MainLocal => UNCHANGED canVars /\ At("ready")
  BY DEF MainLocal, FinishBoot, ReadKey, FnReturn, SetId, Count, CopyCounters, InMain

LEMMA FwCases ==
    FwNext <=> MainLocal \/ FnSend \/ FnReceive \/ Below
  BY DEF FwNext, MainStep, MainLocal

LEMMA FwStepIsClient == [FwNext]_fwVars => [Next]_canVars
<1>1. CASE MainLocal
  BY <1>1, MainLocalFrame
<1>2. CASE FnSend
  BY <1>2, FirmwareAssumption DEF FnSend, Next, Client
<1>3. CASE FnReceive
  BY <1>3, FirmwareAssumption, FilterIsRequested DEF FnReceive, Next, Client
<1>4. CASE Below
  BY <1>4 DEF Below, Next
<1>5. CASE UNCHANGED fwVars
  BY <1>5 DEF fwVars
<1> QED
  BY <1>1, <1>2, <1>3, <1>4, <1>5, FwCases

\* The firmware drives the controller as a client of CanController.tla.
THEOREM FirmwareClient == FwSpec => FirmwareIsClient
<1>1. FwInit => Init
  BY DEF FwInit
<1> QED
  BY <1>1, FwStepIsClient, PTL DEF FwSpec, FirmwareIsClient, Spec

\* So it inherits what is proved of clients.
COROLLARY FirmwareServedSilent == FwSpec => []ServedNodeIsSilent
<1>1. Spec => []ServedNodeIsSilent
  BY ServedSilent, IsNoStopStart
<1> QED
  BY <1>1, FirmwareClient, PTL DEF FirmwareIsClient

\* The mailbox its subsystem functions send through is the one can_tx_message
\* promises.
COROLLARY FirmwareMailbox == FwSpec => ImplementsMailbox
  BY FirmwareClient, IsMailbox, PTL DEF FirmwareIsClient

\* Responses reach it through the slots of the controller's reception.
COROLLARY FirmwareSlots == FwSpec => ImplementsSlots
  BY FirmwareClient, IsSlots, PTL DEF FirmwareIsClient

\* All responses go to one Rx buffer: none waits there without an interrupt to
\* come.
COROLLARY FirmwareNoneStranded == FwSpec => []NoStrandedBuffer
<1>1. ResponseBuffer \in RxBuffers /\ OneRxBuffer(ResponseBuffer)
  BY FirmwareAssumption DEF OneRxBuffer, ResponseFilter
<1>2. Spec => []NoStrandedBuffer
  BY <1>1, NoneStranded
<1> QED
  BY <1>2, FirmwareClient, PTL DEF FirmwareIsClient

-----------------------------------------------------------------------------
(* What a step of a call does to the thread and to configuration.          *)

BootSteps == {"init"} \cup StartSteps

LEMMA CallFrame ==
    CallStep => /\ step # "ready" /\ UNCHANGED msg
                /\ step \in BootSteps => step' \in BootSteps \cup {"ready"}
                /\ step \notin BootSteps => step' \notin BootSteps
                /\ step \notin TxSteps => step' \notin TxSteps /\ UNCHANGED ret
                /\ step \in TxSteps =>
                     \/ step' \in TxSteps /\ UNCHANGED ret
                     \/ step' \notin TxSteps /\ ret' = "STATUS_OK"
                     \/ step' \notin TxSteps /\ ret' = "ERR_BUSY" /\ cccr.cce
  BY DEF CallStep, can_init, StartWrite, StartWait, can_enable_irq, StopRead, StopWrite,
         StopWait, can_disable_irq, TxHead, TxData, TxCheck, TxRequest,
         FilterId, FilterArg, FilterIrq, At, BootSteps, StartSteps, TxSteps

\* After boot nothing leaves configuration.
LEMMA ConfigurationStays ==
    ASSUME TypeOK, BootInv, [Next]_canVars, step \notin BootSteps, cccr.cce
    PROVE  cccr'.cce
<1>1. CASE CallStep
  <2>1. ~can_init /\ ~StartWrite /\ ~StopWrite
    BY DEF can_init, StartWrite, StopWrite, At, BootSteps, StartSteps, BootInv, StopSteps
  <2>2. CASE TxRequest
    BY <2>2 DEF TxRequest
  <2>3. CASE ~TxRequest
    BY <1>1, <2>1, <2>3, OtherCallSteps
  <2> QED
    BY <2>2, <2>3
<1>2. CASE Client
  BY <1>2, ClientFrame DEF mcanVars
<1>3. CASE IsrStep
  <2>1. CASE IsrBusOffInit
    BY <2>1 DEF IsrBusOffInit, mcan_init, TypeOK, McanTypeOK
  <2>2. CASE IsrBusOffStop
    BY <2>2 DEF IsrBusOffStop, SetInit, TypeOK, McanTypeOK
  <2>3. CASE ~IsrBusOffInit /\ ~IsrBusOffStop
    BY <1>3, <2>3 DEF IsrStep, IrqEnter, Branch, IsrRxBuffer, IsrScan, IsrCopyHead, IsrCopyData,
       FifoRead, mcan_rx_fifo_acknowledge, IsrFifo0, IsrFifo0Read, IsrFifo0Ack, IsrFifo1,
       IsrFifo1Read, IsrFifo1Ack, IsrError, IsrBusOff, mcanVars
  <2> QED
    BY <2>1, <2>2, <2>3
<1>4. CASE Hardware
  BY <1>4, HardwareCce
<1>5. CASE UNCHANGED canVars
  BY <1>5 DEF canVars, mcanVars
<1> QED
  BY <1>1, <1>2, <1>3, <1>4, <1>5 DEF Next

-----------------------------------------------------------------------------
(* The invariant of the firmware.                                          *)

\* Where the thread is in main, in cmd_process, in the function and in the call.
ControlInv ==
    /\ main \in {"boot", "scanf", "command", "telemetry"}
    /\ cmdStep \in {"idle", "execute", "setId", "count"}
    /\ main = "boot" => step \in BootSteps \cup {"ready"} /\ key = OtherKey
    /\ main # "boot" => step \notin BootSteps
    /\ main \in {"boot", "scanf"} => fnStep = "none"
    /\ main = "command" <=> cmdStep # "idle"
    /\ main = "command" => key \in 2 .. 9 /\ cmdId = CommandOf(key)
    /\ main = "telemetry" => key = 0 /\ (fnStep # "none" => todo # << >>)
    /\ cmdStep \in {"setId", "count"} => fnStep = "none"
    /\ main # "boot" /\ fnStep = "none" => step = "ready"

\* What the results of the send, of the function and of the command say of each
\* other and of the bus.
ResultInv ==
    /\ main = "boot" => counters = Zero /\ result = "OPERATION_IN_PROGRESS" /\ ret = "none"
    /\ ret \in {"none", "STATUS_OK", "ERR_BUSY"}
    /\ fnStep # "none" /\ step \notin TxSteps => ret # "none"
    /\ cmdStep \in {"setId", "count"} => result \in {"STATUS_OK", "ERR_BUSY"}
    /\ ret = "ERR_BUSY" \/ result = "ERR_BUSY" \/ counters.aborted_cmds # 0 => cccr.cce

\* Which message a command sent.
SentInv ==
    /\ main = "command" /\ fnStep # "none" => msg = Element(cmdId)
    /\ /\ key \in 2 .. 9
       /\ main = "scanf" \/ cmdStep \in {"setId", "count"}
       /\ Element(CommandOf(key)).op \in Switches
       /\ result = "STATUS_OK"
       => ret = "STATUS_OK" /\ msg = Element(CommandOf(key))

FwInv == ClientInv /\ ControlInv /\ ResultInv /\ SentInv

LEMMA FwInvInit == FwInit => FwInv
<1> SUFFICES ASSUME FwInit PROVE FwInv
  OBVIOUS
<1>1. ClientInv
  BY ClientInvInit DEF FwInit
<1>2. ControlInv
  BY DEF FwInit, Init, CmdInit, ControlInv, BootSteps
<1>3. ResultInv
  BY DEF FwInit, Init, CmdInit, ResultInv, Zero
<1>4. SentInv
  BY DEF FwInit, Init, CmdInit, SentInv
<1> QED
  BY <1>1, <1>2, <1>3, <1>4 DEF FwInv

LEMMA ControlStep == FwInv /\ [FwNext]_fwVars => ControlInv'
<1> SUFFICES ASSUME FwInv, [FwNext]_fwVars PROVE ControlInv'
  OBVIOUS
<1> USE DEF FwInv, ControlInv
<1>1. CASE MainLocal
  <2>1. UNCHANGED step /\ step = "ready" /\ step \notin BootSteps
    BY <1>1, MainLocalFrame DEF canVars, threadVars, At, BootSteps, StartSteps
  <2>2. CASE FinishBoot
    BY <2>1, <2>2 DEF FinishBoot, InMain
  <2>3. ASSUME NEW k \in Keys, ReadKey(k) PROVE ControlInv'
    BY <2>1, <2>3 DEF ReadKey, InMain, CmdCall, cmdVars
  <2>4. CASE FnReturn
    BY <2>1, <2>4 DEF FnReturn, CmdReturn, cmdVars
  <2>5. CASE SetId
    BY <2>1, <2>5 DEF SetId, CmdSetId, InMain, mainVars
  <2>6. CASE Count
    BY <2>1, <2>6 DEF Count, CmdCount, InMain
  <2>7. CASE CopyCounters
    BY <2>1, <2>7 DEF CopyCounters, InMain, cmdVars
  <2> QED
    BY <1>1, <2>2, <2>3, <2>4, <2>5, <2>6, <2>7 DEF MainLocal
<1>2. CASE FnSend
  BY <1>2 DEF FnSend, FnCalled, Send, cmdVars, BootSteps, StartSteps
<1>3. CASE FnReceive
  BY <1>3 DEF FnReceive, FnCalled, SetFilter, cmdVars, BootSteps, StartSteps
<1>4. CASE Below
  <2>1. UNCHANGED <<main, key, fnStep, todo, cmdStep, cmdId>>
    BY <1>4 DEF Below, cmdVars, mainVars
  <2>2. CASE CallStep
    BY <2>1, <2>2, CallFrame
  <2>3. CASE IsrStep \/ Hardware
    BY <2>1, <2>3, IsrFrame, HardwareFrame
  <2> QED
    BY <1>4, <2>2, <2>3 DEF Below
<1>5. CASE UNCHANGED fwVars
  BY <1>5 DEF fwVars, canVars, cmdVars, mainVars, threadVars
<1> QED
  BY <1>1, <1>2, <1>3, <1>4, <1>5, FwCases

LEMMA ResultStep == FwInv /\ [FwNext]_fwVars => ResultInv'
<1> SUFFICES ASSUME FwInv, [FwNext]_fwVars PROVE ResultInv'
  OBVIOUS
<1> USE DEF FwInv, ControlInv, ResultInv
<1>1. CASE MainLocal
  <2>1. /\ UNCHANGED <<step, ret, cccr>>
        /\ step = "ready" /\ step \notin TxSteps
    BY <1>1, MainLocalFrame DEF canVars, mcanVars, threadVars, At, TxSteps
  <2>2. CASE FinishBoot
    BY <2>1, <2>2 DEF FinishBoot, InMain, cmd_init, Zero
  <2>3. ASSUME NEW k \in Keys, ReadKey(k) PROVE ResultInv'
    <3>1. UNCHANGED counters /\ main # "boot" /\ main' # "boot" /\ fnStep' = "none"
      BY <2>3 DEF ReadKey, InMain, CmdCall, cmdVars
    <3>2. /\ cmdStep' = "idle" \/ cmdStep' \in {"execute", "setId"}
          /\ result' = result \/ result' = "OPERATION_IN_PROGRESS"
          /\ cmdStep' = "setId" => k \in 2 .. 9 /\ ~InList(CommandOf(k))
      BY <2>3 DEF ReadKey, InMain, CmdCall, cmdVars
    <3>3. k \in 2 .. 9 => InList(CommandOf(k))
      BY DEF InList, START, END, CommandOf
    <3> QED
      BY <2>1, <3>1, <3>2, <3>3
  <2>4. CASE FnReturn
    BY <2>1, <2>4 DEF FnReturn, CmdReturn, ReturnValue, cmdVars
  <2>5. CASE SetId
    <3>1. counters'.aborted_cmds = counters.aborted_cmds \/ cccr.cce
      BY <2>5 DEF SetId, CmdSetId
    <3> QED
      BY <2>1, <2>5, <3>1 DEF SetId, CmdSetId, InMain, mainVars
  <2>6. CASE Count
    <3>1. counters'.aborted_cmds = counters.aborted_cmds \/ cccr.cce
      BY <2>6 DEF Count, CmdCount
    <3> QED
      BY <2>1, <2>6, <3>1 DEF Count, CmdCount, InMain
  <2>7. CASE CopyCounters
    BY <2>1, <2>7 DEF CopyCounters, InMain, cmdVars
  <2> QED
    BY <1>1, <2>2, <2>3, <2>4, <2>5, <2>6, <2>7 DEF MainLocal
<1>2. CASE FnSend
  <2>1. main # "boot" /\ main' = main /\ step' = "txHead"
    BY <1>2 DEF FnSend, FnCalled, Send
  <2>2. UNCHANGED <<ret, cccr, counters, cmdStep, result>>
    BY <1>2 DEF FnSend, Send, cmdVars, mcanVars
  <2> QED
    BY <2>1, <2>2 DEF TxSteps
<1>3. CASE FnReceive
  <2>1. main # "boot" /\ main' = main /\ fnStep # "none" /\ step = "ready"
    BY <1>3 DEF FnReceive, FnCalled, Receives, SetFilter, At
  <2>2. UNCHANGED <<ret, cccr, counters, cmdStep, result>>
    BY <1>3 DEF FnReceive, SetFilter, cmdVars, mcanVars
  <2> QED
    BY <2>1, <2>2 DEF TxSteps
<1>4. CASE Below
  <2>1. UNCHANGED <<main, fnStep, counters, cmdStep, result>>
    BY <1>4 DEF Below, cmdVars, mainVars
  <2>2. main # "boot" /\ cccr.cce => cccr'.cce
    BY <1>4, FwStepIsClient, ConfigurationStays DEF ClientInv
  <2>3. CASE CallStep
    <3>1. step \in BootSteps => step \notin TxSteps
      BY DEF BootSteps, StartSteps, TxSteps
    <3> QED
      BY <2>1, <2>2, <2>3, <3>1, CallFrame DEF Zero
  <2>4. CASE IsrStep \/ Hardware
    <3>1. UNCHANGED <<ret, step>>
      BY <2>4, IsrFrame, HardwareFrame
    <3> QED
      BY <2>1, <2>2, <3>1 DEF Zero
  <2> QED
    BY <1>4, <2>3, <2>4 DEF Below
<1>5. CASE UNCHANGED fwVars
  BY <1>5 DEF fwVars, canVars, cmdVars, mainVars, mcanVars, threadVars
<1> QED
  BY <1>1, <1>2, <1>3, <1>4, <1>5, FwCases

LEMMA SentStep == FwInv /\ [FwNext]_fwVars => SentInv'
<1> SUFFICES ASSUME FwInv, [FwNext]_fwVars PROVE SentInv'
  OBVIOUS
<1> USE DEF FwInv, ControlInv, SentInv
<1>1. CASE MainLocal
  <2>1. UNCHANGED <<ret, msg>>
    BY <1>1, MainLocalFrame DEF canVars, threadVars
  <2>2. CASE FinishBoot
    BY <2>1, <2>2 DEF FinishBoot, InMain, OtherKey
  <2>3. ASSUME NEW k \in Keys, ReadKey(k) PROVE SentInv'
    BY <2>1, <2>3 DEF ReadKey, InMain, CmdCall, cmdVars, OtherKey
  <2>4. CASE FnReturn
    <3>1. CASE main = "command"
      <4>1. PICK f \in Messages : FnCalled(f) /\ CmdReturn(ReturnValue(f))
        BY <2>4, <3>1 DEF FnReturn
      <4>2. f = Element(cmdId) /\ msg = f
        BY <2>4, <3>1, <4>1 DEF FnReturn, FnCalled
      <4>3. f.op \in Switches /\ result' = "STATUS_OK" => ret = "STATUS_OK"
        BY <4>1 DEF CmdReturn, ReturnValue
      <4>4. UNCHANGED <<main, key, cmdId>> /\ fnStep' = "none"
        BY <2>4, <4>1 DEF FnReturn, CmdReturn
      <4> QED
        BY <2>1, <3>1, <4>2, <4>3, <4>4
    <3>2. CASE main # "command"
      BY <2>1, <2>4, <3>2 DEF FnReturn, FnCalled, cmdVars
    <3> QED
      BY <3>1, <3>2
  <2>5. CASE SetId
    BY <2>1, <2>5 DEF SetId, CmdSetId, mainVars
  <2>6. CASE Count
    BY <2>1, <2>6 DEF Count, CmdCount
  <2>7. CASE CopyCounters
    BY <2>1, <2>7 DEF CopyCounters, InMain, cmdVars
  <2> QED
    BY <1>1, <2>2, <2>3, <2>4, <2>5, <2>6, <2>7 DEF MainLocal
<1>2. CASE FnSend
  BY <1>2 DEF FnSend, FnCalled, Send, cmdVars
<1>3. CASE FnReceive
  BY <1>3 DEF FnReceive, FnCalled, Receives, SetFilter, cmdVars
<1>4. CASE Below
  <2>1. UNCHANGED <<main, key, fnStep, cmdStep, cmdId, result>>
    BY <1>4 DEF Below, cmdVars, mainVars
  <2>2. CASE CallStep
    BY <2>1, <2>2, CallFrame
  <2>3. CASE IsrStep \/ Hardware
    BY <2>1, <2>3, IsrFrame, HardwareFrame
  <2> QED
    BY <1>4, <2>2, <2>3 DEF Below
<1>5. CASE UNCHANGED fwVars
  BY <1>5 DEF fwVars, canVars, cmdVars, mainVars, threadVars
<1> QED
  BY <1>1, <1>2, <1>3, <1>4, <1>5, FwCases

LEMMA FwInvStep == FwInv /\ [FwNext]_fwVars => FwInv'
<1> SUFFICES ASSUME FwInv, [FwNext]_fwVars PROVE FwInv'
  OBVIOUS
<1>1. ClientInv'
  BY FwStepIsClient, ClientInvStep, IsNoStopStart DEF FwInv
<1> QED
  BY <1>1, ControlStep, ResultStep, SentStep DEF FwInv

\* A command is aborted only because the handler took the node off the bus, for
\* good.
THEOREM AbortedOffBus == FwSpec => []AbortedIsOffBus
<1>1. FwInv => AbortedIsOffBus
  <2> SUFFICES ASSUME FwInv, counters.aborted_cmds # 0 \/ result = "ERR_BUSY"
               PROVE  cccr.init /\ cccr.cce /\ ~txbrp /\ isr \notin {"busOffStop", "busOffInit"}
    BY DEF AbortedIsOffBus
  <2>1. cccr.cce /\ main # "boot"
    BY DEF FwInv, ResultInv, Zero
  <2>2. step \notin {"init", "start"}
    BY <2>1 DEF FwInv, ControlInv, BootSteps, StartSteps
  <2> QED
    BY <2>1, <2>2 DEF FwInv, ClientInv, OffBusInv, ConfigInv, BusOffServed
<1> QED
  BY <1>1, FwInvInit, FwInvStep, PTL DEF FwSpec

\* A switch command counted as executed waits, is the one the bus carries or carried
\* last, while the node stays on the bus; unless its request came while an older
\* frame was on the bus.
THEOREM ExecutedOnItsWay == FwSpec => []ExecutedIsOnItsWay
<1>1. FwInv => ExecutedIsOnItsWay
  <2> SUFFICES ASSUME FwInv PROVE ExecutedIsOnItsWay
    OBVIOUS
  <2>1. main = "scanf" \/ cmdStep \in {"setId", "count"} => step = "ready"
    BY DEF FwInv, ControlInv
  <2>2. fate \in Fates
    BY DEF FwInv, ClientInv, TypeOK, McanTypeOK
  <2> QED
    BY <2>1, <2>2 DEF FwInv, SentInv, ClientInv, LastAcceptedWins, ExecutedIsOnItsWay, TxSteps,
           Fates
<1> QED
  BY <1>1, FwInvInit, FwInvStep, PTL DEF FwSpec

-----------------------------------------------------------------------------
(* The firmware's command processing.                                      *)

LEMMA FwStepIsCommand == FwInv /\ [FwNext]_fwVars => [CmdNext]_cmdVars
<1> SUFFICES ASSUME FwInv, [FwNext]_fwVars PROVE [CmdNext]_cmdVars
  OBVIOUS
<1>1. CASE MainLocal
  <2>1. CASE FinishBoot
    BY <2>1 DEF FinishBoot, InMain, cmd_init, FwInv, ResultInv, cmdVars
  <2>2. ASSUME NEW k \in Keys, ReadKey(k) PROVE [CmdNext]_cmdVars
    <3>1. k \in 2 .. 9 => CommandOf(k) \in CmdIds
      BY FirmwareAssumption DEF CommandOf
    <3> QED
      BY <2>2, <3>1 DEF ReadKey, CmdNext
  <2>3. CASE FnReturn
    <3>1. CASE main = "command"
      <4>1. PICK f \in Messages : FnCalled(f) /\ CmdReturn(ReturnValue(f))
        BY <2>3, <3>1 DEF FnReturn
      <4>2. f = Element(cmdId) /\ cmdStep = "execute"
        BY <3>1, <4>1 DEF FnCalled
      <4>3. ret \in {"STATUS_OK", "ERR_BUSY"}
        BY <2>3 DEF FnReturn, At, FwInv, ResultInv, TxSteps
      <4>4. ReturnValue(f) \in Results(f)
        BY <4>3 DEF ReturnValue, Results
      <4> QED
        BY <4>1, <4>2, <4>4 DEF CmdNext
    <3>2. CASE main # "command"
      BY <2>3, <3>2 DEF FnReturn
    <3> QED
      BY <3>1, <3>2
  <2>4. CASE SetId \/ Count \/ CopyCounters
    BY <2>4 DEF SetId, Count, CopyCounters, CmdNext
  <2> QED
    BY <1>1, <2>1, <2>2, <2>3, <2>4 DEF MainLocal
<1>2. CASE FnSend \/ FnReceive \/ Below
  BY <1>2 DEF FnSend, FnReceive, Below
<1>3. CASE UNCHANGED fwVars
  BY <1>3 DEF fwVars
<1> QED
  BY <1>1, <1>2, <1>3, FwCases

\* In the whole firmware, interrupts and bus-off included, every command a key
\* starts makes exactly one entry of the ledger.
THEOREM FirmwareLedger == FwSpec => ImplementsLedger
<1>1. FwInit => CmdInit
  BY DEF FwInit
<1>2. FwSpec => CmdSpec
  BY <1>1, FwInvInit, FwInvStep, FwStepIsCommand, PTL DEF FwSpec, CmdSpec
<1> QED
  BY <1>2, CmdRefinesLedger, PTL

-----------------------------------------------------------------------------
(* Types.                                                                  *)

\* What ControlInv leaves out of FwTypeOK.
DataInv ==
    /\ CmdInv
    /\ key \in 0 .. OtherKey
    /\ fnStep \in {"none", "sending", "filtering"}
    /\ todo \in Seq(Messages)

LEMMA TelemetryGetsType == TelemetryGets \in Seq(Messages)
  BY FirmwareAssumption DEF TelemetryGets, Fn, Subsystems, Gets

LEMMA DataStep == FwInv /\ DataInv /\ [FwNext]_fwVars => DataInv'
<1> SUFFICES ASSUME FwInv, DataInv, [FwNext]_fwVars PROVE DataInv'
  OBVIOUS
<1> USE DEF DataInv
<1>1. CmdInv'
  BY FwStepIsCommand, CmdInvStep
<1>2. CASE MainLocal
  <2>1. ASSUME NEW k \in Keys, ReadKey(k) PROVE DataInv'
    BY <1>1, <2>1, TelemetryGetsType, FirmwareAssumption DEF ReadKey
  <2>2. CASE FnReturn
    <3>1. key' = key /\ fnStep' = "none"
      BY <2>2 DEF FnReturn
    <3>2. CASE main = "command"
      BY <1>1, <2>2, <3>1, <3>2 DEF FnReturn
    <3>3. CASE main # "command"
      <4>1. todo # << >> /\ todo' = Tail(todo)
        BY <2>2, <3>3 DEF FnReturn, FnCalled
      <4> QED
        BY <1>1, <3>1, <4>1
    <3> QED
      BY <3>2, <3>3
  <2>3. CASE FinishBoot \/ SetId \/ Count \/ CopyCounters
    BY <1>1, <2>3 DEF FinishBoot, SetId, Count, CopyCounters, mainVars
  <2> QED
    BY <1>2, <2>1, <2>2, <2>3 DEF MainLocal
<1>3. CASE FnSend \/ FnReceive
  BY <1>1, <1>3 DEF FnSend, FnReceive
<1>4. CASE Below \/ UNCHANGED fwVars
  BY <1>1, <1>4 DEF Below, fwVars, mainVars
<1> QED
  BY <1>2, <1>3, <1>4, FwCases

\* The whole firmware keeps its types, and main, cmd_process and the subsystem
\* functions are only where each other's state allows.
THEOREM FwTypeCorrect == FwSpec => []FwTypeOK
<1>1. FwInit => FwInv /\ DataInv
  <2>1. FwInit => CmdInv
    BY CmdInvInit DEF FwInit
  <2>2. << >> \in Seq(Messages)
    OBVIOUS
  <2> QED
    BY <2>1, <2>2, FwInvInit DEF FwInit, DataInv, OtherKey
<1>2. FwInv /\ DataInv => FwTypeOK
  BY DEF FwInv, ClientInv, ControlInv, DataInv, CmdInv, ResultMeans, FwTypeOK
<1> QED
  BY <1>1, <1>2, FwInvStep, DataStep, PTL DEF FwSpec

=============================================================================
