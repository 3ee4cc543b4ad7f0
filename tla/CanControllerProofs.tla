------------------------- MODULE CanControllerProofs -------------------------
(* Proofs about CanController.tla and CanLengths.tla.                      *)
EXTENDS CanController, CanLengths, TLAPS

-----------------------------------------------------------------------------
(* The peripheral.                                                         *)

\* FIFO arithmetic stays in the FIFO.
LEMMA PutIndexType ==
    ASSUME NEW q \in Fifo
    PROVE  PutIndex(q) \in 0 .. FifoSize - 1
  BY SizesAssumption, SMTT(30) DEF PutIndex, Fifo

LEMMA FifoPutType ==
    ASSUME NEW q \in Fifo, NEW f \in Frame
    PROVE  FifoPut(q, f) \in Fifo
<1>1. (q.get + 1) % FifoSize \in 0 .. FifoSize - 1
  BY SizesAssumption, SMTT(30) DEF Fifo
<1>2. q.fill # FifoSize => q.fill + 1 \in 0 .. FifoSize
  BY SizesAssumption DEF Fifo
<1>3. [q.ram EXCEPT ![PutIndex(q)] = f] \in [0 .. FifoSize - 1 -> Frame \cup {NoFrame}]
  BY PutIndexType DEF Fifo
<1> QED
  BY <1>1, <1>2, <1>3, SizesAssumption DEF Fifo, FifoPut

LEMMA FifoLevelsType ==
    ASSUME NEW q \in Fifo, NEW g \in 0 .. FifoSize - 1, NEW n \in 0 .. FifoSize
    PROVE  [q EXCEPT !.get = g, !.fill = n] \in Fifo
  BY DEF Fifo

LEMMA FifoAcknowledgeType ==
    ASSUME NEW q \in Fifo, NEW k \in 0 .. FifoSize - 1, NEW r \in FifoAcknowledge(q, k)
    PROVE  r \in Fifo
<1> DEFINE next   == (k + 1) % FifoSize
           behind == (k + FifoSize - q.get) % FifoSize
           fills  == IF behind < q.fill
                       THEN {q.fill - behind - 1}
                       ELSE {n \in 0 .. FifoSize : (next + n) % FifoSize = PutIndex(q)}
<1>1. PICK n \in fills : r = [q EXCEPT !.get = next, !.fill = n]
  BY DEF FifoAcknowledge
<1>2. next \in 0 .. FifoSize - 1
  BY SizesAssumption, SMTT(30)
<1>3. behind \in 0 .. FifoSize - 1
  BY SizesAssumption, SMTT(30) DEF Fifo
<1>4. n \in 0 .. FifoSize
  <2> HIDE DEF behind, next
  <2>1. CASE behind < q.fill
    BY <1>1, <1>3, <2>1, SizesAssumption DEF Fifo
  <2>2. CASE ~(behind < q.fill)
    BY <1>1, <2>2
  <2> QED
    BY <2>1, <2>2
<1> HIDE DEF next, fills
<1> QED
  BY <1>1, <1>2, <1>4, FifoLevelsType

\* The driver's accesses to registers and FIFOs keep the types.
LEMMA NoWireType == NoWire \in TxElement
  BY DEF NoWire, Whole, TxElement

LEMMA AbortType ==
    ASSUME McanTypeOK, AbortFrame
    PROVE  wire' \in TxElement /\ fate' \in Fates
  BY NoWireType DEF AbortFrame, McanTypeOK, Fates

LEMMA McanInitOpType ==
    ASSUME McanTypeOK, mcan_init
    PROVE  /\ cccr' \in [init : BOOLEAN, cce : BOOLEAN]
           /\ txbrp' \in BOOLEAN /\ wire' \in TxElement /\ fate' \in Fates
           /\ fifo' \in [{0, 1} -> Fifo]
<1>1. \A q \in Fifo : [q EXCEPT !.get = 0, !.fill = 0] \in Fifo
  <2>1. 0 \in 0 .. FifoSize - 1 /\ 0 \in 0 .. FifoSize
    BY SizesAssumption
  <2> QED
    BY <2>1, FifoLevelsType
<1>2. \A n \in {0, 1} : [fifo[n] EXCEPT !.get = 0, !.fill = 0] \in Fifo
  BY <1>1 DEF McanTypeOK
<1>3. cccr' \in [init : BOOLEAN, cce : BOOLEAN]
  BY DEF mcan_init, McanTypeOK
<1>4. txbrp' \in BOOLEAN /\ wire' \in TxElement /\ fate' \in Fates
  BY NoWireType DEF mcan_init, McanTypeOK, Fates
<1>5. fifo' \in [{0, 1} -> Fifo]
  <2>1. fifo \in [{0, 1} -> Fifo]
    BY DEF McanTypeOK
  <2>2. [n \in {0, 1} |-> [fifo[n] EXCEPT !.get = 0, !.fill = 0]] \in [{0, 1} -> Fifo]
    BY <1>2, Zenon
  <2> QED
    BY <2>1, <2>2, Zenon DEF mcan_init
<1> QED
  BY <1>3, <1>4, <1>5

LEMMA StoreType ==
    ASSUME McanTypeOK, NEW flt \in Filter, NEW f \in Frame, HwStore(flt, f), MayAccept(flt, f)
    PROVE  /\ rxBuffer' \in [RxBuffers -> Frame \cup {NoFrame}]
           /\ ndat' \in SUBSET RxBuffers
           /\ ir' \in SUBSET Flags
           /\ fifo' \in [{0, 1} -> Fifo]
<1>1. CASE flt.dest = "buffer"
  <2>1. flt.arg \in RxBuffers
    BY <1>1 DEF MayAccept, Accepts
  <2> QED
    BY <1>1, <2>1 DEF McanTypeOK, HwStore, Flags
<1>2. CASE flt.dest = "fifo"
  <2>1. \A n \in {0, 1} : FifoPut(fifo[n], f) \in Fifo
    BY FifoPutType DEF McanTypeOK
  <2>2. PICK n \in {0, 1} :
          /\ fifo' = [fifo EXCEPT ![n] = FifoPut(fifo[n], f)]
          /\ ir' = ir \cup {IF f.ext THEN "RF1N" ELSE "RF0N"}
          /\ UNCHANGED <<ndat, rxBuffer>>
    BY <1>2 DEF HwStore
  <2>3. ir' \in SUBSET Flags
    BY <2>2 DEF McanTypeOK, Flags
  <2>4. fifo' \in [{0, 1} -> Fifo]
    BY <2>1, <2>2 DEF McanTypeOK
  <2> QED
    BY <2>2, <2>3, <2>4 DEF McanTypeOK
<1> QED
  BY <1>1, <1>2 DEF HwStore

LEMMA HwType == McanTypeOK /\ HwNext => McanTypeOK'
<1> SUFFICES ASSUME McanTypeOK, HwNext PROVE McanTypeOK'
  OBVIOUS
<1> USE DEF rxVars, txVars
<1>1. CASE HwTakeHead \/ HwTakeData
  BY <1>1 DEF HwTakeHead, HwTakeData, McanTypeOK, TxElement
<1>2. CASE HwTransmitted
  <2>1. fate' \in Fates
    BY <1>2 DEF HwTransmitted, McanTypeOK, Fates
  <2> QED
    BY <1>2, <2>1, NoWireType DEF HwTransmitted, McanTypeOK
<1>3. CASE HwRetransmit \/ HwProtocolError \/ HwBusOff
  <2>1. AbortFrame
    BY <1>3 DEF HwRetransmit, HwProtocolError, HwBusOff
  <2>2. ir' \in SUBSET Flags
    BY <1>3, FlagsAssumption DEF HwRetransmit, HwProtocolError, HwBusOff, McanTypeOK, Flags
  <2> QED
    BY <1>3, <2>1, <2>2, AbortType DEF HwRetransmit, HwProtocolError, HwBusOff, McanTypeOK
<1>4. CASE HwRecover
  BY <1>4 DEF HwRecover, McanTypeOK, Flags
<1>5. ASSUME NEW f \in BusFrames, HwReceive(f) PROVE McanTypeOK'
  <2>1. f \in Frame
    BY FramesAssumption
  <2>2. PICK flt \in Filter : MayAccept(flt, f) /\ HwStore(flt, f)
    BY <1>5 DEF HwReceive, McanTypeOK
  <2>3. UNCHANGED <<cccr, ie, busOff, txVars, stdFilter, extFilter>>
    BY <1>5 DEF HwReceive
  <2> QED
    BY <2>1, <2>2, <2>3, StoreType DEF McanTypeOK
<1> QED
  BY <1>1, <1>2, <1>3, <1>4, <1>5 DEF HwNext

-----------------------------------------------------------------------------
(* Types.                                                                  *)

LEMMA InitType == Init => TypeOK
<1> SUFFICES ASSUME Init PROVE TypeOK
  OBVIOUS
<1>1. McanTypeOK
  <2>1. \A id \in Ids : [dest |-> "off", id |-> id, arg |-> 0] \in Filter
    BY SizesAssumption DEF Filter
  <2>2. fifo \in [{0, 1} -> Fifo]
    BY SizesAssumption DEF Init, McanInit, Fifo
  <2> QED
    BY <2>1, <2>2, NoWireType DEF Init, McanInit, McanTypeOK, TxElement, Whole, Fates
<1>2. ThreadTypeOK
  BY DEF Init, ThreadTypeOK, ThreadSteps, FilterSteps, TxSteps
<1>3. IsrTypeOK
  BY SizesAssumption DEF Init, IsrTypeOK, IsrSteps, RxElement, Whole
<1> QED
  BY <1>1, <1>2, <1>3 DEF TypeOK

\* The thread's steps.
LEMMA CallStepType == TypeOK /\ CallStep => TypeOK'
<1> SUFFICES ASSUME TypeOK, CallStep PROVE TypeOK'
  OBVIOUS
<1> USE DEF TypeOK, McanTypeOK, ThreadTypeOK, At,
            ThreadSteps, TxSteps, FilterSteps, StartSteps, StopSteps
<1>1. IsrTypeOK'
  <2>1. UNCHANGED isrVars
    BY DEF CallStep, can_init, StartWrite, StartWait, can_enable_irq, StopRead, StopWrite,
           StopWait, can_disable_irq, TxHead, TxData, TxCheck, TxRequest,
           FilterId, FilterArg, FilterIrq
  <2> QED
    BY <2>1 DEF isrVars, IsrTypeOK
<1>2. McanTypeOK' /\ ThreadTypeOK'
  <2>1. CASE can_init
    BY <2>1, McanInitOpType DEF can_init
  <2>2. CASE StartWrite
    BY <2>2 DEF StartWrite, ClearInit, txVars, rxVars
  <2>3. CASE StartWait
    BY <2>3 DEF StartWait, mcanVars
  <2>4. CASE can_enable_irq
    BY <2>4 DEF can_enable_irq, mcan_enable_interrupt, Flags, txVars, rxVars
  <2>5. CASE StopRead
    BY <2>5 DEF StopRead, mcanVars
  <2>6. CASE StopWrite
    BY <2>6, AbortType DEF StopWrite, SetInit, rxVars
  <2>7. CASE StopWait
    BY <2>7 DEF StopWait, mcanVars
  <2>8. CASE can_disable_irq
    BY <2>8 DEF can_disable_irq, mcan_disable_interrupt, txVars, rxVars
  <2>9. CASE TxHead
    BY <2>9 DEF TxHead, TxElement, rxVars
  <2>10. CASE TxData
    BY <2>10 DEF TxData, TxElement, rxVars
  <2>11. CASE TxCheck
    BY <2>11 DEF TxCheck, mcanVars
  <2>12. CASE TxRequest
    BY <2>12 DEF TxRequest, WriteTxbar, Fates, rxVars
  <2>13. CASE FilterId
    <3>1. request \in FilterRequest /\ request.filter \in Filter
      BY <2>13, ClientAssumption DEF FilterId, FilterRequest
    <3>2. request.ext => request.slot \in 0 .. ExtFilterNum - 1
      BY <2>13, <3>1, ClientAssumption, SizesAssumption DEF FilterId, FilterRequest
    <3>3. request.ext =>
            [request.filter EXCEPT !.arg = extFilter[request.slot].arg] \in Filter
      BY <3>1, <3>2 DEF Filter
    <3> QED
      BY <2>13, <3>1, <3>3 DEF FilterId, txVars
  <2>14. CASE FilterArg
    <3>1. request.filter \in Filter
      BY <2>14, ClientAssumption DEF FilterArg, FilterRequest
    <3>2. \A s \in 0 .. ExtFilterNum - 1 :
            [extFilter[s] EXCEPT !.arg = request.filter.arg] \in Filter
      BY <3>1 DEF Filter
    <3> QED
      BY <2>14, <3>2 DEF FilterArg, txVars
  <2>15. CASE FilterIrq
    BY <2>15 DEF FilterIrq, mcan_enable_interrupt, Flags, txVars, rxVars
  <2> QED
    BY <2>1, <2>2, <2>3, <2>4, <2>5, <2>6, <2>7, <2>8, <2>9, <2>10, <2>11, <2>12, <2>13,
       <2>14, <2>15 DEF CallStep
<1> QED
  BY <1>1, <1>2

\* The calls of a client.
LEMMA ClientType == TypeOK /\ Client => TypeOK'
<1> SUFFICES ASSUME TypeOK, Client PROVE TypeOK'
  OBVIOUS
<1>1. UNCHANGED <<mcanVars, isrVars, nvic, cceRead, ret>>
  BY DEF Client, Send, SetFilter, Stop, Start
<1>2. McanTypeOK' /\ IsrTypeOK'
  BY <1>1 DEF TypeOK, McanTypeOK, IsrTypeOK, mcanVars, isrVars
<1>3. ThreadTypeOK'
  <2> USE DEF TypeOK, ThreadTypeOK, ThreadSteps, TxSteps, FilterSteps, StartSteps, StopSteps
  <2>1. ASSUME NEW m \in Messages, Send(m) PROVE ThreadTypeOK'
    BY <2>1 DEF Send
  <2>2. ASSUME NEW r \in FilterRequests, SetFilter(r) PROVE ThreadTypeOK'
    BY <2>2 DEF SetFilter
  <2>3. CASE Stop
    BY <2>3 DEF Stop
  <2>4. CASE Start
    BY <2>4 DEF Start
  <2> QED
    BY <2>1, <2>2, <2>3, <2>4 DEF Client
<1> QED
  BY <1>2, <1>3 DEF TypeOK

\* The handler's steps.
LEMMA AcknowledgeType ==
    ASSUME TypeOK, NEW n \in {0, 1}, NEW k \in 0 .. FifoSize - 1, mcan_rx_fifo_acknowledge(n, k)
    PROVE  /\ McanTypeOK'
           /\ NextIndex(k) \in 0 .. FifoSize - 1
<1>1. NextIndex(k) \in 0 .. FifoSize - 1
  BY SizesAssumption DEF NextIndex
<1>2. fifo[n] \in Fifo
  BY DEF TypeOK, McanTypeOK
<1>3. PICK q \in FifoAcknowledge(fifo[n], k) : fifo' = [fifo EXCEPT ![n] = q]
  BY DEF mcan_rx_fifo_acknowledge
<1>4. fifo' \in [{0, 1} -> Fifo]
  BY <1>2, <1>3, FifoAcknowledgeType DEF TypeOK, McanTypeOK
<1> QED
  BY <1>1, <1>4 DEF mcan_rx_fifo_acknowledge, TypeOK, McanTypeOK, txVars

LEMMA BranchType ==
    ASSUME TypeOK, NEW f \in Flags, NEW next, NEW skip, Branch(f, next, skip)
    PROVE  McanTypeOK'
  BY DEF Branch, TypeOK, McanTypeOK, mcan_clear_interrupt_status, txVars, rxVars

LEMMA IsrStepType == TypeOK /\ IsrStep => TypeOK'
<1> SUFFICES ASSUME TypeOK, IsrStep PROVE TypeOK'
  OBVIOUS
<1>1. ThreadTypeOK'
  <2>1. UNCHANGED <<nvic, threadVars>>
    BY DEF IsrStep, IrqEnter, Branch, IsrRxBuffer, IsrScan, IsrCopyHead, IsrCopyData, FifoRead,
           mcan_rx_fifo_acknowledge, IsrFifo0, IsrFifo0Read, IsrFifo0Ack, IsrFifo1, IsrFifo1Read,
           IsrFifo1Ack, IsrError, IsrBusOff, IsrBusOffStop, IsrBusOffInit
  <2> QED
    BY <2>1 DEF threadVars, TypeOK, ThreadTypeOK
<1>2. McanTypeOK' /\ IsrTypeOK'
  <2> USE DEF TypeOK, IsrTypeOK, IsrSteps
  <2>1. CASE IrqEnter
    BY <2>1 DEF IrqEnter, mcanVars, McanTypeOK
  <2>2. CASE IsrRxBuffer
    BY <2>2, BranchType DEF IsrRxBuffer, Branch, Flags
  <2>3. CASE IsrScan
    <3>1. UNCHANGED <<cccr, ie, ir, busOff, txVars, stdFilter, extFilter, rxBuffer, fifo, status,
                      rxElement, rxFifoElement, standard_receive_index,
                      extended_receive_index, printed>>
      BY <2>3 DEF IsrScan
    <3>2. ndat' \in SUBSET RxBuffers
      BY <2>3 DEF IsrScan, McanTypeOK
    <3>3. scan' \in Nat
      BY <2>3 DEF IsrScan
    <3>4. isr' \in {"scan", "fifo0", "copyHead"} /\ (isr' = "copyHead" => scan' \in RxBuffers)
      BY <2>3 DEF IsrScan, McanTypeOK
    <3> QED
      BY <3>1, <3>2, <3>3, <3>4 DEF McanTypeOK, txVars
  <2>4. CASE IsrCopyHead
    BY <2>4 DEF IsrCopyHead, mcanVars, McanTypeOK, RxElement
  <2>5. CASE IsrCopyData
    <3>1. rxElement' \in RxElement
      BY <2>5 DEF IsrCopyData, McanTypeOK, RxElement
    <3> QED
      BY <2>5, <3>1, ClientAssumption DEF IsrCopyData, mcanVars, McanTypeOK
  <2>6. CASE IsrFifo0
    BY <2>6, BranchType DEF IsrFifo0, Branch, Flags
  <2>7. CASE IsrFifo0Read
    BY <2>7 DEF IsrFifo0Read, FifoRead, mcanVars, McanTypeOK, Fifo
  <2>8. CASE IsrFifo0Ack
    BY <2>8, AcknowledgeType DEF IsrFifo0Ack, mcan_rx_fifo_acknowledge
  <2>9. CASE IsrFifo1
    BY <2>9, BranchType DEF IsrFifo1, Branch, Flags
  <2>10. CASE IsrFifo1Read
    BY <2>10 DEF IsrFifo1Read, FifoRead, mcanVars, McanTypeOK, Fifo
  <2>11. CASE IsrFifo1Ack
    BY <2>11, AcknowledgeType DEF IsrFifo1Ack, mcan_rx_fifo_acknowledge
  <2>12. CASE IsrError
    BY <2>12 DEF IsrError, mcan_clear_interrupt_status, McanTypeOK, Flags, txVars, rxVars
  <2>13. CASE IsrBusOff
    BY <2>13, BranchType DEF IsrBusOff, Branch, Flags
  <2>14. CASE IsrBusOffStop
    BY <2>14, AbortType DEF IsrBusOffStop, SetInit, McanTypeOK, rxVars
  <2>15. CASE IsrBusOffInit
    BY <2>15, McanInitOpType DEF IsrBusOffInit, McanTypeOK
  <2> QED
    BY <2>1, <2>2, <2>3, <2>4, <2>5, <2>6, <2>7, <2>8, <2>9, <2>10, <2>11, <2>12, <2>13,
       <2>14, <2>15 DEF IsrStep
<1> QED
  BY <1>1, <1>2 DEF TypeOK

LEMMA TypeStep == TypeOK /\ [Next]_canVars => TypeOK'
<1> SUFFICES ASSUME TypeOK, [Next]_canVars PROVE TypeOK'
  OBVIOUS
<1>1. CASE Hardware
  BY <1>1, HwType DEF Hardware, TypeOK, ThreadTypeOK, IsrTypeOK, threadVars, isrVars
<1>2. CASE UNCHANGED canVars
  BY <1>2 DEF canVars, mcanVars, threadVars, isrVars, TypeOK, McanTypeOK, ThreadTypeOK, IsrTypeOK
<1> QED
  BY <1>1, <1>2, CallStepType, ClientType, IsrStepType DEF Next

\* The indexes the driver uses stay in the arrays they index, statuses and steps
\* in their types, for every size of the message RAM and every client.
THEOREM TypeCorrect == Spec => []TypeOK
  BY InitType, TypeStep, PTL DEF Spec

-----------------------------------------------------------------------------
(* What the steps of one context leave to the other.                       *)

\* The handler does not touch the thread, the message in the Tx element, or what
\* was transmitted.
LEMMA IsrFrame ==
    IsrStep => UNCHANGED <<nvic, step, msg, request, ret, txElement, onBus, busOff>>
  BY DEF IsrStep, IrqEnter, Branch, IsrRxBuffer, IsrScan, IsrCopyHead, IsrCopyData, FifoRead,
         mcan_rx_fifo_acknowledge, IsrFifo0, IsrFifo0Read, IsrFifo0Ack, IsrFifo1, IsrFifo1Read,
         IsrFifo1Ack, IsrError, IsrBusOff, IsrBusOffStop, IsrBusOffInit,
         mcanVars, txVars, threadVars

\* Neither does the peripheral touch the thread or the Tx element.
LEMMA HardwareFrame ==
    Hardware => /\ UNCHANGED <<nvic, step, msg, request, ret, isr, txElement>>
                /\ ~At("startWait")
  BY DEF Hardware, HwNext, HwTakeHead, HwTakeData, HwTransmitted, HwRetransmit,
         HwProtocolError, HwBusOff, HwRecover, HwReceive, threadVars, isrVars, txVars

\* Nor does it enter or leave configuration.
LEMMA HardwareCce ==
    ASSUME TypeOK, Hardware
    PROVE  cccr'.cce = cccr.cce
  BY DEF Hardware, HwNext, HwTakeHead, HwTakeData, HwTransmitted, HwRetransmit,
         HwProtocolError, HwBusOff, HwRecover, HwReceive, TypeOK, McanTypeOK

\* A client's call starts at "ready" and changes nothing of the peripheral.
LEMMA ClientFrame ==
    Client => /\ At("ready")
              /\ step' \in {"txHead", "filterId", "stopRead", "start"}
              /\ step' = "stopRead" => "stop" \in ClientCalls
              /\ step' = "start" => "start" \in ClientCalls
              /\ UNCHANGED <<mcanVars, nvic, ret, isrVars>>
  BY DEF Client, Send, SetFilter, Stop, Start

-----------------------------------------------------------------------------
(* The Tx element.                                                         *)

\* PendingIsWhole is not inductive: what the thread has written of the element
\* says what its next write completes.
ElementInv ==
    /\ step # "txData" => txElement.head = txElement.data
    /\ step = "txData" => txElement.head = msg
    /\ step \in {"txCheck", "txRequest"} => txElement = Whole(msg)

LEMMA ElementStep == TypeOK /\ ElementInv /\ [Next]_canVars => ElementInv'
<1> SUFFICES ASSUME TypeOK, ElementInv, [Next]_canVars PROVE ElementInv'
  OBVIOUS
<1>1. ASSUME UNCHANGED <<step, msg, txElement>> PROVE ElementInv'
  BY <1>1 DEF ElementInv
<1>2. txElement \in TxElement
  BY DEF TypeOK, McanTypeOK
<1>3. CASE CallStep
  <2>1. CASE TxHead
    BY <1>2, <2>1 DEF TxHead, ElementInv, TxElement
  <2>2. CASE TxData
    BY <1>2, <2>2 DEF TxData, At, ElementInv, TxElement, Whole
  <2>3. CASE TxCheck
    BY <2>3 DEF TxCheck, At, ElementInv, mcanVars
  <2>4. CASE TxRequest
    BY <2>4 DEF TxRequest, At, ElementInv
  <2>5. CASE ~(TxHead \/ TxData \/ TxCheck \/ TxRequest)
    <3>1. /\ step \notin TxSteps
          /\ step' \notin TxSteps
          /\ UNCHANGED txElement
      BY <1>3, <2>5 DEF CallStep, can_init, StartWrite, StartWait, can_enable_irq, StopRead,
         StopWrite, StopWait, can_disable_irq, FilterId, FilterArg, FilterIrq, At, TxSteps,
         mcanVars, txVars
    <3> QED
      BY <3>1 DEF ElementInv, TxSteps
  <2> QED
    BY <2>1, <2>2, <2>3, <2>4, <2>5
<1>4. CASE Client
  BY <1>4, ClientFrame DEF ElementInv, At, mcanVars
<1> QED
  BY <1>1, <1>3, <1>4, IsrFrame, HardwareFrame DEF Next, canVars, mcanVars, threadVars

LEMMA ElementInit == Init => ElementInv
  BY DEF Init, McanInit, ElementInv, Whole

\* A pending message is whole but while can_tx_message is between its writes.
THEOREM PendingWhole == Spec => []PendingIsWhole
<1>1. ElementInv => PendingIsWhole
  BY DEF ElementInv, PendingIsWhole
<1> QED
  BY <1>1, InitType, TypeStep, ElementInit, ElementStep, PTL DEF Spec

-----------------------------------------------------------------------------
(* The mailbox that can_tx_message promises.                               *)

\* A node in configuration has nothing to send: what sets CCE drops the requests,
\* and while it is set a request is ignored.  What is on the bus is the frame of a
\* pending request, and begins with its head.
RequestInv ==
    /\ cccr.cce => ~txbrp
    /\ OnWire => txbrp
    /\ wire.head = NoMessage => ~OnWire

\* What the steps that neither call can_tx_message nor change CCE leave alone.
MailboxFrame == UNCHANGED <<cccr.cce, txElement, txbrp, wire, onBus, msg, ret>>

\* The frame on the bus breaks off, if there is one.
Broken == AbortFrame /\ UNCHANGED <<cccr.cce, txElement, txbrp, onBus, msg, ret>>

LEMMA CallMailFrame ==
    ASSUME CallStep
    PROVE  \/ TxHead \/ TxData \/ TxCheck \/ TxRequest
           \/ step \notin TxSteps /\ step' \notin TxSteps /\ MailboxFrame
           \/ can_init \/ StartWrite \/ StopWrite
  BY DEF CallStep, StartWait, can_enable_irq, StopRead, StopWait, can_disable_irq, FilterId,
         FilterArg, FilterIrq, At, TxSteps, MailboxFrame, mcanVars, txVars, mcan_enable_interrupt,
         mcan_disable_interrupt

LEMMA ClientMailFrame ==
    ASSUME Client
    PROVE  \/ \E m \in Messages : Send(m)
           \/ step \notin TxSteps /\ step' \notin TxSteps /\ MailboxFrame
  BY DEF Client, SetFilter, Stop, Start, At, TxSteps, MailboxFrame, mcanVars

LEMMA IsrMailFrame ==
    ASSUME IsrStep
    PROVE  IsrBusOffStop \/ IsrBusOffInit \/ (UNCHANGED step /\ MailboxFrame)
<1>1. IsrBusOffStop \/ IsrBusOffInit \/ UNCHANGED <<cccr, txbrp, wire>>
  BY DEF IsrStep, IrqEnter, Branch, IsrRxBuffer, IsrScan, IsrCopyHead, IsrCopyData, FifoRead,
         mcan_rx_fifo_acknowledge, IsrFifo0, IsrFifo0Read, IsrFifo0Ack, IsrFifo1, IsrFifo1Read,
         IsrFifo1Ack, IsrError, IsrBusOff, mcanVars, txVars
<1> QED
  BY <1>1, IsrFrame DEF MailboxFrame

LEMMA HardwareMailFrame ==
    ASSUME TypeOK, Hardware
    PROVE  /\ UNCHANGED <<step, msg, ret>>
           /\ HwTakeHead \/ HwTakeData \/ HwTransmitted \/ Broken \/ MailboxFrame
<1>1. cccr \in [init : BOOLEAN, cce : BOOLEAN]
  BY DEF TypeOK, McanTypeOK
<1>2. UNCHANGED <<step, msg, ret>>
  BY DEF Hardware, threadVars
<1>3. CASE HwRetransmit \/ HwProtocolError \/ HwBusOff
  BY <1>1, <1>2, <1>3 DEF HwRetransmit, HwProtocolError, HwBusOff, Broken
<1>4. CASE HwRecover \/ \E f \in BusFrames : HwReceive(f)
  BY <1>2, <1>4 DEF HwRecover, HwReceive, txVars, MailboxFrame
<1> QED
  BY <1>2, <1>3, <1>4 DEF Hardware, HwNext

LEMMA RequestStep == TypeOK /\ RequestInv /\ [Next]_canVars => RequestInv'
<1> SUFFICES ASSUME TypeOK, RequestInv, [Next]_canVars PROVE RequestInv'
  OBVIOUS
<1> USE DEF RequestInv, OnWire
<1>1. /\ cccr \in [init : BOOLEAN, cce : BOOLEAN] /\ txbrp \in BOOLEAN
      /\ wire \in TxElement
  BY DEF TypeOK, McanTypeOK
<1>2. CASE MailboxFrame
  BY <1>2 DEF MailboxFrame
<1>3. CASE can_init \/ IsrBusOffInit
  BY <1>1, <1>3 DEF can_init, IsrBusOffInit, mcan_init
<1>4. CASE StartWrite \/ StopWrite \/ IsrBusOffStop
  BY <1>1, <1>4 DEF StartWrite, StopWrite, IsrBusOffStop, ClearInit, SetInit, AbortFrame, txVars
<1>5. CASE TxHead \/ TxData \/ TxCheck \/ TxRequest
  BY <1>1, <1>5 DEF TxHead, TxData, TxCheck, TxRequest, WriteTxbar, mcanVars
<1>6. CASE \E m \in Messages : Send(m)
  BY <1>6 DEF Send, mcanVars
<1>7. CASE HwTakeHead \/ HwTakeData \/ HwTransmitted
  BY <1>1, <1>7 DEF HwTakeHead, HwTakeData, HwTransmitted, NoWire, Whole, TxElement
<1>8. CASE Broken
  BY <1>8 DEF Broken, AbortFrame
<1>9. CASE UNCHANGED canVars
  BY <1>9 DEF canVars, mcanVars
<1> QED
  BY <1>2, <1>3, <1>4, <1>5, <1>6, <1>7, <1>8, <1>9, CallMailFrame, ClientMailFrame, IsrMailFrame,
     HardwareMailFrame DEF Next

\* Every step is a step of the mailbox or none.
Calling == IF step \in TxSteps THEN msg ELSE NoMessage

LEMMA MailboxStep ==
    ASSUME TypeOK, ElementInv, RequestInv, [Next]_canVars
    PROVE  [Mailbox!MailNext]_Mailbox!mailVars
<1> USE DEF Mailbox!MailNext, Mailbox!mailVars
<1>1. /\ cccr \in [init : BOOLEAN, cce : BOOLEAN] /\ txbrp \in BOOLEAN
      /\ txElement \in TxElement /\ wire \in TxElement
      /\ step \in TxSteps => msg \in Messages
  BY DEF TypeOK, McanTypeOK, ThreadTypeOK
<1>2. NoMessage \notin Messages
  BY MessagesAssumption
<1>3. ASSUME MailboxFrame, step' \in TxSteps <=> step \in TxSteps
      PROVE  UNCHANGED Mailbox!mailVars
  BY <1>3 DEF MailboxFrame
<1>4. CASE TxHead \/ TxData \/ TxCheck \/ TxRequest
  <2>1. CASE TxHead
    <3>1. txElement'.data = txElement.data
      BY <1>1, <2>1 DEF TxHead, TxElement
    <3> QED
      BY <2>1, <3>1 DEF TxHead, At, TxSteps
  <2>2. CASE TxData
    <3>1. txElement'.data = msg
      BY <1>1, <2>2 DEF TxData, TxElement
    <3>2. Mailbox!Replace
      BY <1>1, <1>2, <2>2, <3>1 DEF TxData, At, TxSteps, Mailbox!Replace
    <3> QED
      BY <3>2
  <2>3. CASE TxCheck
    <3>1. CASE cccr.cce
      <4>1. Mailbox!Refuse
        BY <1>1, <1>2, <2>3, <3>1 DEF TxCheck, At, TxSteps, mcanVars, Mailbox!Refuse
      <4> QED
        BY <4>1
    <3>2. CASE ~cccr.cce
      BY <2>3, <3>2 DEF TxCheck, At, TxSteps, mcanVars
    <3> QED
      BY <3>1, <3>2
  <2>4. CASE TxRequest
    <3>1. txElement.data = msg /\ step = "txRequest" /\ msg # NoMessage
      BY <1>1, <1>2, <2>4 DEF TxRequest, At, TxSteps, ElementInv, Whole
    <3>2. Mailbox!Accept
      BY <2>4, <3>1 DEF TxRequest, WriteTxbar, TxSteps, Mailbox!Accept
    <3> QED
      BY <3>2
  <2> QED
    BY <1>4, <2>1, <2>2, <2>3, <2>4
<1> OnWire <=> wire # Mailbox!Nothing
  BY DEF OnWire, NoWire, Whole, Mailbox!Nothing
<1> NoWire = Mailbox!Nothing
  BY DEF NoWire, Whole, Mailbox!Nothing
<1> HIDE DEF Mailbox!Nothing
<1>5. CASE can_init \/ IsrBusOffInit
  <2>1. /\ UNCHANGED <<txElement, onBus, msg, ret>>
        /\ step' \in TxSteps <=> step \in TxSteps
    BY <1>5 DEF can_init, IsrBusOffInit, At, TxSteps, threadVars
  <2>2. mcan_init
    BY <1>5 DEF can_init, IsrBusOffInit
  <2>3. CASE cccr.init /\ ~cccr.cce
    <3>1. cccr'.cce = TRUE /\ txbrp' = FALSE /\ wire' = NoWire
      BY <1>1, <2>2, <2>3 DEF mcan_init
    <3>2. Mailbox!Close
      BY <2>1, <2>3, <3>1 DEF Mailbox!Close
    <3> QED
      BY <3>2
  <2>4. CASE ~cccr.init \/ cccr.cce
    <3>1. cccr'.cce = cccr.cce /\ txbrp' = txbrp /\ wire' = wire
      BY <1>1, <2>2, <2>4 DEF mcan_init, RequestInv, OnWire
    <3> QED
      BY <2>1, <3>1
  <2> QED
    BY <2>3, <2>4
<1>6. CASE StartWrite \/ StopWrite \/ IsrBusOffStop
  <2>1. /\ UNCHANGED <<txElement, txbrp, onBus, msg, ret>>
        /\ step' \in TxSteps <=> step \in TxSteps
    BY <1>6 DEF StartWrite, StopWrite, IsrBusOffStop, At, TxSteps, txVars, threadVars
  <2>w. wire' = wire \/ wire' = NoWire
    BY <1>6 DEF StartWrite, StopWrite, IsrBusOffStop, SetInit, AbortFrame, txVars
  <2>2. cccr'.cce => cccr.cce
    BY <1>1, <1>6 DEF StartWrite, StopWrite, IsrBusOffStop, ClearInit, SetInit
  <2>3. cccr'.cce \in BOOLEAN
    <3>1. (cccr.cce /\ cceRead) \in BOOLEAN /\ (cccr.cce /\ cccr.cce) \in BOOLEAN
      BY Zenon
    <3>2. CASE StartWrite
      BY <3>2 DEF StartWrite, ClearInit
    <3>3. CASE StopWrite
      BY <3>1, <3>3 DEF StopWrite, SetInit
    <3>4. CASE IsrBusOffStop
      BY <3>1, <3>4 DEF IsrBusOffStop, SetInit
    <3> QED
      BY <1>6, <3>2, <3>3, <3>4
  <2>4. CASE cccr'.cce = cccr.cce
    <3>1. CASE wire' = wire
      BY <2>1, <2>4, <3>1
    <3>2. CASE wire' = NoWire /\ OnWire
      <4>1. Mailbox!GiveUp
        BY <2>1, <2>4, <3>2 DEF Mailbox!GiveUp, RequestInv
      <4> QED
        BY <4>1
    <3> QED
      BY <2>w, <3>1, <3>2 DEF OnWire
  <2>5. CASE cccr'.cce # cccr.cce
    <3>1. Mailbox!Open
      BY <1>1, <2>1, <2>w, <2>2, <2>3, <2>5 DEF Mailbox!Open, RequestInv, OnWire
    <3> QED
      BY <3>1
  <2> QED
    BY <2>4, <2>5
<1>7. ASSUME NEW m \in Messages, Send(m)
      PROVE  [Mailbox!MailNext]_Mailbox!mailVars
  <2>1. Mailbox!Begin(m)
    BY <1>7 DEF Send, At, TxSteps, mcanVars, Mailbox!Begin
  <2> QED
    BY <2>1
<1>8. ASSUME UNCHANGED <<step, msg, ret>>, HwTakeHead \/ HwTakeData \/ HwTransmitted \/ Broken
      PROVE  [Mailbox!MailNext]_Mailbox!mailVars
  <2>1. CASE HwTakeHead
    <3>1. txElement.head \in {txElement.data} \cup ({Calling} \ {NoMessage})
      BY <1>1, <1>2 DEF ElementInv, TxSteps, Calling
    <3>2. Mailbox!TakeHead
      BY <1>8, <2>1, <3>1 DEF HwTakeHead, Mailbox!TakeHead, Calling
    <3> QED
      BY <3>2
  <2>2. CASE HwTakeData
    <3>1. Mailbox!TakeData
      BY <1>8, <2>2 DEF HwTakeData, Mailbox!TakeData
    <3> QED
      BY <3>1
  <2>3. CASE HwTransmitted
    <3>1. txbrp
      BY <2>3 DEF HwTransmitted, RequestInv, OnWire, NoWire, Whole
    <3>2. Mailbox!Sent
      BY <1>8, <2>3, <3>1 DEF HwTransmitted, Mailbox!Sent
    <3> QED
      BY <3>2
  <2>4. CASE Broken
    <3>1. CASE OnWire
      <4>1. Mailbox!GiveUp
        BY <1>8, <2>4, <3>1 DEF Broken, AbortFrame, Mailbox!GiveUp, RequestInv
      <4> QED
        BY <4>1
    <3>2. CASE ~OnWire
      BY <1>8, <2>4, <3>2 DEF Broken, AbortFrame, OnWire
    <3> QED
      BY <3>1, <3>2
  <2> QED
    BY <1>8, <2>1, <2>2, <2>3, <2>4
<1>9. CASE UNCHANGED canVars
  BY <1>9 DEF canVars, mcanVars, threadVars
<1>10. CASE CallStep
  BY <1>3, <1>4, <1>5, <1>6, <1>10, CallMailFrame
<1>11. CASE Client
  BY <1>3, <1>7, <1>11, ClientMailFrame
<1>12. CASE IsrStep
  BY <1>3, <1>5, <1>6, <1>12, IsrMailFrame
<1>13. CASE Hardware
  BY <1>3, <1>8, <1>13, HardwareMailFrame
<1> QED
  BY <1>9, <1>10, <1>11, <1>12, <1>13 DEF Next

\* can_tx_message is a mailbox for every client, however long a frame is on the bus
\* and whatever the thread does meanwhile.
THEOREM IsMailbox == Spec => ImplementsMailbox
<1>1. Init => Mailbox!MailInit /\ RequestInv
  BY DEF Init, McanInit, Mailbox!MailInit, Mailbox!Nothing, RequestInv, NoWire, OnWire, Whole,
         TxSteps
<1> QED
  BY <1>1, InitType, TypeStep, ElementInit, ElementStep, RequestStep, MailboxStep, PTL
     DEF Spec, ImplementsMailbox, Mailbox!MailSpec

-----------------------------------------------------------------------------
(* Clients that, like the firmware, neither stop nor restart the node.     *)

NoStopStart == ClientCalls \cap {"stop", "start"} = {}

\* Then can_start runs at boot only, before the handler can.
BootInv ==
    /\ step \notin StopSteps
    /\ step \in {"init"} \cup StartSteps => ~nvic /\ ret = "none"
    /\ ~nvic => isr = "idle"
    /\ step \in {"init", "start"} => cccr.init
    /\ step \in {"init", "start", "startWait"} => ~busOff

\* Bus-off, configuration and INIT; the last conjunct is the heart of it.
OffBusInv ==
    /\ cccr.cce => cccr.init
    /\ busOff => cccr.init
    /\ isr = "busOffInit" => cccr.init
    /\ BusOffServed => cccr.cce /\ ~txbrp

\* Everything but the steps that follow leaves the bits of these invariants alone
\* or changes them in one way.
LEMMA OtherCallSteps ==
    CallStep /\ ~can_init /\ ~StartWrite /\ ~TxRequest /\ ~StopWrite
      => /\ UNCHANGED <<cccr, ir, busOff, txbrp, onBus, isr>>
         /\ step \notin StopSteps => step' \notin StopSteps
         /\ step' \notin {"init", "start", "startWait"}
         /\ step' \in StartSteps => step \in StartSteps /\ UNCHANGED <<nvic, ret>>
         /\ nvic => nvic'
         /\ isr = "idle"
  BY DEF CallStep, StartWait, can_enable_irq, StopRead, StopWait, can_disable_irq,
         TxHead, TxData, TxCheck, FilterId, FilterArg, FilterIrq, At, StartSteps, StopSteps,
         mcanVars, txVars, isrVars

LEMMA BootStep ==
    ASSUME NoStopStart, TypeOK, BootInv, OffBusInv, [Next]_canVars
    PROVE  BootInv'
<1> USE DEF StartSteps, StopSteps
<1>1. CASE CallStep
  <2>1. CASE can_init
    BY <2>1 DEF can_init, mcan_init, At, BootInv, isrVars, TypeOK, McanTypeOK
  <2>2. CASE StartWrite
    BY <2>2 DEF StartWrite, At, BootInv, isrVars
  <2>3. CASE TxRequest
    BY <2>3 DEF TxRequest, At, BootInv, isrVars
  <2>4. CASE StopWrite
    BY <2>4 DEF StopWrite, At, BootInv
  <2>5. CASE ~can_init /\ ~StartWrite /\ ~TxRequest /\ ~StopWrite
    BY <1>1, <2>5, OtherCallSteps DEF BootInv
  <2> QED
    BY <2>1, <2>2, <2>3, <2>4, <2>5
<1>2. CASE Client
  BY <1>2, ClientFrame DEF NoStopStart, BootInv, At, mcanVars, isrVars
<1>3. CASE IsrStep
  <2>1. nvic
    BY <1>3 DEF BootInv, IsrStep, IrqEnter, IsrRxBuffer, IsrScan, IsrCopyHead, IsrCopyData,
           IsrFifo0, IsrFifo0Read, IsrFifo0Ack, IsrFifo1, IsrFifo1Read, IsrFifo1Ack, IsrError,
           IsrBusOff, IsrBusOffStop, IsrBusOffInit
  <2> QED
    BY <1>3, <2>1, IsrFrame DEF BootInv
<1>4. CASE Hardware
  <2>1. step \in {"init", "start"} => cccr.init /\ ~busOff /\ UNCHANGED <<cccr, busOff>>
    BY <1>4 DEF BootInv, Hardware, HwNext, HwTakeHead, HwTakeData, HwTransmitted, HwRetransmit,
           HwProtocolError, HwBusOff, HwRecover, HwReceive, Running
  <2>2. step # "startWait"
    BY <1>4, HardwareFrame DEF At, BootInv
  <2> QED
    BY <1>4, <2>1, <2>2, HardwareFrame DEF BootInv
<1>5. CASE UNCHANGED canVars
  BY <1>5 DEF canVars, mcanVars, threadVars, isrVars, BootInv
<1> QED
  BY <1>1, <1>2, <1>3, <1>4, <1>5 DEF Next

LEMMA OffBusStep ==
    ASSUME NoStopStart, TypeOK, BootInv, OffBusInv, [Next]_canVars
    PROVE  OffBusInv'
<1> USE DEF OffBusInv, BusOffServed
<1>1. CASE CallStep
  <2>1. CASE can_init
    BY <2>1 DEF can_init, mcan_init, At, BootInv, isrVars, TypeOK, McanTypeOK
  <2>2. CASE StartWrite
    BY <2>2 DEF StartWrite, ClearInit, At, BootInv, isrVars
  <2>3. CASE TxRequest
    BY <2>3 DEF TxRequest, WriteTxbar, At, isrVars
  <2>4. CASE StopWrite
    BY <2>4 DEF StopWrite, At, BootInv, StopSteps
  <2>5. CASE ~can_init /\ ~StartWrite /\ ~TxRequest /\ ~StopWrite
    BY <1>1, <2>5, OtherCallSteps
  <2> QED
    BY <2>1, <2>2, <2>3, <2>4, <2>5
<1>2. CASE Client
  BY <1>2, ClientFrame DEF mcanVars, isrVars
<1>3. CASE IsrStep
  <2>1. ASSUME UNCHANGED <<cccr, busOff, txbrp>>, "BO" \in ir => "BO" \in ir',
               isr \notin {"busOffStop", "busOffInit"}, isr' # "busOffInit"
        PROVE  OffBusInv'
    BY <2>1
  <2>2. CASE IsrBusOff
    BY <2>2 DEF IsrBusOff, Branch, mcan_clear_interrupt_status, txVars
  <2>3. CASE IsrBusOffStop
    BY <2>3 DEF IsrBusOffStop, SetInit, txVars, TypeOK, McanTypeOK
  <2>4. CASE IsrBusOffInit
    BY <2>4 DEF IsrBusOffInit, mcan_init, TypeOK, McanTypeOK
  <2>5. CASE IsrError
    BY <2>1, <2>5 DEF IsrError, mcan_clear_interrupt_status, txVars
  <2>6. CASE IsrRxBuffer \/ IsrFifo0 \/ IsrFifo1
    BY <2>1, <2>6 DEF IsrRxBuffer, IsrFifo0, IsrFifo1, Branch, mcan_clear_interrupt_status, txVars
  <2>7. CASE IrqEnter \/ IsrScan \/ IsrCopyHead \/ IsrCopyData
    BY <2>1, <2>7 DEF IrqEnter, IsrScan, IsrCopyHead, IsrCopyData, mcanVars, txVars
  <2>8. CASE IsrFifo0Read \/ IsrFifo0Ack \/ IsrFifo1Read \/ IsrFifo1Ack
    BY <2>1, <2>8 DEF IsrFifo0Read, IsrFifo0Ack, IsrFifo1Read, IsrFifo1Ack, FifoRead,
           mcan_rx_fifo_acknowledge, mcanVars, txVars
  <2> QED
    BY <1>3, <2>2, <2>3, <2>4, <2>5, <2>6, <2>7, <2>8 DEF IsrStep
<1>4. CASE Hardware
  <2>1. UNCHANGED isr
    BY <1>4, HardwareFrame
  <2>2. CASE HwBusOff
    BY <2>1, <2>2 DEF HwBusOff, Running, TypeOK, McanTypeOK
  <2>3. CASE HwRecover
    BY <2>3 DEF HwRecover
  <2>4. CASE \/ HwTakeHead \/ HwTakeData \/ HwTransmitted \/ HwRetransmit
             \/ HwProtocolError \/ \E f \in BusFrames : HwReceive(f)
    <3>1. ~busOff /\ UNCHANGED <<cccr, busOff>>
      BY <2>4 DEF HwTakeHead, HwTakeData, HwTransmitted, HwRetransmit, HwProtocolError,
             HwReceive, Running
    <3> QED
      BY <2>1, <3>1
  <2> QED
    BY <1>4, <2>2, <2>3, <2>4 DEF Hardware, HwNext
<1>5. CASE UNCHANGED canVars
  BY <1>5 DEF canVars, mcanVars, threadVars, isrVars
<1> QED
  BY <1>1, <1>2, <1>3, <1>4, <1>5 DEF Next

LEMMA BootInit == Init => BootInv /\ OffBusInv
  BY DEF Init, McanInit, BootInv, OffBusInv, BusOffServed, StartSteps, StopSteps

\* Once the handler has served bus-off the node is silent for good.
THEOREM ServedSilent ==
    ASSUME NoStopStart
    PROVE  Spec => []ServedNodeIsSilent
<1>1. TypeOK /\ BootInv /\ OffBusInv => ServedNodeIsSilent
  BY DEF OffBusInv, BusOffServed, ServedNodeIsSilent
<1>2. TypeOK /\ BootInv /\ OffBusInv /\ [Next]_canVars
        => BootInv' /\ OffBusInv'
  BY BootStep, OffBusStep
<1> QED
  BY <1>1, <1>2, InitType, TypeStep, BootInit, PTL DEF Spec

-----------------------------------------------------------------------------
(* Configuration.  After boot, only the service of a bus-off enters it.    *)

ConfigInv ==
    /\ "BO" \in ir => busOff
    /\ "BO" \in status => busOff
    /\ isr \in {"busOffStop", "busOffInit"} =>
         busOff /\ "BO" \notin ir /\ "BO" \in status
    /\ cccr.cce /\ step \notin {"init", "start"} =>
         busOff /\ "BO" \notin ir /\ ~txbrp /\ (isr = "idle" \/ "BO" \notin status)

LEMMA ConfigInit == Init => ConfigInv
  BY DEF Init, McanInit, ConfigInv

LEMMA ConfigStep ==
    ASSUME NoStopStart, TypeOK, BootInv, OffBusInv, ConfigInv, [Next]_canVars
    PROVE  ConfigInv'
<1> USE DEF ConfigInv
<1>1. CASE CallStep
  <2>1. UNCHANGED <<ir, busOff, isr, status>> /\ isr = "idle"
    BY <1>1 DEF CallStep, can_init, StartWrite, StartWait, can_enable_irq, StopRead, StopWrite,
           StopWait, can_disable_irq, TxHead, TxData, TxCheck, TxRequest,
           FilterId, FilterArg, FilterIrq, At, mcanVars, isrVars
  <2>2. CASE can_init
    BY <2>1, <2>2 DEF can_init
  <2>3. CASE StartWrite
    BY <2>1, <2>3 DEF StartWrite, ClearInit
  <2>4. CASE TxRequest
    BY <2>1, <2>4 DEF TxRequest, WriteTxbar, At, TypeOK, McanTypeOK
  <2>5. CASE StopWrite
    BY <2>5 DEF StopWrite, At, BootInv, StopSteps
  <2>6. CASE ~can_init /\ ~StartWrite /\ ~TxRequest /\ ~StopWrite
    <3>1. step \notin {"init", "start"}
      BY <1>1, <2>6 DEF CallStep, StartWait, can_enable_irq, StopRead, StopWait, can_disable_irq,
             TxHead, TxData, TxCheck, FilterId, FilterArg, FilterIrq, At
    <3> QED
      BY <1>1, <2>1, <2>6, <3>1, OtherCallSteps
  <2> QED
    BY <2>2, <2>3, <2>4, <2>5, <2>6
<1>2. CASE Client
  BY <1>2, ClientFrame DEF At, mcanVars, isrVars
<1>3. CASE IsrStep
  <2>1. UNCHANGED <<step, busOff>>
    BY <1>3, IsrFrame
  <2>2. step \notin {"init", "start"}
    BY <1>3 DEF BootInv, StartSteps, IsrStep, IrqEnter, IsrRxBuffer, IsrScan, IsrCopyHead,
           IsrCopyData, IsrFifo0, IsrFifo0Read, IsrFifo0Ack, IsrFifo1, IsrFifo1Read, IsrFifo1Ack,
           IsrError, IsrBusOff, IsrBusOffStop, IsrBusOffInit
  <2>3. CASE IrqEnter
    BY <2>1, <2>2, <2>3 DEF IrqEnter, mcanVars
  <2>4. CASE IsrBusOff
    BY <2>1, <2>2, <2>4 DEF IsrBusOff, Branch, mcan_clear_interrupt_status, txVars
  <2>5. CASE IsrBusOffStop
    BY <2>1, <2>2, <2>5 DEF IsrBusOffStop, SetInit, txVars, TypeOK, McanTypeOK
  <2>6. CASE IsrBusOffInit
    BY <2>1, <2>2, <2>6 DEF IsrBusOffInit, mcan_init, OffBusInv
  <2>7. CASE ~IrqEnter /\ ~IsrBusOff /\ ~IsrBusOffStop /\ ~IsrBusOffInit
    <3>1. /\ UNCHANGED <<cccr, txbrp, status>>
          /\ isr # "idle"
          /\ isr' \notin {"busOffStop", "busOffInit"}
          /\ ir' \subseteq ir
      BY <1>3, <2>7 DEF IsrStep, Branch, IsrRxBuffer, IsrScan, IsrCopyHead, IsrCopyData, FifoRead,
         mcan_rx_fifo_acknowledge, IsrFifo0, IsrFifo0Read, IsrFifo0Ack, IsrFifo1,
         IsrFifo1Read, IsrFifo1Ack, IsrError, mcan_clear_interrupt_status, mcanVars, txVars
    <3> QED
      BY <2>1, <2>2, <3>1
  <2> QED
    BY <1>3, <2>3, <2>4, <2>5, <2>6, <2>7
<1>4. CASE Hardware
  <2>1. UNCHANGED <<isr, status, step>>
    BY <1>4 DEF Hardware, threadVars, isrVars
  <2>2. ~busOff
    BY <1>4 DEF OffBusInv, Hardware, HwNext, HwTakeHead, HwTakeData, HwTransmitted, HwRetransmit,
           HwProtocolError, HwBusOff, HwRecover, HwReceive, Running
  <2>3. "BO" \in ir' => busOff'
    BY <1>4, <2>2, FlagsAssumption DEF Hardware, HwNext, HwTakeHead, HwTakeData, HwTransmitted,
           HwRetransmit, HwProtocolError, HwBusOff, HwRecover, HwReceive, HwStore
  <2>4. cccr.cce => step \in {"init", "start"}
    BY <2>2
  <2>5. cccr'.cce = cccr.cce
    BY <1>4, HardwareCce
  <2> QED
    BY <2>1, <2>2, <2>3, <2>4, <2>5
<1>5. CASE UNCHANGED canVars
  BY <1>5 DEF canVars, mcanVars, threadVars, isrVars
<1> QED
  BY <1>1, <1>2, <1>3, <1>4, <1>5 DEF Next

-----------------------------------------------------------------------------
(* The last accepted message.                                              *)

LEMMA AcceptedStep ==
    ASSUME NoStopStart, TypeOK, BootInv, ElementInv, RequestInv, LastAcceptedWins, [Next]_canVars
    PROVE  LastAcceptedWins'
<1> USE DEF LastAcceptedWins, TxSteps, OnlyOf, OnWire
<1>t. wire \in TxElement /\ cccr \in [init : BOOLEAN, cce : BOOLEAN]
  BY DEF TypeOK, McanTypeOK
<1>w. NoWire = [head |-> NoMessage, data |-> NoMessage]
  BY DEF NoWire, Whole
<1>1. CASE CallStep
  <2>1. CASE can_init \/ StartWrite
    BY <2>1 DEF can_init, StartWrite, At, BootInv, StartSteps
  <2>2. CASE TxRequest
    <3>1. txElement = Whole(msg)
      BY <2>2 DEF TxRequest, At, ElementInv
    <3>2. UNCHANGED <<cccr, txElement, wire, msg>>
      BY <2>2 DEF TxRequest
    <3>3. CASE cccr.cce
      BY <2>2, <3>2, <3>3 DEF TxRequest, WriteTxbar
    <3>4. CASE ~cccr.cce
      <4>1. txbrp' /\ fate' = IF OnWire THEN "behind" ELSE "waits"
        BY <2>2, <3>4 DEF TxRequest, WriteTxbar
      <4> QED
        BY <1>w, <3>1, <3>2, <4>1 DEF Whole
    <3> QED
      BY <3>3, <3>4
  <2>3. CASE TxHead \/ TxData
    BY <2>3 DEF TxHead, TxData
  <2>4. CASE TxCheck
    BY <2>4 DEF TxCheck
  <2>5. CASE StopRead \/ StopWrite \/ StopWait \/ can_disable_irq
    BY <2>5 DEF StopRead, StopWrite, StopWait, can_disable_irq, At, BootInv, StopSteps
  <2>6. CASE StartWait \/ can_enable_irq \/ FilterId \/ FilterArg \/ FilterIrq
    BY <2>6 DEF StartWait, can_enable_irq, FilterId, FilterArg, FilterIrq, At, mcanVars, txVars
  <2> QED
    BY <1>1, <2>1, <2>2, <2>3, <2>4, <2>5, <2>6 DEF CallStep
<1>2. CASE Client
  <2>1. step' = "txHead" \/ UNCHANGED msg
    BY <1>2 DEF Client, Send, SetFilter, Stop, Start
  <2> QED
    BY <1>2, <2>1, ClientFrame DEF At, mcanVars
<1>3. CASE IsrStep
  <2>1. UNCHANGED <<step, msg, ret, txElement, onBus>>
    BY <1>3, IsrFrame
  <2>2. CASE IsrBusOffInit
    <3>1. CASE cccr.init
      <4>1. cccr'.cce /\ txbrp' = FALSE /\ fate' \notin {"waits", "behind"}
            /\ (fate' = "sent" => fate = "sent") /\ (fate' = "none" => fate = "none")
        BY <1>t, <2>2, <3>1 DEF IsrBusOffInit, mcan_init
      <4> QED
        BY <2>1, <4>1
    <3>2. CASE ~cccr.init
      BY <2>1, <2>2, <3>2 DEF IsrBusOffInit, mcan_init
    <3> QED
      BY <3>1, <3>2
  <2>3. CASE IsrBusOffStop
    <3>1. cccr'.cce = cccr.cce /\ UNCHANGED txbrp /\ AbortFrame
      BY <1>t, <2>3 DEF IsrBusOffStop, SetInit
    <3> QED
      BY <1>w, <2>1, <3>1 DEF AbortFrame
  <2>4. CASE ~IsrBusOffInit /\ ~IsrBusOffStop
    <3>1. UNCHANGED <<cccr, txVars>>
      BY <1>3, <2>4 DEF IsrStep, IrqEnter, Branch, IsrRxBuffer, IsrScan, IsrCopyHead, IsrCopyData,
         FifoRead, mcan_rx_fifo_acknowledge, IsrFifo0, IsrFifo0Read, IsrFifo0Ack, IsrFifo1,
         IsrFifo1Read, IsrFifo1Ack, IsrError, IsrBusOff, mcanVars, txVars
    <3> QED
      BY <2>1, <3>1 DEF txVars
  <2> QED
    BY <2>2, <2>3, <2>4
<1>4. CASE Hardware
  <2>1. cccr'.cce = cccr.cce /\ UNCHANGED <<step, msg, ret, txElement>>
    BY <1>4, HardwareCce, HardwareFrame
  <2>2. CASE HwTakeHead
    <3>1. /\ ~OnWire /\ txbrp /\ UNCHANGED <<txbrp, onBus, fate>>
          /\ wire'.head = txElement.head /\ wire'.data = NoMessage
      BY <1>t, <1>w, <2>2 DEF HwTakeHead, TxElement
    <3> QED
      BY <2>1, <3>1 DEF Whole
  <2>3. CASE HwTakeData
    <3>1. /\ OnWire /\ UNCHANGED <<txbrp, onBus, fate>>
          /\ wire'.head = wire.head /\ wire'.data = txElement.data /\ wire.head # NoMessage
      BY <1>t, <1>w, <2>3 DEF HwTakeData, TxElement
    <3> QED
      BY <1>w, <2>1, <3>1 DEF Whole
  <2>4. CASE HwTransmitted
    <3>1. txbrp /\ wire.head # NoMessage /\ wire.data # NoMessage
      BY <1>w, <2>4 DEF HwTransmitted, RequestInv
    <3>2. fate = "waits" => wire = Whole(msg) \/ ~(ret = "STATUS_OK" /\ step \notin TxSteps)
      BY <1>t, <3>1 DEF TxElement, Whole
    <3>3. fate = "dropped" /\ ret = "STATUS_OK" /\ step \notin TxSteps => FALSE
      BY <3>1 DEF RequestInv
    <3> QED
      BY <2>1, <2>4, <3>1, <3>2, <3>3 DEF HwTransmitted
  <2>5. CASE HwRetransmit \/ HwProtocolError \/ HwBusOff
    <3>1. AbortFrame /\ UNCHANGED <<txbrp, onBus>>
      BY <2>5 DEF HwRetransmit, HwProtocolError, HwBusOff
    <3> QED
      BY <1>w, <2>1, <3>1 DEF AbortFrame
  <2>6. CASE HwRecover \/ \E f \in BusFrames : HwReceive(f)
    BY <2>1, <2>6 DEF HwRecover, HwReceive, txVars
  <2> QED
    BY <1>4, <2>2, <2>3, <2>4, <2>5, <2>6 DEF Hardware, HwNext
<1>5. CASE UNCHANGED canVars
  BY <1>5 DEF canVars, mcanVars, threadVars
<1> QED
  BY <1>1, <1>2, <1>3, <1>4, <1>5 DEF Next

\* All of the invariant of these clients together.
ClientInv == /\ TypeOK
             /\ ElementInv
             /\ BootInv
             /\ OffBusInv
             /\ ConfigInv
             /\ RequestInv
             /\ LastAcceptedWins

LEMMA ClientInvInit == Init => ClientInv
<1>1. Init => RequestInv
  BY DEF Init, McanInit, RequestInv, NoWire, OnWire, Whole
<1> QED
  BY <1>1, InitType, ElementInit, BootInit, ConfigInit DEF ClientInv, Init, LastAcceptedWins

LEMMA ClientInvStep ==
    ASSUME NoStopStart
    PROVE  ClientInv /\ [Next]_canVars => ClientInv'
<1> SUFFICES ASSUME ClientInv, [Next]_canVars PROVE ClientInv'
  OBVIOUS
<1> USE DEF ClientInv
<1>1. TypeOK' /\ ElementInv'
  BY TypeStep, ElementStep
<1>2. BootInv' /\ OffBusInv'
  BY BootStep, OffBusStep
<1>3. ConfigInv' /\ RequestInv' /\ LastAcceptedWins'
  BY ConfigStep, RequestStep, AcceptedStep
<1> QED
  BY <1>1, <1>2, <1>3

\* The last message can_tx_message accepted is lost only if its request came while
\* an older frame was on the bus and that one got through, or in configuration.
THEOREM LastAccepted ==
    ASSUME NoStopStart
    PROVE  Spec => []LastAcceptedWins
<1>1. ClientInv => LastAcceptedWins
  BY DEF ClientInv
<1> QED
  BY <1>1, ClientInvInit, ClientInvStep, PTL DEF Spec

-----------------------------------------------------------------------------
(* The data length codes.                                                  *)

\* The code for a length indexes msg_length and, up to 64 bytes, stands for the
\* smallest element that holds the message; up to 8 bytes for the message itself.
\* Beyond 64 bytes it is that of 64: can_tx_message does not look.
THEOREM LengthCode ==
    ASSUME NEW length \in 0 .. 255
    PROVE  LET dlc == can_length_to_dlc(length) IN
             /\ dlc \in 0 .. 15
             /\ length <= 64 => length <= can_dlc_to_length(dlc)
             /\ \A d \in 0 .. dlc - 1 : can_dlc_to_length(d) < length
             /\ length <= 8 => can_dlc_to_length(dlc) = length
<1> DEFINE dlc == can_length_to_dlc(length)
<1>1. dlc \in 0 .. 15
  BY DEF can_length_to_dlc
<1>2. /\ \A d \in 0 .. 8 : can_dlc_to_length(d) = d
      /\ can_dlc_to_length(9) = 12 /\ can_dlc_to_length(10) = 16
      /\ can_dlc_to_length(11) = 20 /\ can_dlc_to_length(12) = 24
      /\ can_dlc_to_length(13) = 32 /\ can_dlc_to_length(14) = 48
      /\ can_dlc_to_length(15) = 64
  BY DEF can_dlc_to_length
<1>3. /\ length <= 64 => length <= can_dlc_to_length(dlc)
      /\ length <= 8 => can_dlc_to_length(dlc) = length
  BY <1>2 DEF can_length_to_dlc
<1>4. ASSUME NEW d \in 0 .. dlc - 1 PROVE can_dlc_to_length(d) < length
  <2>1. CASE d \in 0 .. 8
    BY <1>2, <2>1 DEF can_length_to_dlc
  <2>2. CASE d \in {9, 10, 11, 12, 13, 14}
    BY <1>2, <2>2 DEF can_length_to_dlc
  <2> QED
    BY <1>1, <2>1, <2>2
<1> QED
  BY <1>1, <1>3, <1>4

\* A longer message has a larger code, whichever table is used.
THEOREM LengthOrder ==
    ASSUME NEW short \in 0 .. 255, NEW long \in short .. 255
    PROVE  can_length_to_dlc(short) <= can_length_to_dlc(long)
BY DEF can_length_to_dlc

=============================================================================
