-------------------------- MODULE CanReceiveProofs --------------------------
(***************************************************************************)
(* Reception into the dedicated Rx buffers, and the wait of can_start, for *)
(* every number of buffers, every frame and every client.                  *)
(***************************************************************************)
EXTENDS CanControllerProofs

-----------------------------------------------------------------------------
(* No frame is taken for read that was not.                                *)

Copying(b) == isr \in {"copyHead", "copyData"} /\ scan = b

\* A buffer without new data was printed, or its copy is under way.
CurrentInv ==
    \A b \in RxBuffers :
      /\ b \notin ndat
      /\ rxBuffer[b] # NoFrame
      => /\ ~Copying(b) => printed[b] = Whole(rxBuffer[b])
         /\ isr = "copyData" /\ scan = b => rxElement.head = rxBuffer[b]

\* Only the handler reads and the peripheral fills the buffers.
LEMMA ThreadLeavesBuffers ==
    CallStep \/ Client => UNCHANGED <<ndat, rxBuffer, isr, scan, rxElement, printed>>
  BY DEF CallStep, Client, can_init, StartWrite, StartWait, can_enable_irq, StopRead,
         StopWrite, StopWait, can_disable_irq, TxHead, TxData, TxCheck, TxRequest,
         FilterId, FilterArg, FilterIrq, Send, SetFilter, Stop, Start,
         mcanVars, rxVars, isrVars

\* The peripheral touches what reception uses only when it receives.
LEMMA HardwareReceives ==
    Hardware => UNCHANGED rxVars \/ \E f \in BusFrames : HwReceive(f)
  BY DEF Hardware, HwNext, HwTakeHead, HwTakeData, HwTransmitted, HwRetransmit,
         HwProtocolError, HwBusOff, HwRecover

\* A frame marks the buffer it is stored in.
LEMMA HardwareMarks ==
    ASSUME TypeOK, Hardware
    PROVE  /\ UNCHANGED <<isr, status, scan, rxElement, printed>>
           /\ \A b \in RxBuffers : b \notin ndat' => b \notin ndat /\ rxBuffer'[b] = rxBuffer[b]
<1>a. UNCHANGED <<isr, status, scan, rxElement, printed>>
  BY DEF Hardware, isrVars
<1>b. rxBuffer \in [RxBuffers -> Frame \cup {NoFrame}]
  BY DEF TypeOK, McanTypeOK
<1>1. ASSUME NEW f \in BusFrames, HwReceive(f)
      PROVE  \A b \in RxBuffers : b \notin ndat' => b \notin ndat /\ rxBuffer'[b] = rxBuffer[b]
  <2>1. PICK flt : HwStore(flt, f)
    BY <1>1 DEF HwReceive
  <2>2. \/ ndat' = ndat /\ rxBuffer' = rxBuffer
        \/ /\ ndat' = ndat \cup {flt.arg}
           /\ rxBuffer' = [rxBuffer EXCEPT ![flt.arg] = f]
    BY <2>1 DEF HwStore
  <2> QED
    BY <1>b, <2>2
<1>2. CASE UNCHANGED rxVars
  BY <1>a, <1>2 DEF rxVars
<1> QED
  BY <1>a, <1>1, <1>2, HardwareReceives

\* The handler's steps other than the scan and the copy.
LEMMA IsrOtherSteps ==
    IsrStep /\ ~IsrRxBuffer /\ ~IsrScan /\ ~IsrCopyHead /\ ~IsrCopyData
      => /\ UNCHANGED <<ndat, rxBuffer, scan, rxElement, printed>>
         /\ isr \notin {"scan", "copyHead", "copyData"}
         /\ isr' \notin {"scan", "copyHead", "copyData"}
         /\ "DRX" \in ir => "DRX" \in ir'
  BY DEF IsrStep, IrqEnter, Branch, FifoRead, mcan_rx_fifo_acknowledge, IsrFifo0,
         IsrFifo0Read, IsrFifo0Ack, IsrFifo1, IsrFifo1Read, IsrFifo1Ack, IsrError,
         IsrBusOff, IsrBusOffStop, IsrBusOffInit, mcan_clear_interrupt_status, mcanVars, rxVars

LEMMA CurrentStep ==
    ASSUME TypeOK, CurrentInv, [Next]_canVars
    PROVE  CurrentInv'
<1>1. CASE CallStep \/ Client
  BY <1>1, ThreadLeavesBuffers DEF CurrentInv, Copying
<1>2. CASE Hardware
  BY <1>2, HardwareMarks DEF CurrentInv, Copying
<1>3. CASE IsrRxBuffer
  BY <1>3 DEF IsrRxBuffer, Branch, rxVars, CurrentInv, Copying
<1>4. CASE IsrScan
  BY <1>4 DEF IsrScan, CurrentInv, Copying
<1>5. CASE IsrCopyHead
  <2>1. rxElement' = [rxElement EXCEPT !.head = rxBuffer[scan]] /\ rxElement \in RxElement
    BY <1>5 DEF IsrCopyHead, TypeOK, IsrTypeOK
  <2>2. rxElement'.head = rxBuffer[scan]
    BY <2>1 DEF RxElement
  <2> QED
    BY <1>5, <2>2 DEF IsrCopyHead, mcanVars, CurrentInv, Copying
<1>6. CASE IsrCopyData
  <2>1. /\ rxElement' = [rxElement EXCEPT !.data = rxBuffer[scan]]
        /\ printed' = [printed EXCEPT ![scan] = rxElement']
        /\ isr = "copyData" /\ isr' = "scan"
        /\ UNCHANGED <<ndat, rxBuffer>>
    BY <1>6 DEF IsrCopyData, mcanVars
  <2>2. rxElement \in RxElement /\ scan \in RxBuffers /\ printed \in [RxBuffers -> RxElement]
    BY <2>1 DEF TypeOK, IsrTypeOK
  <2>3. rxElement' = [head |-> rxElement.head, data |-> rxBuffer[scan]]
    BY <2>1, <2>2 DEF RxElement
  <2>4. \A b \in RxBuffers : printed'[b] = IF b = scan THEN rxElement' ELSE printed[b]
    BY <2>1, <2>2
  <2> QED
    BY <2>1, <2>2, <2>3, <2>4 DEF CurrentInv, Copying, Whole
<1>7. CASE IsrStep /\ ~IsrRxBuffer /\ ~IsrScan /\ ~IsrCopyHead /\ ~IsrCopyData
  BY <1>7, IsrOtherSteps DEF CurrentInv, Copying
<1>8. CASE UNCHANGED canVars
  BY <1>8 DEF canVars, mcanVars, isrVars, CurrentInv, Copying
<1> QED
  BY <1>1, <1>2, <1>3, <1>4, <1>5, <1>6, <1>7, <1>8 DEF Next

LEMMA CurrentInit == Init => CurrentInv
  BY DEF Init, McanInit, CurrentInv

\* What was printed last of a buffer without new data is what it holds, however
\* frames and the handler's copy interleave.
THEOREM ReadCurrent == Spec => []ReadIsCurrent
<1>1. CurrentInv => ReadIsCurrent
  BY DEF CurrentInv, Copying, ReadIsCurrent
<1> QED
  BY <1>1, InitType, TypeStep, CurrentInit, CurrentStep, PTL DEF Spec

-----------------------------------------------------------------------------
(* Reception as slots.                                                     *)

\* What is new or being copied is a frame of the bus.
FramesInv ==
    /\ \A b \in ndat : rxBuffer[b] \in Frame
    /\ isr \in {"copyHead", "copyData"} => rxBuffer[scan] \in Frame
    /\ isr = "copyData" => rxElement.head \in Frame

\* The peripheral fills a buffer without new data.
LEMMA HardwareFills ==
    ASSUME TypeOK, Hardware
    PROVE  /\ UNCHANGED <<isr, scan, rxElement, printed>>
           /\ \/ UNCHANGED <<ndat, rxBuffer>>
              \/ \E b \in RxBuffers, f \in Frame : Reception!Arrive(b, f)
<1>a. UNCHANGED <<isr, scan, rxElement, printed>>
  BY DEF Hardware, isrVars
<1>1. ASSUME NEW f \in BusFrames, HwReceive(f)
      PROVE  \/ UNCHANGED <<ndat, rxBuffer>>
             \/ \E b \in RxBuffers, g \in Frame : Reception!Arrive(b, g)
  <2>1. PICK flt : MayAccept(flt, f) /\ HwStore(flt, f)
    BY <1>1 DEF HwReceive
  <2>2. f \in Frame
    BY FramesAssumption
  <2>3. CASE flt.dest = "buffer"
    <3>1. flt.arg \in RxBuffers \ ndat
      BY <2>1, <2>3 DEF MayAccept, Accepts
    <3>2. Reception!Arrive(flt.arg, f)
      BY <1>a, <2>1, <2>3, <3>1 DEF HwStore, Reception!Arrive
    <3> QED
      BY <2>2, <3>1, <3>2
  <2>4. CASE flt.dest # "buffer"
    BY <2>1, <2>4 DEF HwStore
  <2> QED
    BY <2>3, <2>4
<1>2. CASE UNCHANGED rxVars
  BY <1>a, <1>2 DEF rxVars
<1> QED
  BY <1>a, <1>1, <1>2, HardwareReceives

\* The two steps of the copy.
LEMMA CopyHeads ==
    ASSUME TypeOK, IsrCopyHead
    PROVE  /\ isr = "copyHead" /\ isr' = "copyData"
           /\ rxElement'.head = rxBuffer[scan]
           /\ UNCHANGED <<ndat, rxBuffer, scan, printed>>
<1>1. rxElement \in RxElement
  BY DEF TypeOK, IsrTypeOK
<1> QED
  BY <1>1 DEF IsrCopyHead, mcanVars, RxElement

LEMMA CopyShows ==
    ASSUME TypeOK, CurrentInv, FramesInv, IsrCopyData
    PROVE  /\ isr = "copyData" /\ isr' = "scan"
           /\ UNCHANGED <<ndat, rxBuffer>>
           /\ scan \in RxBuffers /\ rxElement.head \in Frame
           /\ Reception!Show(scan, rxElement.head)
<1>1. /\ rxElement \in RxElement /\ scan \in RxBuffers
      /\ isr = "copyData" /\ isr' = "scan"
      /\ UNCHANGED <<ndat, rxBuffer>>
  BY DEF IsrCopyData, TypeOK, IsrTypeOK, mcanVars
<1>2. printed' = [printed EXCEPT ![scan] = [head |-> rxElement.head, data |-> rxBuffer[scan]]]
  <2>1. rxElement' = [head |-> rxElement.head, data |-> rxBuffer[scan]]
    BY <1>1 DEF IsrCopyData, RxElement
  <2> QED
    BY <2>1 DEF IsrCopyData
<1>3. rxBuffer[scan] # NoFrame /\ rxElement.head \in Frame
  BY <1>1, FramesAssumption DEF FramesInv
<1>4. scan \notin ndat => rxElement.head = rxBuffer[scan]
  BY <1>1, <1>3 DEF CurrentInv
<1> QED
  BY <1>1, <1>2, <1>3, <1>4 DEF Reception!Show

LEMMA ScanTakes ==
    ASSUME IsrScan
    PROVE  /\ isr = "scan" /\ UNCHANGED <<rxBuffer, rxElement, printed>>
           /\ \/ isr' \in {"scan", "fifo0"} /\ UNCHANGED ndat
              \/ isr' = "copyHead" /\ scan' = scan /\ Reception!Take(scan)
  BY DEF IsrScan, Reception!Take

LEMMA FramesStep ==
    ASSUME TypeOK, FramesInv, [Next]_canVars
    PROVE  FramesInv'
<1>1. CASE CallStep \/ Client
  BY <1>1, ThreadLeavesBuffers DEF FramesInv
<1>2. CASE Hardware
  <2>1. CASE UNCHANGED <<ndat, rxBuffer>>
    BY <1>2, <2>1, HardwareFills DEF FramesInv
  <2>2. ASSUME NEW b \in RxBuffers, NEW f \in Frame, Reception!Arrive(b, f)
        PROVE  FramesInv'
    <3>1. rxBuffer \in [RxBuffers -> Frame \cup {NoFrame}] /\ ndat \subseteq RxBuffers
      BY DEF TypeOK, McanTypeOK
    <3>2. isr \in {"copyHead", "copyData"} => scan \in RxBuffers
      BY DEF TypeOK, IsrTypeOK
    <3>3. \A c \in RxBuffers : rxBuffer'[c] = IF c = b THEN f ELSE rxBuffer[c]
      BY <2>2, <3>1 DEF Reception!Arrive
    <3> QED
      BY <1>2, <2>2, <3>1, <3>2, <3>3, HardwareFills DEF FramesInv, Reception!Arrive
  <2> QED
    BY <1>2, <2>1, <2>2, HardwareFills
<1>3. CASE IsrRxBuffer
  BY <1>3 DEF IsrRxBuffer, Branch, rxVars, FramesInv
<1>4. CASE IsrScan
  BY <1>4, ScanTakes DEF FramesInv, Reception!Take
<1>5. CASE IsrCopyHead
  BY <1>5, CopyHeads DEF FramesInv
<1>6. CASE IsrCopyData
  BY <1>6 DEF IsrCopyData, mcanVars, FramesInv
<1>7. CASE IsrStep /\ ~IsrRxBuffer /\ ~IsrScan /\ ~IsrCopyHead /\ ~IsrCopyData
  BY <1>7, IsrOtherSteps DEF FramesInv
<1>8. CASE UNCHANGED canVars
  BY <1>8 DEF canVars, mcanVars, isrVars, FramesInv
<1> QED
  BY <1>1, <1>2, <1>3, <1>4, <1>5, <1>6, <1>7, <1>8 DEF Next

\* Every step is a step of the slots or none.
LEMMA SlotsStep ==
    ASSUME TypeOK, CurrentInv, FramesInv, [Next]_canVars
    PROVE  [Reception!SlotsNext]_Reception!slotVars
<1> USE DEF Reception!SlotsNext, Reception!slotVars
<1>1. CASE CallStep \/ Client
  BY <1>1, ThreadLeavesBuffers
<1>2. CASE Hardware
  <2>1. CASE UNCHANGED <<ndat, rxBuffer>>
    BY <1>2, <2>1, HardwareFills
  <2>2. CASE \E b \in RxBuffers, f \in Frame : Reception!Arrive(b, f)
    BY <2>2
  <2> QED
    BY <1>2, <2>1, <2>2, HardwareFills
<1>3. CASE IsrRxBuffer
  BY <1>3 DEF IsrRxBuffer, Branch, rxVars
<1>4. CASE IsrScan
  <2>1. CASE isr' \in {"scan", "fifo0"} /\ UNCHANGED ndat
    BY <1>4, <2>1, ScanTakes
  <2>2. CASE isr' = "copyHead" /\ Reception!Take(scan)
    <3>1. scan \in RxBuffers
      BY <2>2 DEF Reception!Take, TypeOK, McanTypeOK
    <3> QED
      BY <2>2, <3>1
  <2> QED
    BY <1>4, <2>1, <2>2, ScanTakes
<1>5. CASE IsrCopyHead
  BY <1>5, CopyHeads
<1>6. CASE IsrCopyData
  BY <1>6, CopyShows
<1>7. CASE IsrStep /\ ~IsrRxBuffer /\ ~IsrScan /\ ~IsrCopyHead /\ ~IsrCopyData
  BY <1>7, IsrOtherSteps
<1>8. CASE UNCHANGED canVars
  BY <1>8 DEF canVars, mcanVars, isrVars
<1> QED
  BY <1>1, <1>2, <1>3, <1>4, <1>5, <1>6, <1>7, <1>8 DEF Next

\* Reception is a set of slots, one for each Rx buffer, for every client and every
\* traffic: nothing is replaced before it was taken, and what is taken is shown.
THEOREM IsSlots == Spec => ImplementsSlots
<1>1. Init => Reception!SlotsInit /\ FramesInv
  BY DEF Init, McanInit, Reception!SlotsInit, FramesInv, Whole
<1> QED
  BY <1>1, InitType, TypeStep, CurrentInit, CurrentStep, FramesStep, SlotsStep, PTL
     DEF Spec, ImplementsSlots, Reception!SlotsSpec

-----------------------------------------------------------------------------
(* No buffer waits for ever, for clients of one Rx buffer.                 *)

OneRxBuffer(b) ==
    /\ b \in RxBuffers
    /\ \A r \in FilterRequests : r.filter.dest = "buffer" => ~r.ext /\ r.filter.arg = b

\* Then no filter leads to another buffer, at any time.
FiltersInv(b) ==
    /\ \A s \in DOMAIN stdFilter : stdFilter[s].dest = "buffer" => stdFilter[s].arg = b
    /\ \A s \in DOMAIN extFilter : extFilter[s].dest # "buffer"
    /\ ndat \subseteq {b}

LEMMA FiltersStep ==
    ASSUME NEW b, OneRxBuffer(b), TypeOK, FiltersInv(b), [Next]_canVars
    PROVE  FiltersInv(b)'
<1> USE DEF FiltersInv
<1>1. CASE FilterId
  <2>1. request \in FilterRequests /\ request.filter \in Filter
    BY <1>1, ClientAssumption
       DEF FilterId, At, TypeOK, ThreadTypeOK, FilterSteps, FilterRequest
  <2>2. UNCHANGED ndat
    BY <1>1 DEF FilterId
  <2>3. CASE request.ext
    <3>1. request.filter.dest # "buffer"
      BY <2>1, <2>3 DEF OneRxBuffer
    <3>2. [request.filter EXCEPT !.arg = extFilter[request.slot].arg].dest
            = request.filter.dest
      BY <2>1 DEF Filter
    <3>3. UNCHANGED stdFilter /\ DOMAIN extFilter' = DOMAIN extFilter
      BY <1>1, <2>3 DEF FilterId
    <3>4. \A s \in DOMAIN extFilter : extFilter'[s].dest # "buffer"
      BY <1>1, <2>3, <3>1, <3>2 DEF FilterId
    <3> QED
      BY <2>2, <3>3, <3>4
  <2>4. CASE ~request.ext
    <3>1. request.filter.dest = "buffer" => request.filter.arg = b
      BY <2>1 DEF OneRxBuffer
    <3>2. /\ stdFilter' = [stdFilter EXCEPT ![request.slot] = request.filter]
          /\ UNCHANGED extFilter
      BY <1>1, <2>4 DEF FilterId
    <3>3. DOMAIN stdFilter' = DOMAIN stdFilter
      BY <3>2
    <3>4. \A s \in DOMAIN stdFilter :
            stdFilter'[s].dest = "buffer" => stdFilter'[s].arg = b
      BY <3>1, <3>2
    <3> QED
      BY <2>2, <3>2, <3>3, <3>4
  <2> QED
    BY <2>3, <2>4
<1>2. CASE FilterArg
  <2>1. /\ extFilter' = [extFilter EXCEPT ![request.slot].arg = request.filter.arg]
        /\ UNCHANGED <<stdFilter, ndat>>
    BY <1>2 DEF FilterArg
  <2>2. extFilter \in [0 .. ExtFilterNum - 1 -> Filter]
    BY DEF TypeOK, McanTypeOK
  <2>3. \A s \in DOMAIN extFilter : extFilter'[s].dest = extFilter[s].dest
    BY <2>1, <2>2 DEF Filter
  <2>4. DOMAIN extFilter' = DOMAIN extFilter
    BY <2>1
  <2> QED
    BY <2>1, <2>3, <2>4
<1>3. CASE (CallStep /\ ~FilterId /\ ~FilterArg) \/ Client
  <2>1. UNCHANGED <<stdFilter, extFilter, ndat>>
    BY <1>3 DEF CallStep, Client, can_init, StartWrite, StartWait, can_enable_irq, StopRead,
         StopWrite, StopWait, can_disable_irq, TxHead, TxData, TxCheck, TxRequest,
         FilterIrq, Send, SetFilter, Stop, Start, mcanVars, rxVars
  <2> QED
    BY <2>1
<1>4. CASE IsrStep
  <2>1. UNCHANGED <<stdFilter, extFilter>> /\ ndat' \subseteq ndat
    BY <1>4 DEF IsrStep, IrqEnter, Branch, IsrRxBuffer, IsrScan, IsrCopyHead, IsrCopyData,
         FifoRead, mcan_rx_fifo_acknowledge, IsrFifo0, IsrFifo0Read, IsrFifo0Ack, IsrFifo1,
         IsrFifo1Read, IsrFifo1Ack, IsrError, IsrBusOff, IsrBusOffStop, IsrBusOffInit,
         mcanVars, rxVars
  <2> QED
    BY <2>1
<1>5. CASE Hardware
  <2>1. ASSUME NEW f \in BusFrames, HwReceive(f) PROVE FiltersInv(b)'
    <3>1. UNCHANGED <<stdFilter, extFilter>>
      BY <2>1 DEF HwReceive
    <3>2. PICK s : /\ s \in DOMAIN (IF f.ext THEN extFilter ELSE stdFilter)
                   /\ HwStore((IF f.ext THEN extFilter ELSE stdFilter)[s], f)
      BY <2>1 DEF HwReceive
    <3>3. ndat' \subseteq ndat \cup {b}
      BY <3>2 DEF HwStore
    <3> QED
      BY <3>1, <3>3
  <2>2. CASE UNCHANGED rxVars
    BY <2>2 DEF rxVars
  <2> QED
    BY <1>5, <2>1, <2>2, HardwareReceives
<1>6. CASE UNCHANGED canVars
  BY <1>6 DEF canVars, mcanVars
<1> QED
  BY <1>1, <1>2, <1>3, <1>4, <1>5, <1>6 DEF Next

LEMMA FiltersInit == ASSUME NEW b, Init PROVE FiltersInv(b)
  BY DEF Init, McanInit, FiltersInv

LEMMA StrandedStep ==
    ASSUME NEW b, OneRxBuffer(b), TypeOK, FiltersInv(b), NoStrandedBuffer, [Next]_canVars
    PROVE  NoStrandedBuffer'
<1> USE DEF FiltersInv, NoStrandedBuffer
<1>1. CASE CallStep \/ Client
  <2>1. UNCHANGED ir
    BY <1>1 DEF CallStep, Client, can_init, StartWrite, StartWait, can_enable_irq, StopRead,
         StopWrite, StopWait, can_disable_irq, TxHead, TxData, TxCheck, TxRequest,
         FilterId, FilterArg, FilterIrq, Send, SetFilter, Stop, Start, mcanVars
  <2> QED
    BY <1>1, <2>1, ThreadLeavesBuffers
<1>2. CASE Hardware
  <2>1. ir \subseteq ir' /\ UNCHANGED <<isr, scan>>
    BY <1>2, HardwareMarks
       DEF Hardware, HwNext, HwTakeHead, HwTakeData, HwTransmitted, HwRetransmit,
           HwProtocolError, HwBusOff, HwRecover, HwReceive, HwStore
  <2>2. ndat' = ndat \/ "DRX" \in ir'
    BY <1>2, HardwareReceives DEF HwReceive, HwStore, rxVars
  <2> QED
    BY <2>1, <2>2
<1>3. CASE IsrRxBuffer
  <2>1. UNCHANGED ndat /\ scan' = 0 /\ isr = "rxBuffer"
    BY <1>3 DEF IsrRxBuffer, Branch, rxVars
  <2>2. isr' = "scan" \/ ir' = ir
    BY <1>3 DEF IsrRxBuffer, Branch
  <2>3. \A c \in ndat : 0 <= c
    BY SizesAssumption DEF TypeOK, McanTypeOK, RxBuffers
  <2> QED
    BY <2>1, <2>2, <2>3
<1>4. CASE IsrScan
  <2>1. UNCHANGED ir /\ isr = "scan"
    BY <1>4 DEF IsrScan
  <2>2. scan \in Nat /\ ndat \subseteq RxBuffers /\ RxBuffers \subseteq Nat
    BY SizesAssumption DEF TypeOK, McanTypeOK, IsrTypeOK, RxBuffers
  <2>3. CASE scan >= RxBufferNum
    <3>1. \A c \in ndat : ~(scan <= c)
      BY <2>2, <2>3, SizesAssumption DEF RxBuffers
    <3>2. ndat' \subseteq ndat
      BY <1>4 DEF IsrScan
    <3> QED
      BY <2>1, <3>1, <3>2
  <2>4. CASE scan \in RxBuffers \ ndat /\ scan' = scan + 1 /\ UNCHANGED <<isr, ndat>>
    BY <2>1, <2>2, <2>4
  <2>5. CASE scan \in ndat /\ ndat' = ndat \ {scan}
    BY <2>5
  <2> QED
    BY <1>4, <2>3, <2>4, <2>5 DEF IsrScan
<1>5. CASE IsrCopyHead \/ IsrCopyData
  BY <1>5 DEF IsrCopyHead, IsrCopyData, mcanVars
<1>6. CASE IsrStep /\ ~IsrRxBuffer /\ ~IsrScan /\ ~IsrCopyHead /\ ~IsrCopyData
  BY <1>6, IsrOtherSteps
<1>7. CASE UNCHANGED canVars
  BY <1>7 DEF canVars, mcanVars, isrVars
<1> QED
  BY <1>1, <1>2, <1>3, <1>4, <1>5, <1>6, <1>7 DEF Next

\* A buffer with new data has an interrupt to come or is ahead of the scan, for
\* every client that directs responses to one buffer, however many frames come.
THEOREM NoneStranded ==
    ASSUME NEW b \in RxBuffers, OneRxBuffer(b)
    PROVE  Spec => []NoStrandedBuffer
<1>1. Init => FiltersInv(b) /\ NoStrandedBuffer
  BY FiltersInit DEF Init, McanInit, NoStrandedBuffer
<1>2. TypeOK /\ FiltersInv(b) /\ NoStrandedBuffer /\ [Next]_canVars
        => FiltersInv(b)' /\ NoStrandedBuffer'
  BY FiltersStep, StrandedStep
<1> QED
  BY <1>1, <1>2, InitType, TypeStep, PTL DEF Spec

-----------------------------------------------------------------------------
(* The wait of can_start.                                                  *)

\* While the thread waits, only bus-off and its service set INIT again; between
\* mcan_stop and can_init the handler has set it.
WaitInv ==
    /\ step = "startWait" /\ cccr.init => busOff \/ cccr.cce \/ isr = "busOffInit"
    /\ isr = "busOffInit" => cccr.init

LEMMA WaitStep ==
    ASSUME TypeOK, WaitInv, [Next]_canVars
    PROVE  WaitInv'
<1> USE DEF WaitInv
<1>1. CASE CallStep
  BY <1>1 DEF CallStep, can_init, StartWrite, StartWait, can_enable_irq, StopRead,
         StopWrite, StopWait, can_disable_irq, TxHead, TxData, TxCheck, TxRequest,
         FilterId, FilterArg, FilterIrq, At, ClearInit, mcanVars, isrVars
<1>2. CASE Client
  BY <1>2, ClientFrame DEF mcanVars, isrVars
<1>3. CASE Hardware
  BY <1>3 DEF Hardware, HwNext, HwTakeHead, HwTakeData, HwTransmitted, HwRetransmit,
         HwProtocolError, HwBusOff, HwRecover, HwReceive, threadVars, isrVars, TypeOK, McanTypeOK
<1>4. CASE IsrBusOffStop
  BY <1>4 DEF IsrBusOffStop, SetInit, threadVars
<1>5. CASE IsrBusOffInit
  BY <1>5 DEF IsrBusOffInit, mcan_init, threadVars, TypeOK, McanTypeOK
<1>6. CASE IsrStep /\ ~IsrBusOffStop /\ ~IsrBusOffInit
  <2>1. UNCHANGED <<cccr, busOff, step>> /\ isr # "busOffInit" /\ isr' # "busOffInit"
    BY <1>6 DEF IsrStep, IrqEnter, Branch, IsrRxBuffer, IsrScan, IsrCopyHead, IsrCopyData,
         FifoRead, mcan_rx_fifo_acknowledge, IsrFifo0, IsrFifo0Read, IsrFifo0Ack, IsrFifo1,
         IsrFifo1Read, IsrFifo1Ack, IsrError, IsrBusOff, mcanVars, threadVars
  <2> QED
    BY <2>1
<1>7. CASE UNCHANGED canVars
  BY <1>7 DEF canVars, mcanVars, threadVars, isrVars
<1> QED
  BY <1>1, <1>2, <1>3, <1>4, <1>5, <1>6, <1>7 DEF Next

\* can_start's busy wait can only fail to end if the node went bus-off under it,
\* for clients that stop and restart the node too.
THEOREM StartHangs == Spec => []StartHangsOnlyByBusOff
<1>1. Init => WaitInv
  BY DEF Init, WaitInv
<1>2. WaitInv => StartHangsOnlyByBusOff
  BY DEF WaitInv, StartHangsOnlyByBusOff, At
<1> QED
  BY <1>1, <1>2, InitType, TypeStep, WaitStep, PTL DEF Spec

-----------------------------------------------------------------------------
(* The software's index into FIFO 0.                                       *)

\* can_init runs once before the handler can.
IndexInv ==
    /\ step = "init" => standard_receive_index = 0 /\ ~nvic
    /\ ~nvic => isr = "idle"

LEMMA IndexStep == IndexInv /\ [Next]_canVars => IndexInv'
<1> SUFFICES ASSUME IndexInv, [Next]_canVars PROVE IndexInv'
  OBVIOUS
<1> USE DEF IndexInv
<1>1. CASE CallStep
  BY <1>1 DEF CallStep, can_init, StartWrite, StartWait, can_enable_irq, StopRead,
         StopWrite, StopWait, can_disable_irq, TxHead, TxData, TxCheck, TxRequest,
         FilterId, FilterArg, FilterIrq, At, isrVars
<1>2. CASE Client
  BY <1>2, ClientFrame DEF isrVars
<1>3. CASE IsrStep
  <2>1. nvic /\ nvic'
    BY <1>3, IsrFrame DEF IsrStep, IrqEnter, IsrRxBuffer, IsrScan, IsrCopyHead, IsrCopyData,
       IsrFifo0, IsrFifo0Read, IsrFifo0Ack, IsrFifo1, IsrFifo1Read, IsrFifo1Ack, IsrError,
       IsrBusOff, IsrBusOffStop, IsrBusOffInit
  <2> QED
    BY <1>3, <2>1, IsrFrame
<1>4. CASE Hardware
  BY <1>4 DEF Hardware, threadVars, isrVars
<1>5. CASE UNCHANGED canVars
  BY <1>5 DEF canVars, threadVars, isrVars
<1> QED
  BY <1>1, <1>2, <1>3, <1>4, <1>5 DEF Next

\* An acknowledge of the element at the get index releases that element alone.
LEMMA AcknowledgeOne ==
    ASSUME NEW q \in Fifo, q.fill > 0, NEW r \in FifoAcknowledge(q, q.get)
    PROVE  r.get = NextIndex(q.get) /\ r.fill + 1 = q.fill
<1> DEFINE next == (q.get + 1) % FifoSize
<1>1. (q.get + FifoSize - q.get) % FifoSize = 0
  BY SizesAssumption, SMTT(30) DEF Fifo
<1>2. r = [q EXCEPT !.get = next, !.fill = q.fill - 0 - 1]
  BY <1>1 DEF FifoAcknowledge
<1>3. next = NextIndex(q.get)
  BY SizesAssumption, SMTT(30) DEF Fifo, NextIndex
<1> HIDE DEF next
<1>4. r.get = next /\ r.fill = q.fill - 0 - 1
  BY <1>2 DEF Fifo
<1> QED
  BY <1>3, <1>4 DEF Fifo

LEMMA InStepStep ==
    ASSUME TypeOK, IndexInv, [Next]_canVars,
           fifo[0].get = standard_receive_index,
           fifo[0].fill < FifoSize,
           isr = "fifo0Ack" => fifo[0].fill > 0,
           isr \notin {"fifo1Ack", "busOffInit"}
    PROVE  /\ fifo'[0].get = standard_receive_index'
           /\ isr = "fifo0Ack" /\ isr' # isr => fifo'[0].fill + 1 = fifo[0].fill
<1>a. fifo \in [{0, 1} -> Fifo]
  BY DEF TypeOK, McanTypeOK
<1>1. CASE can_init
  <2>1. fifo'[0].get = fifo[0].get \/ fifo'[0].get = 0
    <3>1. \/ fifo' = [n \in {0, 1} |-> [fifo[n] EXCEPT !.get = 0, !.fill = 0]]
          \/ UNCHANGED fifo
      BY <1>1 DEF can_init, mcan_init
    <3> QED
      BY <1>a, <3>1 DEF Fifo
  <2>2. standard_receive_index = 0 /\ UNCHANGED <<isr, standard_receive_index>>
    BY <1>1 DEF can_init, At, IndexInv, isrVars
  <2> QED
    BY <2>1, <2>2
<1>2. CASE (CallStep /\ ~can_init) \/ Client
  <2>1. UNCHANGED <<fifo, isr, standard_receive_index>>
    BY <1>2 DEF CallStep, Client, StartWrite, StartWait, can_enable_irq, StopRead,
         StopWrite, StopWait, can_disable_irq, TxHead, TxData, TxCheck, TxRequest,
         FilterId, FilterArg, FilterIrq, Send, SetFilter, Stop, Start,
         mcanVars, rxVars, isrVars
  <2> QED
    BY <2>1
<1>3. CASE IsrFifo0Ack
  <2>1. PICK r \in FifoAcknowledge(fifo[0], fifo[0].get) : fifo' = [fifo EXCEPT ![0] = r]
    BY <1>3 DEF IsrFifo0Ack, mcan_rx_fifo_acknowledge
  <2>2. fifo'[0] = r /\ standard_receive_index' = NextIndex(fifo[0].get)
    BY <1>a, <1>3, <2>1 DEF IsrFifo0Ack
  <2>3. fifo[0] \in Fifo /\ fifo[0].fill > 0
    BY <1>a, <1>3 DEF IsrFifo0Ack
  <2> QED
    BY <2>1, <2>2, <2>3, AcknowledgeOne
<1>4. CASE IsrStep /\ ~IsrFifo0Ack
  <2>1. UNCHANGED <<fifo, standard_receive_index>> /\ isr # "fifo0Ack"
    BY <1>4 DEF IsrStep, IrqEnter, Branch, IsrRxBuffer, IsrScan, IsrCopyHead, IsrCopyData,
       FifoRead, IsrFifo0, IsrFifo0Read, IsrFifo1, IsrFifo1Read, IsrFifo1Ack, IsrError,
       IsrBusOff, IsrBusOffStop, IsrBusOffInit, mcanVars, rxVars
  <2> QED
    BY <2>1
<1>5. CASE Hardware
  <2>1. UNCHANGED <<isr, standard_receive_index>>
    BY <1>5 DEF Hardware, isrVars
  <2>2. ASSUME NEW f \in BusFrames, HwReceive(f) PROVE fifo'[0].get = fifo[0].get
    <3>1. PICK flt : HwStore(flt, f)
      BY <2>2 DEF HwReceive
    <3>2. CASE UNCHANGED fifo
      BY <3>2
    <3>3. CASE fifo' = [fifo EXCEPT ![IF f.ext THEN 1 ELSE 0] =
                          FifoPut(fifo[IF f.ext THEN 1 ELSE 0], f)]
      <4>1. FifoPut(fifo[0], f).get = fifo[0].get
        BY <1>a DEF FifoPut, Fifo
      <4> QED
        BY <1>a, <3>3, <4>1
    <3> QED
      BY <3>1, <3>2, <3>3 DEF HwStore
  <2>3. CASE UNCHANGED rxVars
    BY <2>1, <2>3 DEF rxVars
  <2> QED
    BY <1>5, <2>1, <2>2, <2>3, HardwareReceives
<1>6. CASE UNCHANGED canVars
  BY <1>6 DEF canVars, mcanVars, isrVars
<1> QED
  BY <1>1, <1>2, <1>3, <1>4, <1>5, <1>6 DEF Next

\* Index and get index move together, one element at a time, for every size of
\* the FIFO and every client.
THEOREM InStep == Spec => FifoInStep
<1>1. Init => IndexInv
  BY DEF Init, IndexInv
<1>2. TypeOK /\ IndexInv /\ [Next]_canVars =>
        [ /\ fifo[0].get = standard_receive_index
          /\ fifo[0].fill < FifoSize
          /\ isr = "fifo0Ack" => fifo[0].fill > 0
          /\ isr \notin {"fifo1Ack", "busOffInit"}
          => /\ fifo'[0].get = standard_receive_index'
             /\ isr = "fifo0Ack" /\ isr' # isr => fifo'[0].fill + 1 = fifo[0].fill
        ]_canVars
  BY InStepStep
<1> QED
  BY <1>1, <1>2, InitType, TypeStep, IndexStep, PTL DEF Spec, FifoInStep

=============================================================================
