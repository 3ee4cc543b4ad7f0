--------------------------- MODULE NetworkProofs ---------------------------
(***************************************************************************)
(* From a key to the LED of subsystem 2, for every set of keys and every   *)
(* behaviour of the bus: what the last frame on the bus says of the node's *)
(* buffers and LED.                                                        *)
(***************************************************************************)
EXTENDS Network, FirmwareProofs

-----------------------------------------------------------------------------
(* What goes on the bus.                                                   *)

\* The last frame carried changes only in a step that ends the Tx request, to what
\* was on the wire: initialisation drops a request only with the node in
\* configuration.
LEMMA TransmittedMeans ==
    ASSUME FwInv, [FwNext]_fwVars
    PROVE  IF Transmitted THEN onBus' = wire ELSE UNCHANGED onBus
<1> USE DEF Transmitted
<1>1. TypeOK /\ OffBusInv /\ BootInv /\ RequestInv /\ [Next]_canVars
  BY FwStepIsClient DEF FwInv, ClientInv
<1>2. CASE CallStep
  <2>1. CASE can_init
    BY <1>1, <2>1 DEF can_init, mcan_init, BootInv, At, TypeOK, McanTypeOK
  <2>2. CASE StartWrite
    BY <2>2 DEF StartWrite, txVars
  <2>3. CASE TxRequest
    BY <1>1, <2>3 DEF TxRequest, WriteTxbar, TypeOK, McanTypeOK
  <2>4. CASE StopWrite
    BY <2>4 DEF StopWrite
  <2>5. CASE ~can_init /\ ~StartWrite /\ ~TxRequest /\ ~StopWrite
    BY <1>2, <2>5, OtherCallSteps
  <2> QED
    BY <2>1, <2>2, <2>3, <2>4, <2>5
<1>3. CASE Client
  BY <1>3, ClientFrame DEF mcanVars
<1>4. CASE IsrStep
  <2>1. UNCHANGED onBus
    BY <1>4, IsrFrame
  <2>2. CASE IsrBusOffInit
    BY <1>1, <2>1, <2>2 DEF IsrBusOffInit, mcan_init, TypeOK, McanTypeOK
  <2>3. CASE ~IsrBusOffInit
    <3>1. UNCHANGED txbrp
      BY <1>4, <2>3 DEF IsrStep, IrqEnter, Branch, IsrRxBuffer, IsrScan, IsrCopyHead,
         IsrCopyData, FifoRead, mcan_rx_fifo_acknowledge, IsrFifo0, IsrFifo0Read, IsrFifo0Ack,
         IsrFifo1, IsrFifo1Read, IsrFifo1Ack, IsrError, IsrBusOff, IsrBusOffStop,
         mcanVars, txVars
    <3> QED
      BY <2>1, <3>1
  <2> QED
    BY <2>2, <2>3
<1>5. CASE Hardware
  <2>1. CASE HwTransmitted
    <3>1. txbrp
      BY <1>1, <2>1 DEF HwTransmitted, RequestInv, OnWire, NoWire, Whole
    <3> QED
      BY <1>1, <2>1, <3>1 DEF HwTransmitted, Running, OffBusInv
  <2>2. CASE ~HwTransmitted
    <3>1. UNCHANGED <<txbrp, onBus>>
      BY <1>5, <2>2 DEF Hardware, HwNext, HwTakeHead, HwTakeData, HwRetransmit, HwProtocolError,
         HwBusOff, HwRecover, HwReceive, txVars
    <3> QED
      BY <3>1
  <2> QED
    BY <2>1, <2>2
<1>6. CASE UNCHANGED canVars
  BY <1>6 DEF canVars, mcanVars
<1> QED
  BY <1>1, <1>2, <1>3, <1>4, <1>5, <1>6 DEF Next

-----------------------------------------------------------------------------
(* What the node makes of it.                                              *)

Level(op) == IF op = "on" THEN "HIGH" ELSE "LOW"

\* What the LED will be when the buffers have been read.
LastIs(op) ==
    /\ rxb1 # "none" => rxb1 = op
    /\ rxb1 = "none" /\ rxb0 # "none" => rxb0 = op
    /\ rxb1 = "none" /\ rxb0 = "none" => led = Level(op)

\* The last frame on the bus is the last command in the buffers, or was the last
\* to be obeyed.
LedInv ==
    \A f \in Messages :
      onBus = Whole(f) /\ f.to = "SS2" /\ f.op \in Switches /\ ~overtaken => LastIs(f.op)

NwInv == FwInv /\ LedInv

LEMMA NwStepIsFirmware == [NwNext]_nwVars => [FwNext]_fwVars
  BY DEF NwNext, nwVars, loop

LEMMA NwInvInit == NwInit => NwInv
<1> SUFFICES ASSUME NwInit PROVE NwInv
  OBVIOUS
<1>1. onBus = Whole(NoMessage)
  BY DEF NwInit, FwInit, Init, McanInit
<1>2. \A f \in Messages : onBus # Whole(f)
  BY <1>1, MessagesAssumption DEF Whole
<1> QED
  BY <1>2, FwInvInit DEF NwInit, NwInv, LedInv

LEMMA StoreKeepsOrder ==
    ASSUME NEW op \in Switches, Store(op), ~overtaken'
    PROVE  LastIs(op)'
  BY DEF Store, LastIs, Switches

LEMMA LoopKeepsOrder ==
    ASSUME NEW op \in Switches, loop, LastIs(op)
    PROVE  LastIs(op)'
  BY DEF loop, execute_cmd, LastIs, Level, Switches

LEMMA LedStep == NwInv /\ [NwNext]_nwVars => LedInv'
<1> SUFFICES ASSUME NwInv, [NwNext]_nwVars,
                    NEW f \in Messages, onBus' = Whole(f), f.to = "SS2", f.op \in Switches,
                    ~overtaken'
             PROVE  LastIs(f.op)'
  BY DEF LedInv
<1>1. CASE FwNext /\ Transmitted /\ Deliver(wire)
  <2>1. wire = Whole(f)
    BY <1>1, TransmittedMeans DEF NwInv
  <2>2. Store(f.op)
    BY <1>1, <2>1 DEF Deliver, Whole
  <2> QED
    BY <2>2, StoreKeepsOrder
<1>2. CASE FwNext /\ ~Transmitted /\ UNCHANGED nodeVars
  <2>1. UNCHANGED onBus
    BY <1>2, TransmittedMeans DEF NwInv
  <2> QED
    BY <1>2, <2>1 DEF NwInv, LedInv, LastIs, nodeVars
<1>3. CASE loop
  <2>1. UNCHANGED <<onBus, overtaken>>
    BY <1>3 DEF loop, fwVars, canVars, mcanVars
  <2> QED
    BY <1>3, <2>1, LoopKeepsOrder DEF NwInv, LedInv
<1>4. CASE UNCHANGED nwVars
  BY <1>4 DEF nwVars, nodeVars, fwVars, canVars, mcanVars, NwInv, LedInv, LastIs
<1> QED
  BY <1>1, <1>2, <1>3, <1>4 DEF NwNext

LEMMA NwInvStep == NwInv /\ [NwNext]_nwVars => NwInv'
  BY NwStepIsFirmware, FwInvStep, LedStep DEF NwInv

-----------------------------------------------------------------------------
(* From the key to the LED.                                                *)

LEMMA ElementType == ASSUME NEW id \in 1 .. 8 PROVE Element(id) \in Messages
<1>1. \A node \in Subsystems : \A op \in Switches \cup Gets : Fn(node, op) \in Messages
  BY FirmwareAssumption DEF Fn
<1>2. CASE id \in 1 .. 4
  BY <1>1, <1>2 DEF Element, START, CMD_MODULE_DEF_TABLE, Subsystems, Switches, Gets
<1>3. CASE id \in 5 .. 8
  BY <1>1, <1>3 DEF Element, START, CMD_MODULE_DEF_TABLE, Subsystems, Switches, Gets
<1> QED
  BY <1>2, <1>3

\* When bus and buffers are quiet the LED is what the last executed switch command
\* says, whichever messages went before it, unless the node is off the bus, the
\* command's request came while an older frame was on it, or the MCP2515 reordered
\* or lost a command.
THEOREM ExecutedObeyed == NwSpec => []ExecutedIsObeyed
<1>1. NwInv => ExecutedIsObeyed
  <2> SUFFICES ASSUME NwInv, Commanded, ~cccr.cce, ~txbrp, fate # "missed",
                      rxb0 = "none", rxb1 = "none", ~overtaken
               PROVE  Obeyed
    BY DEF ExecutedIsObeyed
  <2> DEFINE f == Element(CommandOf(key))
  <2>1. f \in Messages
    BY ElementType DEF Commanded, CommandOf
  <2>2. step = "ready" /\ ret = "STATUS_OK" /\ msg = f
    BY DEF NwInv, FwInv, ControlInv, SentInv, Commanded
  <2>3. onBus = Whole(f)
    <3>1. fate \in Fates
      BY DEF NwInv, FwInv, ClientInv, TypeOK, McanTypeOK
    <3> QED
      BY <2>2, <3>1 DEF NwInv, FwInv, ClientInv, LastAcceptedWins, TxSteps, Fates
  <2>4. LastIs(f.op)
    BY <2>1, <2>3 DEF NwInv, LedInv, Commanded
  <2> QED
    BY <2>4 DEF LastIs, Level, Obeyed, Commanded
<1> QED
  BY <1>1, NwInvInit, NwInvStep, PTL DEF NwSpec

=============================================================================
