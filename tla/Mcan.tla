-------------------------------- MODULE Mcan --------------------------------
(***************************************************************************)
(* The MCAN1 peripheral of the SAMV71 as the firmware sees it: the bits of *)
(* its registers that the driver (ASF/sam/drivers/mcan) reads or writes,   *)
(* the message RAM the driver lays out, and what the peripheral does by    *)
(* itself.  The driver functions are operators over this state that        *)
(* CanController.tla uses as parts of its steps; the actions whose names   *)
(* start with Hw are the peripheral's and the bus's, and are external.     *)
(*                                                                         *)
(* A CAN message is an identifier, a length and data; here it is one value *)
(* of a constant set.  The driver writes and reads a message RAM element   *)
(* word by word while the peripheral may use it, so an element is a pair   *)
(* of halves: the words T0/T1 (R0/R1) are "head", the data words "data".   *)
(* The halves of one message carry the same value.                         *)
(***************************************************************************)
EXTENDS Naturals, FiniteSets

CONSTANTS
    Messages,        \* what callers of can_tx_message may send
    NoMessage,       \* content of a Tx element nobody has written
    Ids,             \* the CAN identifiers on the bus
    Data,            \* the payloads on the bus
    NoFrame,         \* content of an Rx element the peripheral has not written
    BusFrames,       \* the frames that other nodes may put on the bus
    ProtocolFlags,   \* the protocol error flags this silicon raises: ACKE and
                     \* FOE exist on revision A only, on revision B (the build's
                     \* __SAMV71Q21B__) bits 29 and 30 of IR are other sources
    RxBufferNum,     \* CONF_MCAN1_RX_BUFFER_NUM
    FifoSize,        \* CONF_MCAN1_RX_FIFO_0_NUM = CONF_MCAN1_RX_FIFO_1_NUM
    StdFilterNum,    \* CONF_MCAN1_RX_STANDARD_ID_FILTER_NUM
    ExtFilterNum     \* CONF_MCAN1_RX_EXTENDED_ID_FILTER_NUM

RxBuffers == 0 .. RxBufferNum - 1
Frame     == [ext : BOOLEAN, id : Ids, data : Data]

ASSUME MessagesAssumption == NoMessage \notin Messages
ASSUME FramesAssumption   == NoFrame \notin Frame /\ BusFrames \subseteq Frame
ASSUME SizesAssumption    ==
    /\ RxBufferNum \in Nat \ {0}
    /\ FifoSize \in Nat \ {0}
    /\ StdFilterNum \in Nat \ {0}
    /\ ExtFilterNum \in Nat \ {0}
ASSUME FlagsAssumption    == ProtocolFlags \subseteq {"ACKE", "FOE"}

VARIABLES
    cccr,       \* CC Control Register: bits INIT and CCE
    ie,         \* Interrupt Enable register
    ir,         \* Interrupt Register (the flags raised, enabled or not)
    busOff,     \* PSR.BO: the node is in the bus-off state
    txElement,  \* mcan1_tx_buffer[MCAN_TX_BUFFER_INDEX]
    txbrp,      \* TXBRP, the bit of that Tx buffer: a request is pending
    wire,       \* what the Tx handler has taken of the frame it is sending
    onBus,      \* the last element this node transmitted
    fate,       \* what became of the last request written to TXBAR (history)
    stdFilter,  \* mcan1_rx_standard_filter
    extFilter,  \* mcan1_rx_extended_filter
    ndat,       \* NDAT1: the Rx buffers with new data
    rxBuffer,   \* mcan1_rx_buffer
    fifo        \* mcan1_rx_fifo_0 and _1, with RXFnS

mcanVars == <<cccr, ie, ir, busOff, txElement, txbrp, wire, onBus, fate,
              stdFilter, extFilter, ndat, rxBuffer, fifo>>
rxVars   == <<stdFilter, extFilter, ndat, rxBuffer, fifo>>
txVars   == <<txElement, txbrp, wire, onBus, fate>>

-----------------------------------------------------------------------------
(* Types.                                                                  *)

Flags == {"DRX", "RF0N", "RF1N", "ACKE", "FOE", "BO"}

Whole(m)  == [head |-> m, data |-> m]
TxElement == [head : Messages \cup {NoMessage}, data : Messages \cup {NoMessage}]

\* No frame of this node is on the bus.
NoWire == Whole(NoMessage)
OnWire == wire # NoWire

\* "waits": the message of the request is the one that the pending bit stands
\* for.  "behind": an older frame was on the bus when the request came, and the
\* pending bit is that frame's.  "missed": that frame got through and cleared the
\* bit.  "dropped": the node was, or went, in configuration.
Fates == {"none", "waits", "behind", "missed", "sent", "dropped"}

\* SFID2/EFID2: a buffer number for a filter into an Rx buffer, for a filter
\* into a FIFO the mask, of which the code only uses the all-ones default.
Exact  == RxBufferNum
Filter == [dest : {"off", "buffer", "fifo"}, id : Ids, arg : 0 .. RxBufferNum]

Fifo == [get : 0 .. FifoSize - 1, fill : 0 .. FifoSize,
         ram : [0 .. FifoSize - 1 -> Frame \cup {NoFrame}]]

McanTypeOK ==
    /\ cccr \in [init : BOOLEAN, cce : BOOLEAN]
    /\ ie \in SUBSET Flags
    /\ ir \in SUBSET Flags
    /\ busOff \in BOOLEAN
    /\ txElement \in TxElement
    /\ txbrp \in BOOLEAN
    /\ wire \in TxElement
    /\ onBus \in TxElement
    /\ fate \in Fates
    /\ stdFilter \in [0 .. StdFilterNum - 1 -> Filter]
    /\ extFilter \in [0 .. ExtFilterNum - 1 -> Filter]
    /\ ndat \in SUBSET RxBuffers
    /\ rxBuffer \in [RxBuffers -> Frame \cup {NoFrame}]
    /\ fifo \in [{0, 1} -> Fifo]

\* The peripheral out of reset, and the zero-initialised message RAM.
McanInit ==
    /\ cccr = [init |-> TRUE, cce |-> FALSE]
    /\ ie = {}
    /\ ir = {}
    /\ busOff = FALSE
    /\ txElement = Whole(NoMessage)
    /\ txbrp = FALSE
    /\ wire = NoWire
    /\ onBus = Whole(NoMessage)
    /\ fate = "none"
    /\ \E id \in Ids :   \* filters are off, whatever identifier 0 stands for
         LET off == [dest |-> "off", id |-> id, arg |-> 0] IN
           /\ stdFilter = [s \in 0 .. StdFilterNum - 1 |-> off]
           /\ extFilter = [s \in 0 .. ExtFilterNum - 1 |-> off]
    /\ ndat = {}
    /\ rxBuffer = [b \in RxBuffers |-> NoFrame]
    /\ fifo = [n \in {0, 1} |->
                 [get |-> 0, fill |-> 0, ram |-> [i \in 0 .. FifoSize - 1 |-> NoFrame]]]

-----------------------------------------------------------------------------
(* Rx FIFO arithmetic.                                                     *)

PutIndex(q) == (q.get + q.fill) % FifoSize

\* A message stored in FIFO q.  The default configuration selects overwrite
\* mode: in a full FIFO the oldest element is replaced and the get index moves.
FifoPut(q, f) ==
    [get  |-> IF q.fill = FifoSize THEN (q.get + 1) % FifoSize ELSE q.get,
     fill |-> IF q.fill = FifoSize THEN FifoSize ELSE q.fill + 1,
     ram  |-> [q.ram EXCEPT ![PutIndex(q)] = f]]

\* What a write of index k to RXFnA may leave.  The get index becomes k + 1 and
\* the elements up to k are released.  An index that is not between get and put
\* is outside the peripheral's contract: any fill level that fits is possible.
FifoAcknowledge(q, k) ==
    LET next   == (k + 1) % FifoSize
        behind == (k + FifoSize - q.get) % FifoSize
        fills  == IF behind < q.fill
                    THEN {q.fill - behind - 1}
                    ELSE {n \in 0 .. FifoSize : (next + n) % FifoSize = PutIndex(q)}
    IN  {[q EXCEPT !.get = next, !.fill = n] : n \in fills}

-----------------------------------------------------------------------------
(* What the driver's register writes do.                                   *)

\* The frame on the bus breaks off.  Its request stays pending, and the next
\* attempt takes the element anew: with it whatever was written meanwhile.
AbortFrame ==
    /\ wire' = NoWire
    /\ fate' = IF OnWire /\ fate = "behind" THEN "waits" ELSE fate

\* CCCR.INIT written 0, CCE goes with it (mcan_start).
ClearInit == cccr' = [init |-> FALSE, cce |-> FALSE]

\* CCCR written with INIT = 1 and the CCE bit that was read before (mcan_stop).
\* The node leaves the bus, in the middle of a frame too.
SetInit(cceRead) ==
    /\ cccr' = [init |-> TRUE, cce |-> cccr.cce /\ cceRead]
    /\ AbortFrame

\* CCCR.CCE written 1, which takes effect in INIT only; entering configuration
\* drops the pending Tx requests and empties the Rx FIFOs, but keeps NDAT and
\* the message RAM.  The rest of mcan_init writes configuration registers whose
\* values never change.
mcan_init ==
    IF cccr.init
      THEN /\ cccr' = [cccr EXCEPT !.cce = TRUE]
           /\ txbrp' = FALSE
           /\ wire' = NoWire
           /\ fate' = IF fate \in {"waits", "behind"} THEN "dropped" ELSE fate
           /\ fifo' = [n \in {0, 1} |-> [fifo[n] EXCEPT !.get = 0, !.fill = 0]]
      ELSE UNCHANGED <<cccr, txbrp, wire, fate, fifo>>

mcan_enable_interrupt(flags)       == ie' = ie \cup flags
mcan_disable_interrupt(flags)      == ie' = ie \ flags
mcan_clear_interrupt_status(flags) == ir' = ir \ flags

\* The write to TXBAR in mcan_tx_transfer_request.  It is ignored in configuration
\* and for a buffer whose bit is set already.  As long as nothing of the pending
\* message has been taken that does not matter: the element will be taken as it is.
WriteTxbar ==
    /\ txbrp' = (txbrp \/ ~cccr.cce)
    /\ fate' = CASE cccr.cce            -> "dropped"
                 [] ~cccr.cce /\ OnWire  -> "behind"
                 [] ~cccr.cce /\ ~OnWire -> "waits"

-----------------------------------------------------------------------------
(* The peripheral and the bus (external).                                  *)

Running == ~cccr.init /\ ~busOff

\* A transmission takes time: the Tx handler takes the header words when the frame
\* begins and the data words after them; only a frame that got through clears the
\* request.
HwTakeHead ==
    /\ Running
    /\ txbrp /\ ~OnWire
    /\ wire' = [wire EXCEPT !.head = txElement.head]
    /\ UNCHANGED <<cccr, ie, ir, busOff, txElement, txbrp, onBus, fate, rxVars>>

HwTakeData ==
    /\ Running
    /\ wire.head # NoMessage /\ wire.data = NoMessage
    /\ wire' = [wire EXCEPT !.data = txElement.data]
    /\ UNCHANGED <<cccr, ie, ir, busOff, txElement, txbrp, onBus, fate, rxVars>>

HwTransmitted ==
    /\ Running
    /\ wire.data # NoMessage
    /\ onBus' = wire
    /\ wire' = NoWire
    /\ txbrp' = FALSE
    /\ fate' = CASE fate = "waits"  -> "sent"
                 [] fate = "behind" -> "missed"
                 [] OTHER           -> fate
    /\ UNCHANGED <<cccr, ie, ir, busOff, txElement, rxVars>>

\* Arbitration is lost, or an error breaks the frame off that raises no flag of
\* Flags.  Automatic retransmission keeps the request pending.
HwRetransmit ==
    /\ Running
    /\ OnWire
    /\ AbortFrame
    /\ UNCHANGED <<cccr, ie, ir, busOff, txElement, txbrp, onBus, rxVars>>

\* A protocol error: in a frame of its own, which breaks off, or of another node.
HwProtocolError ==
    /\ Running
    /\ \E e \in ProtocolFlags :
         /\ e = "ACKE" => OnWire
         /\ ir' = ir \cup {e}
    /\ AbortFrame
    /\ UNCHANGED <<cccr, ie, busOff, txElement, txbrp, onBus, rxVars>>

\* Repeated errors of its own transmission take the node off the bus.
HwBusOff ==
    /\ Running
    /\ OnWire
    /\ busOff' = TRUE
    /\ cccr' = [cccr EXCEPT !.init = TRUE]
    /\ ir' = ir \cup {"BO"}
    /\ AbortFrame
    /\ UNCHANGED <<ie, txElement, txbrp, onBus, rxVars>>

\* Once software has cleared INIT the node rejoins the bus after 129 idle
\* sequences; the bus-off status changes again.
HwRecover ==
    /\ busOff
    /\ ~cccr.init
    /\ busOff' = FALSE
    /\ ir' = ir \cup {"BO"}
    /\ UNCHANGED <<cccr, ie, txVars, rxVars>>

\* Acceptance filtering: an Rx buffer that still has new data does not match.
Accepts(flt, f) ==
    /\ flt.id = f.id
    /\ \/ flt.dest = "buffer" /\ flt.arg \in RxBuffers \ ndat
       \/ flt.dest = "fifo" /\ flt.arg = Exact

\* Between the two words of an extended element the mask of a filter into the FIFO
\* is what stood there before: whichever frames that lets through.
MayAccept(flt, f) == Accepts(flt, f) \/ (flt.dest = "fifo" /\ flt.arg # Exact)

\* The element is written before its NDAT bit or its fill level; until then no
\* software looks at it.  So both are one step.
HwStore(flt, f) ==
    \/ /\ flt.dest = "buffer"
       /\ rxBuffer' = [rxBuffer EXCEPT ![flt.arg] = f]
       /\ ndat' = ndat \cup {flt.arg}
       /\ ir' = ir \cup {"DRX"}
       /\ UNCHANGED fifo
    \/ /\ flt.dest = "fifo"
       /\ LET n == IF f.ext THEN 1 ELSE 0 IN
            /\ fifo' = [fifo EXCEPT ![n] = FifoPut(fifo[n], f)]
            /\ ir' = ir \cup {IF f.ext THEN "RF1N" ELSE "RF0N"}
       /\ UNCHANGED <<ndat, rxBuffer>>

\* A frame of another node.  The first filter that accepts it decides where it
\* goes; a frame no filter accepts is rejected and leaves no trace.
HwReceive(f) ==
    /\ Running
    /\ LET list == IF f.ext THEN extFilter ELSE stdFilter
       IN  \E s \in DOMAIN list :
             /\ MayAccept(list[s], f)
             /\ \A t \in 0 .. s - 1 : ~Accepts(list[t], f)
             /\ HwStore(list[s], f)
    /\ UNCHANGED <<cccr, ie, busOff, txVars, stdFilter, extFilter>>

HwNext ==
    \/ HwTakeHead \/ HwTakeData \/ HwTransmitted \/ HwRetransmit
    \/ HwProtocolError
    \/ HwBusOff
    \/ HwRecover
    \/ \E f \in BusFrames : HwReceive(f)

=============================================================================
