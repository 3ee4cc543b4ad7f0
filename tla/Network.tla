------------------------------ MODULE Network -------------------------------
(***************************************************************************)
(* The firmware of Firmware.tla and the node it commands: subsystem 2,     *)
(* can_slave_nano.ino, an Arduino whose sketch switches an LED through an  *)
(* MCP2515 with two receive buffers.  Subsystem 1's sketch prints what it  *)
(* receives and obeys nothing: the state of that node never changes.       *)
(*                                                                         *)
(* A frame carries the identifier of its head and the command of its data, *)
(* whichever messages these come from.                                     *)
(***************************************************************************)
EXTENDS Firmware

VARIABLES
    rxb0, rxb1,   \* the MCP2515's receive buffers: a command or "none"
    led,          \* pin 6 of the Nano
    overtaken     \* since the buffers were empty, a command was lost or stored
                  \* where it is read before an older one

nodeVars == <<rxb0, rxb1, led, overtaken>>
nwVars   == <<fwVars, nodeVars>>

Ops == Switches \cup Gets

\* setup
NwInit ==
    /\ FwInit
    /\ rxb0 = "none" /\ rxb1 = "none"
    /\ led = "LOW"
    /\ overtaken = FALSE

-----------------------------------------------------------------------------
(* The MCP2515 (external).  Its masks, 0x4FF, tell the identifiers of the  *)
(* three nodes apart.  With rollover a frame goes to RXB0 if that is free, *)
(* else to RXB1, else it is lost.                                          *)

Store(op) ==
    /\ \/ rxb0 = "none" /\ rxb0' = op /\ UNCHANGED rxb1
       \/ rxb0 # "none" /\ rxb1 = "none" /\ rxb1' = op /\ UNCHANGED rxb0
       \/ rxb0 # "none" /\ rxb1 # "none" /\ UNCHANGED <<rxb0, rxb1>>
    /\ overtaken' = (rxb1 # "none" \/ (overtaken /\ rxb0 # "none"))
    /\ UNCHANGED led

Deliver(element) ==
    IF element.head.to = "SS2" THEN Store(element.data.op) ELSE UNCHANGED nodeVars

\* A request goes when a frame got through, or when mcan_init drops it.
Transmitted == txbrp /\ ~txbrp' /\ ~cccr'.cce

-----------------------------------------------------------------------------
(* The sketch.                                                             *)

\* Faulty variants: the level of the other command; nothing for "off".
ExecuteSwapped(cmd) ==
    led' = CASE cmd = "on" -> "LOW" [] cmd = "off" -> "HIGH" [] OTHER -> led

ExecuteOnOnly(cmd) == led' = IF cmd = "on" THEN "HIGH" ELSE led

execute_cmd(cmd) ==
    led' = CASE cmd = "on" -> "HIGH" [] cmd = "off" -> "LOW" [] OTHER -> led

\* readMessage takes RXB0 first.
loop ==
    /\ \/ /\ rxb0 # "none"
          /\ rxb0' = "none"
          /\ execute_cmd(rxb0)
          /\ UNCHANGED rxb1
       \/ /\ rxb0 = "none" /\ rxb1 # "none"
          /\ rxb1' = "none"
          /\ execute_cmd(rxb1)
          /\ UNCHANGED rxb0
    /\ UNCHANGED <<fwVars, overtaken>>

NwNext ==
    \/ FwNext /\ IF Transmitted THEN Deliver(wire) ELSE UNCHANGED nodeVars
    \/ loop

NwSpec == NwInit /\ [][NwNext]_nwVars

\* Besides the processor: the bus begins to carry a frame that is pending, and one
\* that is begun again and again gets through in the end, unless the node leaves the
\* bus; and the sketch loops.
OnBus(A) ==
    A /\ ~At("startWait") /\ UNCHANGED <<nvic, threadVars, isrVars, cmdVars, mainVars>>

NwFairSpec ==
    /\ NwSpec
    /\ FwFairness
    /\ WF_fwVars(OnBus(HwTakeHead))
    /\ SF_fwVars(OnBus(HwTakeData))
    /\ SF_fwVars(OnBus(HwTransmitted))
    /\ WF_nwVars(loop)

-----------------------------------------------------------------------------
(* Properties.                                                             *)

\* The operator's last key is a switch of subsystem 2 that was counted as
\* executed, and main polls for the next.
Commanded ==
    /\ main = "scanf"
    /\ key \in 2 .. 9
    /\ result = "STATUS_OK"
    /\ Element(CommandOf(key)).to = "SS2" /\ Element(CommandOf(key)).op \in Switches

Obeyed ==
    /\ key \in 2 .. 9
    /\ led = IF Element(CommandOf(key)).op = "on" THEN "HIGH" ELSE "LOW"

\* From the key to the LED: when the bus and the node's buffers are quiet, the LED
\* is what the last executed switch command says, though the command may have
\* replaced another in the Tx buffer or followed a torn one, unless the node is off
\* the bus, the command came while an older frame was on it and got lost, or it
\* overtook, or was overtaken, in the MCP2515.
ExecutedIsObeyed ==
    /\ Commanded
    /\ ~cccr.cce /\ ~txbrp
    /\ fate # "missed"
    /\ rxb0 = "none" /\ rxb1 = "none"
    /\ ~overtaken
    => Obeyed

\* And it comes to that, if the operator waits and the node stays on the bus, for
\* every command whose request did not come too late for the frame that cleared it.
SwitchTakesEffect ==
    Commanded ~> Obeyed \/ main # "scanf" \/ cccr.init \/ fate = "missed" \/ overtaken

=============================================================================
