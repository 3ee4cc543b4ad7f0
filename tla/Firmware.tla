------------------------------ MODULE Firmware ------------------------------
(***************************************************************************)
(* The whole firmware: main.c and telemetry.c on top of the command        *)
(* processor (Commands.tla), with the command functions of                 *)
(* commands_module.c, subsystem_1.c and subsystem_2.c, on top of the CAN   *)
(* controller and its interrupt handler (CanController.tla).               *)
(*                                                                         *)
(* main, the command processor and a call of the controller are one        *)
(* thread: main moves only when no call runs (step = "ready") and the      *)
(* handler does not.  telemetry_init is commented out in main.c, so its    *)
(* timer and TC0_Handler do not run.                                       *)
(***************************************************************************)
EXTENDS CanController, Commands

CONSTANTS
    Keys,     \* the keys the operator may press
    SelfId    \* SELF_CAN_ID

OtherKey == 10   \* 'a', 'h' and every key that is not a digit: nothing changes

Subsystems == {"SS1", "SS2"}
Gets       == {"status", "temp"}

\* MCAN_RX_STANDARD_FILTER_ID_0_BUFFER_INDEX, MCAN_RX_STANDARD_FILTER_INDEX_0
ResponseBuffer == 2
ResponseFilter == [ext |-> FALSE, slot |-> 0,
                   filter |-> [dest |-> "buffer", id |-> SelfId, arg |-> ResponseBuffer]]

ASSUME FirmwareAssumption ==
    /\ Keys \subseteq 0 .. OtherKey
    /\ SelfId \in Ids
    /\ Messages = [to : Subsystems, op : Switches \cup Gets]
    /\ ClientCalls = {"send", "filter"}
    /\ FilterRequests = {ResponseFilter}
    /\ ResponseBuffer \in RxBuffers
    /\ CmdIds = 1 .. 8

VARIABLES
    main,       \* what main is doing
    key,        \* the key it read last
    fnStep,     \* where the running subsystem function is
    todo,       \* the functions telemetry_update has still to call
    telemetry   \* telemetry.commands; the subsystems' fields stay false and 0

mainVars == <<main, key, fnStep, todo, telemetry>>
fwVars   == <<canVars, cmdVars, mainVars>>

-----------------------------------------------------------------------------
FwTypeOK ==
    /\ TypeOK
    /\ CmdTypeOK
    /\ main \in {"boot", "scanf", "command", "telemetry"}
    /\ key \in 0 .. OtherKey
    /\ fnStep \in {"none", "sending", "filtering"}
    /\ todo \in Seq(Messages)
    /\ fnStep # "none" => main = "command" \/ (main = "telemetry" /\ todo # << >>)
    /\ cmdStep # "idle" => main = "command" /\ cmdId \in CmdIds

\* system_init calls can_init and can_start first: Init of CanController.
FwInit ==
    /\ Init
    /\ CmdInit
    /\ main = "boot"
    /\ key = OtherKey
    /\ fnStep = "none"
    /\ todo = << >>
    /\ telemetry = Zero

\* The thread is in main or in a function main called, outside the controller.
InMain(m) == At("ready") /\ main = m

\* Faulty variant: can_start is called again.
FinishBootAgain ==
    /\ InMain("boot")
    /\ cmd_init
    /\ Start
    /\ main' = "scanf"
    /\ UNCHANGED <<cmdStep, cmdId, result, key, fnStep, todo, telemetry>>

\* The rest of system_init.
FinishBoot ==
    /\ InMain("boot")
    /\ cmd_init
    /\ main' = "scanf"
    /\ UNCHANGED <<canVars, cmdStep, cmdId, result, key, fnStep, todo, telemetry>>

-----------------------------------------------------------------------------
(* main's switch.                                                          *)

\* Faulty variant: the key is taken for the identifier.
CommandIsKey(k) == k

\* '2' to '9': the commands 1 to 8.
CommandOf(k) == k - 1

TelemetryGets == << Fn("SS1", "status"), Fn("SS1", "temp"),
                    Fn("SS2", "status"), Fn("SS2", "temp") >>

ReadKey(k) ==
    /\ InMain("scanf")
    /\ key' = k
    /\ \/ k \in 2 .. 9 /\ main' = "command" /\ CmdCall(CommandOf(k)) /\ UNCHANGED todo
       \/ k = 0 /\ main' = "telemetry" /\ todo' = TelemetryGets /\ UNCHANGED cmdVars
       \/ k \in {1, OtherKey} /\ UNCHANGED <<main, todo, cmdVars>>
    /\ UNCHANGED <<canVars, fnStep, telemetry>>

-----------------------------------------------------------------------------
(* The functions of subsystem_1.c and subsystem_2.c, called by the command *)
(* processor or by telemetry_update.                                       *)

FnCalled(f) ==
    \/ main = "command" /\ cmdStep = "execute" /\ f = Element(cmdId)
    \/ main = "telemetry" /\ todo # << >> /\ f = Head(todo)

\* ss1_send_can_command, ss2_send_can_command
FnSend ==
    /\ fnStep = "none"
    /\ \E f \in Messages : FnCalled(f) /\ Send(f)
    /\ fnStep' = "sending"
    /\ UNCHANGED <<cmdVars, main, key, todo, telemetry>>

\* Subsystem 1's get functions go on only if the request was accepted; those of
\* subsystem 2 do nothing there.
Receives(f) == fnStep = "sending" /\ f.to = "SS1" /\ f.op \in Gets /\ ret = "STATUS_OK"

\* ss1_receive_can_response
FnReceive ==
    /\ \E f \in Messages : FnCalled(f) /\ Receives(f)
    /\ SetFilter(ResponseFilter)
    /\ fnStep' = "filtering"
    /\ UNCHANGED <<cmdVars, main, key, todo, telemetry>>

\* The switch functions return the status of the send, the get functions false
\* or 0, which the command processor takes for STATUS_OK.
ReturnValue(f) == IF f.op \in Switches THEN ret ELSE "STATUS_OK"

FnReturn ==
    /\ At("ready")
    /\ fnStep # "none"
    /\ \E f \in Messages :
         /\ FnCalled(f)
         /\ ~Receives(f)
         /\ IF main = "command" THEN CmdReturn(ReturnValue(f)) /\ UNCHANGED todo
                                ELSE todo' = Tail(todo) /\ UNCHANGED cmdVars
    /\ fnStep' = "none"
    /\ UNCHANGED <<canVars, main, key, telemetry>>

\* The end of cmd_process, back to main.
SetId ==
    /\ InMain("command")
    /\ CmdSetId
    /\ UNCHANGED <<canVars, mainVars>>

Count ==
    /\ InMain("command")
    /\ CmdCount
    /\ main' = "scanf"
    /\ UNCHANGED <<canVars, key, fnStep, todo, telemetry>>

\* The end of telemetry_update; telemetry_get then prints.  Only the thread
\* writes the counters: the four reads are one.
CopyCounters ==
    /\ InMain("telemetry")
    /\ todo = << >>
    /\ telemetry' = counters
    /\ main' = "scanf"
    /\ UNCHANGED <<canVars, cmdVars, key, fnStep, todo>>

MainStep == FinishBoot \/ FnSend \/ FnReceive \/ FnReturn \/ SetId \/ Count \/ CopyCounters

Below == (CallStep \/ IsrStep \/ Hardware) /\ UNCHANGED <<cmdVars, mainVars>>

FwNext ==
    \/ \E k \in Keys : ReadKey(k)
    \/ MainStep
    \/ Below

FwSpec == FwInit /\ [][FwNext]_fwVars

FwFairness ==
    /\ WF_fwVars(MainStep)
    /\ WF_fwVars(CallStep /\ UNCHANGED <<cmdVars, mainVars>>)
    /\ WF_fwVars(IsrStep /\ UNCHANGED <<cmdVars, mainVars>>)

-----------------------------------------------------------------------------
(* Properties.                                                             *)

\* The firmware drives the controller as a client of CanController.tla: what
\* holds for every client that sends and sets filters holds here.
FirmwareIsClient == Spec

\* A switch command that was counted as executed is on its way while the node stays
\* on the bus: until the next key its message waits in the Tx buffer and the bus
\* takes no other, or it was the last one carried, unless its request came while an
\* older frame was on the bus; then it is the one that goes out should that frame
\* break off.
ExecutedIsOnItsWay ==
    LET f == Element(CommandOf(key)) IN
      /\ key \in 2 .. 9
      /\ main = "scanf" \/ cmdStep \in {"setId", "count"}
      /\ f.op \in Switches
      /\ result = "STATUS_OK"
      /\ ~cccr.cce
      => \/ fate = "waits" /\ txbrp /\ txElement = Whole(f) /\ OnlyOf(f)
         \/ fate = "behind" /\ txbrp /\ txElement = Whole(f) /\ OnWire
         \/ fate = "sent" /\ onBus = Whole(f)
         \/ fate = "missed"

\* A command is aborted only because the handler took the node off the bus, and
\* then no command is ever sent again: the abort counter tells the operator that
\* the firmware must be reset.
AbortedIsOffBus ==
    counters.aborted_cmds # 0 \/ result = "ERR_BUSY"
      => cccr.init /\ cccr.cce /\ ~txbrp /\ isr \notin {"busOffStop", "busOffInit"}

\* main always comes back for the next key, bus-off or not.
MainReturns == []<>(main = "scanf")

=============================================================================
