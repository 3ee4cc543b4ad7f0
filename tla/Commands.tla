------------------------------ MODULE Commands ------------------------------
(***************************************************************************)
(* The command processor: commands.c (cmd_process and the counters) with   *)
(* the command list that commands_module.c builds from the table of        *)
(* conf_commands_module.h.  A command function is the pair of the node it  *)
(* talks to and the operation it asks for; what a function does is left to *)
(* Firmware.tla, and here only which results it can return.                *)
(***************************************************************************)
EXTENDS Naturals, Sequences

CONSTANTS
    CmdIds,          \* the identifiers callers of commands_module_execute pass
    CounterModulus   \* the counters are uint32_t: 2^32

ASSUME CmdAssumption ==
    /\ CmdIds \subseteq 0 .. 255
    /\ CounterModulus \in Nat \ {0}

VARIABLES
    counters,   \* cmd_counters_t
    cmdStep,    \* where cmd_process is ("idle": not running)
    cmdId,      \* its argument
    result      \* its local "status"

cmdVars == <<counters, cmdStep, cmdId, result>>

-----------------------------------------------------------------------------
(* CMD_MODULE_LIST.                                                        *)

Fn(node, operation) == [to |-> node, op |-> operation]

\* CMD_MODULE_DEF_TABLE: identifiers and functions, in the order of the table.
CMD_MODULE_DEF_TABLE ==
    << [id |-> 0, func |-> Fn("CPU", "temp")],
       [id |-> 1, func |-> Fn("SS1", "on")],
       [id |-> 2, func |-> Fn("SS1", "off")],
       [id |-> 3, func |-> Fn("SS1", "status")],
       [id |-> 4, func |-> Fn("SS1", "temp")],
       [id |-> 5, func |-> Fn("SS2", "on")],
       [id |-> 6, func |-> Fn("SS2", "off")],
       [id |-> 7, func |-> Fn("SS2", "status")],
       [id |-> 8, func |-> Fn("SS2", "temp")] >>

START == 0   \* CMD_GET_CPU_TEMP
END   == 8   \* CMD_SS2_GET_TEMP

InList(id)  == START <= id /\ id <= END
\* ELEMENTS[id - START]; TLA+ sequences start at 1.
Element(id) == CMD_MODULE_DEF_TABLE[id - START + 1].func

\* The functions that switch a LED return what can_tx_message returned.  The
\* others drop it and return false or 0, which cmd_process takes for STATUS_OK.
Switches == {"on", "off"}
Results(f) == IF f.op \in Switches THEN {"STATUS_OK", "ERR_BUSY"} ELSE {"STATUS_OK"}

-----------------------------------------------------------------------------
Zero == [executed_cmds |-> 0, last_executed_id |-> 0,
         aborted_cmds  |-> 0, last_aborted_id  |-> 0]

CmdTypeOK ==
    /\ counters \in [executed_cmds : 0 .. CounterModulus - 1, last_executed_id : 0 .. 255,
                     aborted_cmds  : 0 .. CounterModulus - 1, last_aborted_id  : 0 .. 255]
    /\ cmdStep \in {"idle", "execute", "setId", "count"}
    /\ cmdId \in 0 .. 255
    /\ result \in {"STATUS_OK", "ERR_BUSY", "OPERATION_IN_PROGRESS"}

CmdInit ==
    /\ counters = Zero
    /\ cmdStep = "idle"
    /\ cmdId = 0
    /\ result = "OPERATION_IN_PROGRESS"

cmd_init == counters' = Zero

\* cmd_process, one action for each access that a reader of the counters could
\* tell apart: the range check, the return of the function, the two writes.
CmdCall(id) ==
    /\ cmdStep = "idle"
    /\ cmdId' = id
    /\ result' = "OPERATION_IN_PROGRESS"
    /\ cmdStep' = IF InList(id) THEN "execute" ELSE "setId"
    /\ UNCHANGED counters

CmdReturn(st) ==
    /\ cmdStep = "execute"
    /\ result' = st
    /\ cmdStep' = "setId"
    /\ UNCHANGED <<counters, cmdId>>

CmdSetId ==
    /\ cmdStep = "setId"
    /\ counters' = IF result = "STATUS_OK"
                     THEN [counters EXCEPT !.last_executed_id = cmdId]
                     ELSE [counters EXCEPT !.last_aborted_id = cmdId]
    /\ cmdStep' = "count"
    /\ UNCHANGED <<cmdId, result>>

Increment(n) == (n + 1) % CounterModulus

\* Faulty variant: the else is missing.
CmdCountExecuted ==
    /\ cmdStep = "count"
    /\ counters' = [counters EXCEPT !.executed_cmds = Increment(@)]
    /\ cmdStep' = "idle"
    /\ UNCHANGED <<cmdId, result>>

CmdCount ==
    /\ cmdStep = "count"
    /\ counters' = IF result = "STATUS_OK"
                     THEN [counters EXCEPT !.executed_cmds = Increment(@)]
                     ELSE [counters EXCEPT !.aborted_cmds = Increment(@)]
    /\ cmdStep' = "idle"
    /\ UNCHANGED <<cmdId, result>>

CmdNext ==
    \/ \E id \in CmdIds : CmdCall(id)
    \/ cmdStep = "execute" /\ \E st \in Results(Element(cmdId)) : CmdReturn(st)
    \/ CmdSetId
    \/ CmdCount

CmdSpec == CmdInit /\ [][CmdNext]_cmdVars

-----------------------------------------------------------------------------
(* Properties.                                                             *)

\* Between the two writes the new entry counts as made: a reader in between
\* would see its identifier with the old number.
Entered(count, ok) ==
    IF cmdStep = "count" /\ (result = "STATUS_OK" <=> ok) THEN Increment(count) ELSE count

Ledger == INSTANCE CommandLedger WITH
    Known      <- {id \in CmdIds : InList(id)},
    Infallible <- {id \in CmdIds : InList(id) /\ Element(id).op \notin Switches},
    executed   <- [count |-> Entered(counters.executed_cmds, TRUE),
                   last  |-> counters.last_executed_id],
    aborted    <- [count |-> Entered(counters.aborted_cmds, FALSE),
                   last  |-> counters.last_aborted_id]

\* cmd_process implements the ledger: every processed command makes exactly one
\* entry, on the right side, numbers wrap at 32 bits, an identifier outside the
\* list is never executed and a command that asks for data never aborted.
ImplementsLedger == Ledger!LedgerSpec

=============================================================================
