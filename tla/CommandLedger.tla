--------------------------- MODULE CommandLedger ---------------------------
(***************************************************************************)
(* What the command counters promise to whoever reads them: a ledger.      *)
(* Each command that is processed makes one entry, on the executed or on   *)
(* the aborted side, and an entry changes the number of a side and its     *)
(* last identifier together.  The numbers are 32-bit counters.             *)
(***************************************************************************)
EXTENDS Naturals

CONSTANTS
    Known,          \* the identifiers in the command list
    Infallible,     \* the ones whose function cannot fail
    CmdIds,         \* the identifiers callers may pass
    CounterModulus  \* 2^32

VARIABLES executed, aborted

Enter(side, id) == [count |-> (side.count + 1) % CounterModulus, last |-> id]

LedgerInit == /\ executed = [count |-> 0, last |-> 0]
              /\ aborted  = [count |-> 0, last |-> 0]

Execute(id) == /\ id \in Known
               /\ executed' = Enter(executed, id)
               /\ UNCHANGED aborted

Abort(id) == /\ id \notin Infallible
             /\ aborted' = Enter(aborted, id)
             /\ UNCHANGED executed

LedgerNext == \E id \in CmdIds : Execute(id) \/ Abort(id)

LedgerSpec == LedgerInit /\ [][LedgerNext]_<<executed, aborted>>

=============================================================================
