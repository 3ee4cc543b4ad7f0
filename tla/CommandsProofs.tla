--------------------------- MODULE CommandsProofs ---------------------------
(* Proofs about Commands.tla: the types, and that cmd_process implements   *)
(* the ledger of CommandLedger.tla, for every set of identifiers and every *)
(* width of the counters.                                                  *)
EXTENDS Commands, TLAPS

(* What a result says about the command that is being processed: the part  *)
(* of the invariant that the refinement needs besides the types.           *)
ResultMeans ==
    /\ cmdStep # "idle" => cmdId \in CmdIds
    /\ cmdStep = "execute" => InList(cmdId)
    /\ cmdStep \in {"setId", "count"} =>
         IF result = "STATUS_OK"
           THEN InList(cmdId)
           ELSE InList(cmdId) => Element(cmdId).op \in Switches

CmdInv == CmdTypeOK /\ ResultMeans

\* A counter stays within its width.
LEMMA IncrementType ==
    ASSUME NEW n \in 0 .. CounterModulus - 1
    PROVE  Increment(n) \in 0 .. CounterModulus - 1
  BY CmdAssumption, SMTT(30) DEF Increment

\* Every result a function returns is a status, and an error only comes from a
\* function that switches a LED.
LEMMA ResultsType ==
    ASSUME NEW f, NEW st \in Results(f)
    PROVE  /\ st \in {"STATUS_OK", "ERR_BUSY"}
           /\ st # "STATUS_OK" => f.op \in Switches
  BY DEF Results

LEMMA CmdInvInit == CmdInit => CmdInv
  BY CmdAssumption DEF CmdInit, CmdInv, CmdTypeOK, ResultMeans, Zero

LEMMA CmdInvStep == CmdInv /\ [CmdNext]_cmdVars => CmdInv'
<1> SUFFICES ASSUME CmdInv, [CmdNext]_cmdVars PROVE CmdInv'
  OBVIOUS
<1> USE DEF CmdInv, CmdTypeOK, ResultMeans
<1>1. ASSUME NEW id \in CmdIds, CmdCall(id) PROVE CmdInv'
  <2>1. id \in 0 .. 255
    BY CmdAssumption
  <2>2. CASE InList(id)
    BY <1>1, <2>1, <2>2 DEF CmdCall
  <2>3. CASE ~InList(id)
    BY <1>1, <2>1, <2>3 DEF CmdCall
  <2> QED
    BY <2>2, <2>3
<1>2. ASSUME cmdStep = "execute", NEW st \in Results(Element(cmdId)), CmdReturn(st)
      PROVE  CmdInv'
  BY <1>2, ResultsType DEF CmdReturn
<1>3. ASSUME CmdSetId PROVE CmdInv'
  BY <1>3 DEF CmdSetId
<1>4. ASSUME CmdCount PROVE CmdInv'
  <2>1. counters'.executed_cmds \in 0 .. CounterModulus - 1
    BY <1>4, IncrementType DEF CmdCount
  <2> QED
    BY <1>4, <2>1, IncrementType DEF CmdCount
<1>5. ASSUME UNCHANGED cmdVars PROVE CmdInv'
  BY <1>5 DEF cmdVars
<1> QED
  BY <1>1, <1>2, <1>3, <1>4, <1>5 DEF CmdNext

\* The counters, identifiers and statuses keep their types and widths.
THEOREM CmdTypeCorrect == CmdSpec => []CmdTypeOK
<1>1. CmdInv => CmdTypeOK
  BY DEF CmdInv
<1> QED
  BY CmdInvInit, CmdInvStep, <1>1, PTL DEF CmdSpec

-----------------------------------------------------------------------------
(* The refinement.                                                         *)

\* Nothing of the ledger changes but when the identifier is written.
LEMMA CmdStepRefines ==
    CmdInv /\ [CmdNext]_cmdVars
      => [Ledger!LedgerNext]_<<[count |-> Entered(counters.executed_cmds, TRUE),
                                last  |-> counters.last_executed_id],
                               [count |-> Entered(counters.aborted_cmds, FALSE),
                                last  |-> counters.last_aborted_id]>>
<1> DEFINE ex == [count |-> Entered(counters.executed_cmds, TRUE),
                  last  |-> counters.last_executed_id]
           ab == [count |-> Entered(counters.aborted_cmds, FALSE),
                  last  |-> counters.last_aborted_id]
<1> SUFFICES ASSUME CmdInv, [CmdNext]_cmdVars
             PROVE  Ledger!LedgerNext \/ UNCHANGED <<ex, ab>>
  OBVIOUS
<1> USE DEF CmdInv, CmdTypeOK, ResultMeans
<1>1. ASSUME NEW id \in CmdIds, CmdCall(id) PROVE UNCHANGED <<ex, ab>>
  <2>1. cmdStep # "count" /\ cmdStep' # "count" /\ UNCHANGED counters
    BY <1>1 DEF CmdCall
  <2> QED
    BY <2>1 DEF Entered
<1>2. ASSUME NEW st, CmdReturn(st) PROVE UNCHANGED <<ex, ab>>
  <2>1. cmdStep # "count" /\ cmdStep' # "count" /\ UNCHANGED counters
    BY <1>2 DEF CmdReturn
  <2> QED
    BY <2>1 DEF Entered
<1>3. ASSUME CmdSetId PROVE Ledger!LedgerNext
  <2>1. /\ cmdStep = "setId" /\ cmdStep' = "count"
        /\ cmdId \in CmdIds
        /\ UNCHANGED <<cmdId, result>>
    BY <1>3 DEF CmdSetId
  <2>2. CASE result = "STATUS_OK"
    <3>1. /\ counters'.executed_cmds = counters.executed_cmds
          /\ counters'.last_executed_id = cmdId
          /\ counters'.aborted_cmds = counters.aborted_cmds
          /\ counters'.last_aborted_id = counters.last_aborted_id
      BY <1>3, <2>2 DEF CmdSetId
    <3>2. InList(cmdId)
      BY <2>1, <2>2
    <3>3. ex'.count = Increment(ex.count) /\ ab'.count = ab.count
      BY <2>1, <2>2, <3>1 DEF Entered
    <3>4. Ledger!Execute(cmdId)
      BY <2>1, <3>1, <3>2, <3>3 DEF Ledger!Execute, Ledger!Enter, Increment
    <3> QED
      BY <2>1, <3>4 DEF Ledger!LedgerNext
  <2>3. CASE result # "STATUS_OK"
    <3>1. /\ counters'.executed_cmds = counters.executed_cmds
          /\ counters'.last_executed_id = counters.last_executed_id
          /\ counters'.aborted_cmds = counters.aborted_cmds
          /\ counters'.last_aborted_id = cmdId
      BY <1>3, <2>3 DEF CmdSetId
    <3>2. InList(cmdId) => Element(cmdId).op \in Switches
      BY <2>1, <2>3
    <3>3. ab'.count = Increment(ab.count) /\ ex'.count = ex.count
      BY <2>1, <2>3, <3>1 DEF Entered
    <3>4. Ledger!Abort(cmdId)
      BY <2>1, <3>1, <3>2, <3>3 DEF Ledger!Abort, Ledger!Enter, Increment
    <3> QED
      BY <2>1, <3>4 DEF Ledger!LedgerNext
  <2> QED
    BY <2>2, <2>3
<1>4. ASSUME CmdCount PROVE UNCHANGED <<ex, ab>>
  <2>1. cmdStep = "count" /\ cmdStep' = "idle" /\ UNCHANGED result
    BY <1>4 DEF CmdCount
  <2>2. /\ counters'.last_executed_id = counters.last_executed_id
        /\ counters'.last_aborted_id = counters.last_aborted_id
        /\ counters'.executed_cmds = Entered(counters.executed_cmds, TRUE)
        /\ counters'.aborted_cmds = Entered(counters.aborted_cmds, FALSE)
    BY <1>4, <2>1 DEF CmdCount, Entered
  <2> QED
    BY <2>1, <2>2 DEF Entered
<1>5. ASSUME UNCHANGED cmdVars PROVE UNCHANGED <<ex, ab>>
  BY <1>5 DEF cmdVars, Entered
<1> QED
  BY <1>1, <1>2, <1>3, <1>4, <1>5 DEF CmdNext

\* cmd_process implements the ledger: one entry for every command, on the right
\* side, with its identifier.
THEOREM CmdRefinesLedger == CmdSpec => ImplementsLedger
<1>1. CmdInit => Ledger!LedgerInit
  BY DEF CmdInit, Zero, Ledger!LedgerInit, Entered
<1> QED
  BY <1>1, CmdInvInit, CmdInvStep, CmdStepRefines, PTL
     DEF CmdSpec, ImplementsLedger, Ledger!LedgerSpec

=============================================================================
