---------------------------- MODULE ConsoleProofs ----------------------------
(***************************************************************************)
(* For every text length and set of handlers: what is lost on the console  *)
(* is lost to a handler entered between a test and a write, and what the   *)
(* most urgent handler prints arrives whole.                               *)
(***************************************************************************)
EXTENDS Console, TLAPS

\* A context between its test and its write is entered and has something to write,
\* and if it does not run it was interrupted there.
StackInv ==
    \A c \in Contexts :
      ready[c] => c \in active /\ text[c] # 0 /\ (~Runs(c) => hit[c])

\* A character of the CAN handler that is not its last is followed by its next:
\* the handler is still entered and will write that one next.
NextOfTop(n) == "can" \in active /\ text["can"] = n - 1

PiecesInv ==
    "can" \in Contexts =>
      \A n \in 2 .. TextLength :
        /\ thr = [by |-> "can", n |-> n] => NextOfTop(n)
        /\ shift = [by |-> "can", n |-> n] /\ thr = NoChar => NextOfTop(n)

ConsoleInv ==
    /\ ConsoleTypeOK
    /\ StackInv
    /\ LossOnlyByPreemption
    /\ PiecesInv
    /\ TopTextIsWhole
    /\ KeyRunsOnce

USE ConsoleAssumption, NoCharAssumption

\* One context runs at a time.
LEMMA OneRuns ==
    ASSUME NEW c \in Contexts, NEW d \in Contexts, Runs(c), Runs(d)
    PROVE  c = d
BY DEF Runs, Preempts, Contexts

\* The CAN handler, once entered, is what runs.
LEMMA TopRuns ==
    ASSUME ConsoleTypeOK, "can" \in active
    PROVE  Runs("can")
BY DEF Runs, Preempts, ConsoleTypeOK, Contexts

LEMMA InitInv == ConsoleInit => ConsoleInv
BY DEF ConsoleInit, ConsoleInv, ConsoleTypeOK, StackInv, LossOnlyByPreemption, PiecesInv,
       TopTextIsWhole, KeyRunsOnce, Contexts, NextOfTop, Char

\* Every action preserves the types.
LEMMA TypeStep ==
    ASSUME ConsoleTypeOK, StackInv, [ConsoleNext]_consoleVars
    PROVE  ConsoleTypeOK'
<1> USE DEF ConsoleTypeOK, Contexts
<1>1. ASSUME NEW c \in Contexts, TestTxrdy(c) PROVE ConsoleTypeOK'
  BY <1>1 DEF TestTxrdy
<1>2. ASSUME NEW c \in Contexts, WriteThr(c) PROVE ConsoleTypeOK'
  <2>1. text[c] \in 1 .. TextLength
    BY <1>2 DEF WriteThr, StackInv
  <2>2. text' \in [Contexts -> 0 .. TextLength]
    BY <1>2, <2>1 DEF WriteThr
  <2>3. thr' \in Char \cup {NoChar}
    BY <1>2, <2>1 DEF WriteThr, Char
  <2> QED
    BY <1>2, <2>2, <2>3 DEF WriteThr
<1>3. CASE TestRxrdy
  BY <1>3 DEF TestRxrdy
<1>4. CASE ReadRhr
  BY <1>4 DEF ReadRhr
<1>5. CASE MainPrinted
  BY <1>5 DEF MainPrinted
<1>6. ASSUME NEW h \in Handlers, Enter(h) PROVE ConsoleTypeOK'
  BY <1>6 DEF Enter, HandlerRuns
<1>7. ASSUME NEW h \in Handlers, Return(h) PROVE ConsoleTypeOK'
  BY <1>7 DEF Return
<1>8. CASE HwShift \/ HwSent \/ HwKey
  BY <1>8 DEF HwShift, HwSent, HwKey
<1>9. CASE HwNoise \/ HwRequest
  BY <1>9 DEF HwNoise, HwRequest
<1>10. CASE UNCHANGED consoleVars
  BY <1>10 DEF consoleVars
<1> QED
  BY <1>1, <1>2, <1>3, <1>4, <1>5, <1>6, <1>7, <1>8, <1>9, <1>10
     DEF ConsoleNext, Software

-----------------------------------------------------------------------------
(* The steps of the software.                                              *)

\* A test finds the register empty, by the one context that runs.
LEMMA TestStep ==
    ASSUME ConsoleInv, ConsoleTypeOK', NEW c \in Contexts, TestTxrdy(c)
    PROVE  ConsoleInv'
<1> USE DEF ConsoleInv, TestTxrdy
<1>1. StackInv'
  BY DEF StackInv, ConsoleTypeOK, Runs, TextLeft
<1>2. LossOnlyByPreemption'
  BY DEF LossOnlyByPreemption, ConsoleTypeOK, TxReady
<1>3. PiecesInv' /\ TopTextIsWhole' /\ KeyRunsOnce'
  BY DEF PiecesInv, NextOfTop, TopTextIsWhole, KeyRunsOnce
<1> QED
  BY <1>1, <1>2, <1>3

\* A write fills the register: every other context that had tested it was
\* interrupted, for it does not run now.
LEMMA WriteStep ==
    ASSUME ConsoleInv, ConsoleTypeOK', NEW c \in Contexts, WriteThr(c)
    PROVE  ConsoleInv'
<1> USE DEF ConsoleInv
<1>1. StackInv'
  BY DEF WriteThr, StackInv, ConsoleTypeOK, Runs
<1>2. LossOnlyByPreemption'
  <2> SUFFICES ASSUME NEW d \in Contexts, ready'[d], thr' # NoChar PROVE hit'[d]
    BY DEF LossOnlyByPreemption
  <2>1. d # c /\ ready[d] /\ hit'[d] = hit[d]
    BY DEF WriteThr, ConsoleTypeOK
  <2>2. ~Runs(d)
    BY <2>1, OneRuns DEF WriteThr
  <2> QED
    BY <2>1, <2>2 DEF StackInv
<1>3. KeyRunsOnce'
  BY DEF WriteThr, KeyRunsOnce
<1>4. ASSUME "can" \in Contexts PROVE ~hit'["can"]
  BY <1>4 DEF WriteThr, TopTextIsWhole, ConsoleTypeOK
<1>5. ASSUME c = "can" PROVE PiecesInv' /\ TopTextIsWhole'
  <2>1. thr = NoChar /\ thr' = [by |-> "can", n |-> text["can"]]
    BY <1>5 DEF WriteThr, LossOnlyByPreemption, TopTextIsWhole
  <2>2. text["can"] \in Nat /\ text'["can"] = text["can"] - 1
    BY <1>5 DEF WriteThr, ConsoleTypeOK
  <2>3. "can" \in active' /\ shift' = shift
    BY <1>5 DEF WriteThr, Runs
  <2>4. thr' # NoChar
    BY <2>1, <1>5 DEF ConsoleTypeOK, WriteThr, StackInv, Char
  <2>5. PiecesInv'
    <3> SUFFICES ASSUME NEW n \in 2 .. TextLength, thr' = [by |-> "can", n |-> n]
                 PROVE  NextOfTop(n)'
      BY <2>4 DEF PiecesInv
    <3>1. n = text["can"]
      BY <2>1
    <3> QED
      BY <3>1, <2>2, <2>3 DEF NextOfTop
  <2>6. TopTextIsWhole'
    <3> SUFFICES ASSUME NEW n \in 2 .. TextLength, shift' = [by |-> "can", n |-> n]
                 PROVE  thr' = [by |-> "can", n |-> n - 1]
      BY <1>4, <1>5 DEF TopTextIsWhole
    <3>1. NextOfTop(n)
      BY <2>1, <2>3, <1>5 DEF PiecesInv
    <3> QED
      BY <3>1, <2>1 DEF NextOfTop
  <2> QED
    BY <2>5, <2>6
<1>6. ASSUME c # "can", "can" \in Contexts PROVE PiecesInv' /\ TopTextIsWhole'
  <2>1. "can" \notin active
    BY <1>6, TopRuns, OneRuns DEF WriteThr
  <2>2. shift' = shift /\ active' = active
    BY DEF WriteThr
  <2>3. \A n \in 2 .. TextLength : thr # [by |-> "can", n |-> n]
    BY <2>1, <1>6 DEF PiecesInv, NextOfTop
  <2>4. \A n \in 2 .. TextLength : thr' # [by |-> "can", n |-> n]
    BY <2>3, <1>6 DEF WriteThr
  <2>5. ASSUME NEW n \in 2 .. TextLength, shift' = [by |-> "can", n |-> n]
        PROVE  thr' = thr /\ thr = [by |-> "can", n |-> n - 1]
    <3>1. thr # NoChar
      BY <2>1, <2>2, <2>5, <1>6 DEF PiecesInv, NextOfTop
    <3> QED
      BY <3>1, <2>2, <2>5, <1>6 DEF TopTextIsWhole, WriteThr
  <2>6. thr' # NoChar
    BY DEF WriteThr, ConsoleTypeOK, StackInv, Char
  <2> QED
    BY <1>4, <1>6, <2>4, <2>5, <2>6 DEF PiecesInv, TopTextIsWhole
<1> QED
  BY <1>1, <1>2, <1>3, <1>5, <1>6 DEF PiecesInv, TopTextIsWhole

\* main's own steps write nothing.
LEMMA MainStep ==
    ASSUME ConsoleInv, ConsoleTypeOK', TestRxrdy \/ ReadRhr \/ MainPrinted
    PROVE  ConsoleInv'
<1> USE DEF ConsoleInv
<1>1. /\ UNCHANGED <<active, ready, hit, thr, shift>>
      /\ \A c \in Contexts \ {"main"} : text'[c] = text[c]
      /\ text'["main"] = text["main"] \/ text'["main"] # 0
  BY DEF TestRxrdy, ReadRhr, MainPrinted, ConsoleTypeOK
<1>2. StackInv'
  BY <1>1 DEF StackInv, Runs
<1>3. LossOnlyByPreemption'
  BY <1>1 DEF LossOnlyByPreemption
<1>4. PiecesInv' /\ TopTextIsWhole'
  BY <1>1 DEF PiecesInv, NextOfTop, TopTextIsWhole
<1>5. KeyRunsOnce'
  BY DEF KeyRunsOnce, TestRxrdy, ReadRhr, MainPrinted, RxReady
<1> QED
  BY <1>2, <1>3, <1>4, <1>5

-----------------------------------------------------------------------------
(* The steps of the handlers and of the hardware.                          *)

\* Entering marks whoever is between test and write; the CAN handler never is.
LEMMA EnterStep ==
    ASSUME ConsoleInv, ConsoleTypeOK', NEW h \in Handlers, Enter(h)
    PROVE  ConsoleInv'
<1> USE DEF ConsoleInv, Enter, HandlerRuns
<1>1. StackInv'
  BY DEF StackInv, ConsoleTypeOK, Contexts
<1>2. LossOnlyByPreemption'
  BY DEF LossOnlyByPreemption, ConsoleTypeOK
<1>3. "can" \in Contexts => ~hit'["can"]
  BY DEF TopTextIsWhole, StackInv, Preempts, Contexts
<1>4. PiecesInv'
  BY DEF PiecesInv, NextOfTop, ConsoleTypeOK
<1>5. TopTextIsWhole' /\ KeyRunsOnce'
  BY <1>3 DEF TopTextIsWhole, KeyRunsOnce
<1> QED
  BY <1>1, <1>2, <1>4, <1>5

\* Who returns has nothing left to write.
LEMMA ReturnStep ==
    ASSUME ConsoleInv, ConsoleTypeOK', NEW h \in Handlers, Return(h)
    PROVE  ConsoleInv'
<1> USE DEF ConsoleInv, Return
<1>1. StackInv'
  BY DEF StackInv, Runs
<1>2. LossOnlyByPreemption' /\ TopTextIsWhole' /\ KeyRunsOnce'
  BY DEF LossOnlyByPreemption, TopTextIsWhole, KeyRunsOnce
<1>3. PiecesInv'
  BY DEF PiecesInv, NextOfTop
<1> QED
  BY <1>1, <1>2, <1>3

\* A character that moves to the line leaves the register empty.
LEMMA HardwareStep ==
    ASSUME ConsoleInv, ConsoleTypeOK', HwShift \/ HwSent \/ HwKey \/ HwNoise \/ HwRequest
    PROVE  ConsoleInv'
<1> USE DEF ConsoleInv
<1>1. UNCHANGED <<active, text, ready, hit, main>>
  BY DEF HwShift, HwSent, HwKey, HwNoise, HwRequest
<1>2. StackInv'
  BY <1>1 DEF StackInv, Runs
<1>3. /\ thr' = thr \/ thr' = NoChar
      /\ shift' = NoChar \/ UNCHANGED <<thr, shift>> \/ (shift' = thr /\ thr' = NoChar)
  BY DEF HwShift, HwSent, HwKey, HwNoise, HwRequest
<1>4. LossOnlyByPreemption'
  BY <1>1, <1>3 DEF LossOnlyByPreemption
<1>5. KeyRunsOnce'
  BY ConsoleAssumption DEF KeyRunsOnce, HwShift, HwSent, HwKey, HwNoise, HwRequest
<1>6. \A n \in 2 .. TextLength : [by |-> "can", n |-> n] = NoChar => "can" \notin Contexts
  BY DEF Char
<1>7. PiecesInv' /\ TopTextIsWhole'
  BY <1>1, <1>3, <1>6 DEF PiecesInv, TopTextIsWhole, NextOfTop
<1> QED
  BY <1>2, <1>4, <1>5, <1>7

-----------------------------------------------------------------------------
(* The theorems.                                                           *)

LEMMA InvStep == ConsoleInv /\ [ConsoleNext]_consoleVars => ConsoleInv'
<1> SUFFICES ASSUME ConsoleInv, [ConsoleNext]_consoleVars PROVE ConsoleInv'
  OBVIOUS
<1>1. ConsoleTypeOK'
  BY TypeStep DEF ConsoleInv
<1>2. CASE UNCHANGED consoleVars
  BY <1>2 DEF consoleVars, ConsoleInv, ConsoleTypeOK, StackInv, Runs, LossOnlyByPreemption,
              PiecesInv, NextOfTop, TopTextIsWhole, KeyRunsOnce
<1> QED
  BY <1>1, <1>2, TestStep, WriteStep, MainStep, EnterStep, ReturnStep, HardwareStep
     DEF ConsoleNext, Software

LEMMA InvAlways == ConsoleSpec => []ConsoleInv
BY InitInv, InvStep, PTL DEF ConsoleSpec

\* Type correctness: nobody writes more characters than its text has.
THEOREM ConsoleTypeCorrect == ConsoleSpec => []ConsoleTypeOK
<1>1. ConsoleInv => ConsoleTypeOK
  BY DEF ConsoleInv
<1> QED
  BY <1>1, InvAlways, PTL

\* A character of usart_write is lost only to a handler that was entered between
\* the test of TXRDY and the write.
THEOREM LossByPreemption == ConsoleSpec => []LossOnlyByPreemption
<1>1. ConsoleInv => LossOnlyByPreemption
  BY DEF ConsoleInv
<1> QED
  BY <1>1, InvAlways, PTL

\* The text of the most urgent handler arrives whole and in one piece.
THEOREM TopTextWhole == ConsoleSpec => []TopTextIsWhole
<1>1. ConsoleInv => TopTextIsWhole
  BY DEF ConsoleInv
<1> QED
  BY <1>1, InvAlways, PTL

\* No key runs twice.
THEOREM KeyOnce == ConsoleSpec => []KeyRunsOnce
<1>1. ConsoleInv => KeyRunsOnce
  BY DEF ConsoleInv
<1> QED
  BY <1>1, InvAlways, PTL

=============================================================================
