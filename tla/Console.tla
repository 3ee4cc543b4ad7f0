------------------------------ MODULE Console -------------------------------
(***************************************************************************)
(* stdio over USART1: main, TC0_Handler and MCAN1_INT0_Handler print       *)
(* through one transmit register, each polling TXRDY and then writing, and *)
(* main reads the operator's keys from one receive register.               *)
(*                                                                         *)
(* A printf is TextLength characters handed to _write; character n of a    *)
(* text is the one with n - 1 still to come.  What a handler does besides  *)
(* printing is in CanController.tla and Ticker.tla.                        *)
(***************************************************************************)
EXTENDS Naturals

CONSTANTS
    TextLength,   \* characters of a text
    Handlers,     \* the handlers whose interrupts are on
    Keys,         \* the keys of the operator
    NoChar, NoKey

ASSUME ConsoleAssumption ==
    /\ TextLength \in Nat \ {0}
    /\ Handlers \subseteq {"tc", "can"}
    /\ NoKey \notin Keys

Contexts == {"main"} \cup Handlers
Char     == [by : Contexts, n : 1 .. TextLength]

ASSUME NoCharAssumption == NoChar \notin Char

VARIABLES
    active,   \* the contexts entered and not left; main always is
    text,     \* the characters each has still to write
    ready,    \* it read TXRDY and has not yet written
    hit,      \* a handler was entered in between
    thr,      \* US_THR; NoChar is TXRDY
    shift,    \* the character on the line
    rhr,      \* US_RHR; NoKey is no RXRDY
    main,     \* where main is: polls for a key, saw RXRDY, prints
    key,      \* the key it read last
    req,      \* the handlers whose interrupt is requested
    noisy     \* those whose source goes on requesting

consoleVars == <<active, text, ready, hit, thr, shift, rhr, main, key, req, noisy>>

ConsoleInit ==
    /\ active = {"main"}
    /\ text = [c \in Contexts |-> 0]
    /\ ready = [c \in Contexts |-> FALSE]
    /\ hit = [c \in Contexts |-> FALSE]
    /\ thr = NoChar /\ shift = NoChar
    /\ rhr = NoKey
    /\ main = "read"
    /\ key = NoKey
    /\ req = {}
    /\ noisy = {}

\* Faulty variant: the priorities of the two handlers the wrong way round.
PreemptsSwapped(h, c) == c = "main" \/ (h = "tc" /\ c = "can")

\* MCAN1_INT0 has priority 1, TC0 has 5; lower is more urgent.
Preempts(h, c) == c = "main" \/ (h = "can" /\ c = "tc")

Runs(c) == c \in active /\ \A d \in active \ {c} : Preempts(c, d)

-----------------------------------------------------------------------------
(* _write: for each character the loop of usart_serial_putchar around      *)
(* usart_write, which tests TXRDY and then writes US_THR.                  *)

\* Faulty variant: one round too many.
TextLeftOneMore(c) == text[c] >= 0

TextLeft(c) == text[c] # 0

\* Faulty variant: TXRDY is not tested.
TxReadyIgnored == TRUE

TxReady == thr = NoChar

TestTxrdy(c) ==
    /\ Runs(c) /\ TextLeft(c) /\ ~ready[c]
    /\ TxReady
    /\ ready' = [ready EXCEPT ![c] = TRUE]
    /\ UNCHANGED <<active, text, hit, thr, shift, rhr, main, key, req, noisy>>

\* A character written while the register is full is lost.
WriteThr(c) ==
    /\ Runs(c) /\ ready[c]
    /\ thr' = IF thr = NoChar THEN [by |-> c, n |-> text[c]] ELSE thr
    /\ text' = [text EXCEPT ![c] = @ - 1]
    /\ ready' = [ready EXCEPT ![c] = FALSE]
    /\ hit' = [hit EXCEPT ![c] = FALSE]
    /\ UNCHANGED <<active, shift, rhr, main, key, req, noisy>>

-----------------------------------------------------------------------------
(* main: scanf, then what the key prints.                                  *)

\* Faulty variant: RXRDY is not tested.
RxReadyIgnored == TRUE

RxReady == rhr # NoKey

\* usart_read
TestRxrdy ==
    /\ Runs("main") /\ main = "read"
    /\ RxReady
    /\ main' = "ready"
    /\ UNCHANGED <<active, text, ready, hit, thr, shift, rhr, key, req, noisy>>

ReadRhr ==
    /\ Runs("main") /\ main = "ready"
    /\ key' = rhr
    /\ rhr' = NoKey
    /\ main' = "print"
    /\ text' = [text EXCEPT !["main"] = TextLength]
    /\ UNCHANGED <<active, ready, hit, thr, shift, req, noisy>>

MainPrinted ==
    /\ Runs("main") /\ main = "print" /\ text["main"] = 0
    /\ main' = "read"
    /\ UNCHANGED <<active, text, ready, hit, thr, shift, rhr, key, req, noisy>>

-----------------------------------------------------------------------------
(* The handlers.  Each takes back what requested it before it prints.      *)

HandlerRuns(h) ==
    /\ active' = active \cup {h}
    /\ text' = [text EXCEPT ![h] = TextLength]
    /\ hit' = [c \in Contexts |-> hit[c] \/ ready[c]]
    /\ UNCHANGED <<ready, thr, shift, rhr, main, key, noisy>>

\* Faulty variant: the flag is left.
EnterKeepsFlag(h) ==
    /\ h \in req \ active /\ \A c \in active : Preempts(h, c)
    /\ HandlerRuns(h)
    /\ UNCHANGED req

Enter(h) ==
    /\ h \in req \ active /\ \A c \in active : Preempts(h, c)
    /\ HandlerRuns(h)
    /\ req' = req \ {h}

Return(h) ==
    /\ Runs(h) /\ h # "main" /\ text[h] = 0 /\ ~ready[h]
    /\ active' = active \ {h}
    /\ UNCHANGED <<text, ready, hit, thr, shift, rhr, main, key, req, noisy>>

-----------------------------------------------------------------------------
(* The USART, the operator and what requests the interrupts (external).    *)

HwShift ==
    /\ thr # NoChar /\ shift = NoChar
    /\ shift' = thr
    /\ thr' = NoChar
    /\ UNCHANGED <<active, text, ready, hit, rhr, main, key, req, noisy>>

HwSent ==
    /\ shift # NoChar
    /\ shift' = NoChar
    /\ UNCHANGED <<active, text, ready, hit, thr, rhr, main, key, req, noisy>>

\* A key that finds the register full replaces the one in it.
HwKey ==
    /\ rhr' \in Keys
    /\ UNCHANGED <<active, text, ready, hit, thr, shift, main, key, req, noisy>>

\* The timer runs; nobody acknowledges what the CAN core sends again and again.
HwNoise ==
    /\ \E h \in Handlers : noisy' = noisy \cup {h} \/ noisy' = noisy \ {h}
    /\ UNCHANGED <<active, text, ready, hit, thr, shift, rhr, main, key, req>>

HwRequest ==
    /\ \E h \in noisy : req' = req \cup {h}
    /\ UNCHANGED <<active, text, ready, hit, thr, shift, rhr, main, key, noisy>>

Software ==
    \/ \E c \in Contexts : TestTxrdy(c) \/ WriteThr(c)
    \/ TestRxrdy \/ ReadRhr \/ MainPrinted
    \/ \E h \in Handlers : Enter(h) \/ Return(h)

ConsoleNext == Software \/ HwShift \/ HwSent \/ HwKey \/ HwNoise \/ HwRequest

ConsoleSpec == ConsoleInit /\ [][ConsoleNext]_consoleVars

\* The processor and the transmitter work.
ConsoleFairSpec ==
    /\ ConsoleSpec
    /\ WF_consoleVars(Software)
    /\ WF_consoleVars(HwShift) /\ WF_consoleVars(HwSent)

-----------------------------------------------------------------------------
(* Properties.                                                             *)

ConsoleTypeOK ==
    /\ "main" \in active /\ active \subseteq Contexts
    /\ text \in [Contexts -> 0 .. TextLength]
    /\ ready \in [Contexts -> BOOLEAN]
    /\ hit \in [Contexts -> BOOLEAN]
    /\ thr \in Char \cup {NoChar}
    /\ shift \in Char \cup {NoChar}
    /\ rhr \in Keys \cup {NoKey}
    /\ main \in {"read", "ready", "print"}
    /\ key \in Keys \cup {NoKey}
    /\ req \subseteq Handlers /\ noisy \subseteq Handlers

\* A character is lost (written while the register is full) only if a handler was
\* entered between the test of TXRDY and the write: at most one for each such
\* handler, and none of a text that nothing interrupts.
LossOnlyByPreemption == \A c \in Contexts : ready[c] /\ thr # NoChar => hit[c]

\* What the more urgent handler prints reaches the operator whole and in one
\* piece: nothing that it interrupted gets a character in between, or costs it one.
TopTextIsWhole ==
    "can" \in Contexts =>
      /\ ~hit["can"]
      /\ \A n \in 2 .. TextLength :
           shift = [by |-> "can", n |-> n] /\ thr # NoChar => thr = [by |-> "can", n |-> n - 1]

\* No key runs twice: main takes from the register only a key that came after the
\* last one it took, though its test and its read are apart.
KeyRunsOnce == main = "ready" => rhr # NoKey

\* A key's output ends and main polls for the next one, if the interrupts ever
\* stop: while the CAN core repeats an unacknowledged frame, each repetition
\* requests a text that takes longer than the repetition, and main may wait.
MainGetsBack == <>[](noisy = {}) => (main = "print" ~> main = "read")

=============================================================================
