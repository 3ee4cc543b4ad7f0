------------------------------- MODULE Ticker -------------------------------
(***************************************************************************)
(* tc.c: the periodic interrupt of a timer channel, beside the thread that *)
(* starts, stops and re-times it, and TC0_Handler of conf_telemetry.c.     *)
(* The thread initialises the ticker once, as telemetry_init does, and     *)
(* then makes any of Calls at any time.                                    *)
(*                                                                         *)
(* A ticker function is the sequence of its register accesses; program     *)
(* holds those still to do, and the handler runs between any two.  Time is *)
(* counts of the channel's clock.                                          *)
(***************************************************************************)
EXTENDS Naturals, Sequences

CONSTANTS
    CounterMax,      \* TC_COUNTER_MAX_VALUE
    BoardMck,        \* BOARD_MCK, what tc.c computes with
    PeripheralMck,   \* the clock the channel really divides
    Divisor,         \* TC_DIVISOR
    Periods,         \* the periods in ms that are asked for
    Calls,           \* the functions the thread calls after tc_ticker_init
    Gated            \* may a channel without a clock ignore its registers?

ASSUME TickerAssumption ==
    /\ CounterMax \in Nat \ {0}
    /\ BoardMck \in Nat /\ PeripheralMck \in Nat
    /\ Divisor \in Nat \ {0}
    /\ Periods \subseteq Nat
    /\ Calls \subseteq {"stop", "start", "kick", "update", "disable", "enable"}
    /\ Gated \subseteq BOOLEAN

VARIABLES
    period,    \* ticker->TC_PERIOD_IN_MS
    program,   \* the accesses the thread has still to make
    nvic,      \* of the channel's interrupt: enabled, pending
    tc,        \* the channel
    isr,       \* where TC0_Handler is
    gated,     \* a channel without a clock ignores its registers
    since,     \* counts since the last match or trigger
    late,      \* RC was set to a value the counter had passed
    stopped    \* tc_ticker_stop returned, and nobody started or enabled since

tickerVars == <<period, program, nvic, tc, isr, gated, since, late, stopped>>

-----------------------------------------------------------------------------
(* The arithmetic.                                                         *)

INVALID == 0

tc_ticker_get_clock_freq_in_hz == BoardMck \div Divisor

\* Faulty variant: a count of more bits than the counter has is kept.
MaxCountUnchecked(ms) == (tc_ticker_get_clock_freq_in_hz * ms) \div 1000

tc_ticker_get_max_count_for_period(ms) ==
    LET result == (tc_ticker_get_clock_freq_in_hz * ms) \div 1000 IN
    IF result > CounterMax THEN INVALID ELSE result

tc_ticker_check_valid_period(ms) == tc_ticker_get_max_count_for_period(ms) # INVALID

\* tc_find_mck_divisor: the indices of the divisors that a frequency could use, of
\* which the function returns the first; none is a return of 0.
TC_DIV_FACTOR == 65536
Divisors(boardmck) == <<2, 8, 32, 128, boardmck \div 32768>>

HighHz(mck, boardmck, i) == mck \div Divisors(boardmck)[i]
LowHz(mck, boardmck, i)  == HighHz(mck, boardmck, i) \div TC_DIV_FACTOR

tc_find_mck_divisor(freq, mck, boardmck) ==
    {i \in 1 .. 5 : /\ LowHz(mck, boardmck, i) <= freq /\ freq <= HighHz(mck, boardmck, i)
                    /\ \A j \in 1 .. i - 1 : freq < LowHz(mck, boardmck, j)}

-----------------------------------------------------------------------------
(* The functions, each as its accesses.                                    *)

\* Faulty variant: TC_CMR without CPCTRG.
TickerInitNoTrigger == <<"ClockOn", "EMR", "CLKDIS", "IDR", "SR", "RC", "IER">>

\* CLKDIS to CMR are tc_init's.
tc_ticker_init ==
    IF Divisor = 1 THEN <<"ClockOn", "EMR", "CLKDIS", "IDR", "SR", "CMR", "RC", "IER">>
                   ELSE <<"ClockOn", "CLKDIS", "IDR", "SR", "CMR", "RC", "IER">>

tc_ticker_stop  == <<"DisableIRQ", "ClearPending", "ClockOff", "CLKDIS">>

tc_ticker_start == <<"DisableIRQ", "ClearPending", "EnableIRQ", "ClockOn", "CLKEN">>

tc_ticker_kick  == <<"CLKEN">>

\* Faulty variant: the interrupt is on afterwards, whatever it was.
UpdatePeriodEnables(ms) ==
    /\ program' = IF tc_ticker_check_valid_period(ms) THEN <<"DisableIRQ", "RC", "EnableIRQ">>
                                                      ELSE << >>
    /\ period' = IF tc_ticker_check_valid_period(ms) THEN ms ELSE period

\* Nothing reads the period until RC is written from it.
tc_ticker_update_period(ms) ==
    /\ program' = CASE ~tc_ticker_check_valid_period(ms) -> << >>
                    [] tc_ticker_check_valid_period(ms) /\ nvic.en ->
                         <<"DisableIRQ", "RC", "EnableIRQ">>
                    [] OTHER -> <<"DisableIRQ", "RC">>
    /\ period' = IF tc_ticker_check_valid_period(ms) THEN ms ELSE period

TickerInit ==
    /\ period \in Periods
    /\ program = tc_ticker_init
    /\ nvic = [en |-> FALSE, pend |-> FALSE]
    /\ tc = [clk |-> FALSE, clken |-> FALSE, cv |-> 0, rc |-> 0,
             sr |-> FALSE, imr |-> FALSE, trg |-> FALSE]
    /\ isr = "none"
    /\ gated \in Gated
    /\ since = 0
    /\ late = FALSE
    /\ stopped = FALSE

-----------------------------------------------------------------------------
(* The thread.                                                             *)

Interrupted == isr # "none" \/ (nvic.en /\ nvic.pend)

Call(c) ==
    /\ c \in Calls
    /\ program = << >> /\ ~Interrupted
    /\ CASE c = "stop"    -> program' = tc_ticker_stop /\ UNCHANGED period
         [] c = "start"   -> program' = tc_ticker_start /\ UNCHANGED period
         [] c = "kick"    -> program' = tc_ticker_kick /\ UNCHANGED period
         [] c = "update"  -> \E ms \in Periods : tc_ticker_update_period(ms)
         [] c = "disable" -> program' = <<"DisableIRQ">> /\ UNCHANGED period
         [] c = "enable"  -> program' = <<"EnableIRQ">> /\ UNCHANGED period
    /\ stopped' = (stopped /\ c \notin {"start", "enable"})
    /\ UNCHANGED <<nvic, tc, isr, gated, since, late>>

Access(a) ==
    /\ program # << >> /\ ~Interrupted
    /\ Head(program) = a
    /\ program' = Tail(program)
    /\ UNCHANGED <<period, isr, gated>>

NvicAccess ==
    /\ \/ Access("DisableIRQ") /\ nvic' = [nvic EXCEPT !.en = FALSE]
       \/ Access("EnableIRQ")  /\ nvic' = [nvic EXCEPT !.en = TRUE]
       \* The line is a level: what asks for the interrupt pends it again.
       \/ Access("ClearPending") /\ nvic' = [nvic EXCEPT !.pend = tc.sr /\ tc.imr]
    /\ UNCHANGED <<tc, since, late, stopped>>

\* sysclk_enable_peripheral_clock, sysclk_disable_peripheral_clock
ClockAccess ==
    /\ \/ Access("ClockOn")  /\ tc' = [tc EXCEPT !.clk = TRUE]
       \/ Access("ClockOff") /\ tc' = [tc EXCEPT !.clk = FALSE]
    /\ UNCHANGED <<nvic, since, late, stopped>>

\* An access to the channel itself, and the line it leaves.
Answers == tc.clk \/ ~gated

TcAccess(a, new) ==
    /\ Access(a)
    /\ tc' = IF Answers THEN new ELSE tc
    /\ nvic' = [nvic EXCEPT !.pend = @ \/ (tc'.sr /\ tc'.imr)]

tc_start ==
    /\ TcAccess("CLKEN", [tc EXCEPT !.clken = TRUE, !.cv = 0])
    /\ since' = IF Answers THEN 0 ELSE since
    /\ late' = (late /\ ~Answers)
    /\ UNCHANGED stopped

\* In tc_ticker_stop this comes after the clock was switched off, and last.
tc_stop ==
    /\ TcAccess("CLKDIS", [tc EXCEPT !.clken = FALSE])
    /\ stopped' = (stopped \/ ~tc.clk)
    /\ UNCHANGED <<since, late>>

tc_write_rc ==
    LET count == tc_ticker_get_max_count_for_period(period) IN
    /\ TcAccess("RC", [tc EXCEPT !.rc = count])
    /\ late' = (late \/ (Answers /\ 0 < count /\ count <= tc.cv))
    /\ UNCHANGED <<since, stopped>>

\* NODIVCLK in TC_EMR sets how long a count is, and no more.
TcConfigure ==
    /\ \/ TcAccess("EMR", tc)
       \/ TcAccess("IDR", [tc EXCEPT !.imr = FALSE])
       \/ TcAccess("SR",  [tc EXCEPT !.sr = FALSE])
       \/ TcAccess("CMR", [tc EXCEPT !.trg = TRUE])
       \/ TcAccess("IER", [tc EXCEPT !.imr = TRUE])
    /\ UNCHANGED <<since, late, stopped>>

Thread == NvicAccess \/ ClockAccess \/ tc_start \/ tc_stop \/ tc_write_rc \/ TcConfigure

-----------------------------------------------------------------------------
(* TC0_Handler.                                                            *)

IsrRest == UNCHANGED <<period, program, gated, since, late, stopped>>

IsrEnter ==
    /\ isr = "none" /\ nvic.en /\ nvic.pend
    /\ isr' = "clear"
    /\ nvic' = [nvic EXCEPT !.pend = FALSE]
    /\ UNCHANGED tc /\ IsrRest

\* Faulty variant: the status is not read.
IsrDoesNotRead ==
    /\ isr = "clear"
    /\ isr' = "update"
    /\ UNCHANGED <<nvic, tc>> /\ IsrRest

tc_ticker_clear_irq_flags ==
    /\ isr = "clear"
    /\ isr' = "update"
    /\ tc' = IF Answers THEN [tc EXCEPT !.sr = FALSE] ELSE tc
    /\ UNCHANGED nvic /\ IsrRest

\* telemetry_update, printf, and the return.
IsrReturn ==
    /\ isr = "update"
    /\ isr' = "none"
    /\ nvic' = [nvic EXCEPT !.pend = @ \/ (tc.sr /\ tc.imr)]
    /\ UNCHANGED tc /\ IsrRest

TC0_Handler == IsrEnter \/ tc_ticker_clear_irq_flags \/ IsrReturn

-----------------------------------------------------------------------------
(* The counter (external): one count of the divided clock.  A match sets   *)
(* CPCS and, with CPCTRG, restarts it; RC = 0 matches when it wraps.       *)

Next16 == IF tc.cv = CounterMax THEN 0 ELSE tc.cv + 1

HwCount ==
    /\ tc.clk /\ tc.clken
    /\ LET match == Next16 = tc.rc IN
         /\ tc' = [tc EXCEPT !.cv = IF match /\ tc.trg THEN 0 ELSE Next16,
                             !.sr = @ \/ match]
         /\ nvic' = [nvic EXCEPT !.pend = @ \/ (match /\ ~tc.sr /\ tc.imr)]
         \* Kept finite, beyond the longest time to a match.
         /\ since' = IF match THEN 0
                     ELSE IF since > CounterMax + tc.rc THEN since ELSE since + 1
         /\ late' = (late /\ ~match)
    /\ UNCHANGED <<period, program, isr, gated, stopped>>

TickerNext ==
    \/ \E c \in Calls : Call(c)
    \/ Thread
    \/ TC0_Handler
    \/ HwCount

TickerSpec == TickerInit /\ [][TickerNext]_tickerVars

\* Handler and thread execute; now and then the handler is done before the next
\* match, and the thread gets on until then.
TickerFairSpec ==
    /\ TickerSpec
    /\ WF_tickerVars(TC0_Handler)
    /\ SF_tickerVars(IsrReturn /\ ~tc.sr)
    /\ SF_tickerVars(Thread)

-----------------------------------------------------------------------------
(* Properties.                                                             *)

TickerTypeOK ==
    /\ period \in Periods
    /\ nvic \in [en : BOOLEAN, pend : BOOLEAN]
    /\ tc \in [clk : BOOLEAN, clken : BOOLEAN, cv : 0 .. CounterMax, rc : 0 .. CounterMax,
               sr : BOOLEAN, imr : BOOLEAN, trg : BOOLEAN]
    /\ isr \in {"none", "clear", "update"}
    /\ gated \in BOOLEAN
    /\ since \in Nat
    /\ late \in BOOLEAN /\ stopped \in BOOLEAN

\* A stopped ticker does not tick, whatever the thread does to its period or its
\* counter (tc_ticker_update_period gives the interrupt back only if it was on,
\* and the kick cannot enable it).
StoppedIsQuiet == stopped => isr = "none" /\ ~nvic.en

\* Whatever was called, and with the RC = 0 that an invalid period leaves, the
\* next match comes RC counts (a counter round for 0) after the last match or
\* start, unless RC was moved to a value the counter had passed:
\* tc_ticker_update_period does not restart it.
Round == IF tc.rc = 0 THEN CounterMax + 1 ELSE tc.rc

TickOnTime == ~late => since = tc.cv /\ since < Round

\* Every call returns, although the tick may interrupt it anywhere: the handler
\* takes back what asked for it (not where the registers are dead without a clock:
\* tc_ticker_start enables the interrupt before the clock, and a tick that
\* tc_ticker_stop left behind is then served for ever).
TickerReturns == ~gated /\ program # << >> ~> program = << >>

-----------------------------------------------------------------------------
(* What a comment of the code promises and the code does not do.           *)

\* tc.h:55, tc_ticker_t: "Desired tick period in ms": the time between two ticks
\* is the period, to a count.
PeriodIsAsAsked ==
    [][ HwCount /\ tc.sr # tc'.sr
          => LET took  == 1000 * Divisor * (since + 1)
                 asked == period * PeripheralMck
             IN  took <= asked + 1000 * Divisor /\ asked <= took + 1000 * Divisor ]_tickerVars

=============================================================================
