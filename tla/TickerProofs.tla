---------------------------- MODULE TickerProofs -----------------------------
(***************************************************************************)
(* For every counter width, clock and period: the arithmetic of tc.c, and  *)
(* the ticker's safety properties whatever its thread calls.               *)
(***************************************************************************)
EXTENDS Ticker, TLAPS

USE TickerAssumption

\* The count of a period fits the counter; a count other than 0 is the period's,
\* rounded down, at the frequency the function computes with.
THEOREM PeriodCount ==
    ASSUME NEW ms \in Nat
    PROVE  LET count == tc_ticker_get_max_count_for_period(ms) IN
             /\ count \in 0 .. CounterMax
             /\ count # INVALID =>
                  /\ 1000 * count <= tc_ticker_get_clock_freq_in_hz * ms
                  /\ tc_ticker_get_clock_freq_in_hz * ms < 1000 * (count + 1)
<1>1. tc_ticker_get_clock_freq_in_hz \in Nat
  BY DEF tc_ticker_get_clock_freq_in_hz
<1> DEFINE product == tc_ticker_get_clock_freq_in_hz * ms
<1>2. product \in Nat
  BY <1>1
<1> HIDE DEF product
<1>3. /\ product \div 1000 \in Nat
      /\ 1000 * (product \div 1000) <= product
      /\ product < 1000 * (product \div 1000 + 1)
  BY <1>2
<1> QED
  BY <1>3 DEF product, tc_ticker_get_max_count_for_period, INVALID

\* tc_find_mck_divisor returns one divisor at most, and none is smaller among
\* those a frequency could use: RC for that frequency fits in 16 bits but for the
\* rounding at the lower bound (the code accepts the bound itself).
THEOREM DivisorFits ==
    ASSUME NEW freq \in Nat, NEW mck \in Nat, NEW boardmck \in Nat,
           32768 <= boardmck,
           NEW i \in tc_find_mck_divisor(freq, mck, boardmck)
    PROVE  /\ freq <= HighHz(mck, boardmck, i)
           /\ HighHz(mck, boardmck, i) < TC_DIV_FACTOR * (freq + 1)
           /\ tc_find_mck_divisor(freq, mck, boardmck) = {i}
<1> DEFINE High(k) == HighHz(mck, boardmck, k)
<1>1. \A k \in 1 .. 5 : High(k) \in Nat
  <2>1. boardmck \div 32768 \in Nat \ {0}
    OBVIOUS
  <2>2. \A k \in 1 .. 5 : Divisors(boardmck)[k] \in Nat \ {0}
    BY <2>1 DEF Divisors
  <2>3. ASSUME NEW d \in Nat \ {0} PROVE mck \div d \in Nat
    OBVIOUS
  <2> QED
    BY <2>2, <2>3 DEF HighHz
<1>2. i \in 1 .. 5 /\ LowHz(mck, boardmck, i) <= freq /\ freq <= High(i)
  BY DEF tc_find_mck_divisor
<1>3. \A k \in 1 .. 5 : LowHz(mck, boardmck, k) = High(k) \div 65536
  BY DEF LowHz, TC_DIV_FACTOR
<1> HIDE DEF High
<1>4. \A k \in 1 .. 5 : /\ LowHz(mck, boardmck, k) \in Nat
                        /\ High(k) < 65536 * (LowHz(mck, boardmck, k) + 1)
  BY <1>1, <1>3
<1>5. High(i) < 65536 * (freq + 1)
  BY <1>1, <1>2, <1>4
<1>6. ASSUME NEW j \in tc_find_mck_divisor(freq, mck, boardmck) PROVE j = i
  <2>1. j \in 1 .. 5 /\ LowHz(mck, boardmck, j) <= freq
    BY DEF tc_find_mck_divisor
  <2>2. ~(j \in 1 .. i - 1) /\ ~(i \in 1 .. j - 1)
    BY <1>2, <1>4, <2>1 DEF tc_find_mck_divisor
  <2> QED
    BY <1>2, <2>1, <2>2
<1>7. tc_find_mck_divisor(freq, mck, boardmck) = {i}
  BY <1>6
<1> QED
  BY <1>2, <1>5, <1>7 DEF High, TC_DIV_FACTOR

-----------------------------------------------------------------------------
(* The inductive invariant.                                                *)

\* What may be left of a program: of tc_ticker_init, before and after TC_CMR is
\* written, of tc_ticker_stop, and of the others.
InitTails == {<<"EMR", "CLKDIS", "IDR", "SR", "CMR", "RC", "IER">>,
              <<"CLKDIS", "IDR", "SR", "CMR", "RC", "IER">>, <<"IDR", "SR", "CMR", "RC", "IER">>,
              <<"SR", "CMR", "RC", "IER">>, <<"CMR", "RC", "IER">>}
StopTails == {<<"ClearPending", "ClockOff", "CLKDIS">>, <<"ClockOff", "CLKDIS">>, <<"CLKDIS">>}

\* Those that do not enable the interrupt, and those that do.
Quiet   == StopTails \cup {<< >>, tc_ticker_stop, tc_ticker_kick,
                           <<"DisableIRQ", "RC">>, <<"RC">>, <<"DisableIRQ">>,
                           <<"RC", "IER">>, <<"IER">>}
Enabler == {tc_ticker_start, <<"ClearPending", "EnableIRQ", "ClockOn", "CLKEN">>,
            <<"EnableIRQ", "ClockOn", "CLKEN">>, <<"ClockOn", "CLKEN">>,
            <<"DisableIRQ", "RC", "EnableIRQ">>, <<"RC", "EnableIRQ">>, <<"EnableIRQ">>}

ProgramInv == program \in {tc_ticker_init} \cup InitTails \cup Quiet \cup Enabler

\* The counter does not run before TC_CMR has CPCTRG, which is written with the
\* channel's clock on.
BootInv ==
    /\ program \in InitTails => tc.clk
    /\ ~tc.trg => ~tc.clken /\ program \in {tc_ticker_init} \cup InitTails

\* The interrupt is off while tc_ticker_stop goes on, and as long as it is stopped.
StopInv ==
    /\ program \in StopTails => ~nvic.en
    /\ stopped => ~nvic.en /\ isr = "none" /\ program \in Quiet

TickerInv ==
    /\ TickerTypeOK
    /\ ProgramInv
    /\ BootInv
    /\ StopInv
    /\ TickOnTime

\* What an access leaves of the program it belongs to.
AccessFacts(a, p, q) ==
    /\ q \in InitTails \cup Quiet \cup Enabler
    /\ p = tc_ticker_init => a = "ClockOn" /\ q \in InitTails
    /\ p \in InitTails => a \in {"EMR", "CLKDIS", "IDR", "SR", "CMR"} /\ (q \in InitTails <=> a # "CMR")
    /\ q \in InitTails => p = tc_ticker_init \/ p \in InitTails
    /\ p \in Quiet => a # "EnableIRQ" /\ q \in Quiet
    /\ q \in StopTails => a # "EnableIRQ" /\ (a = "DisableIRQ" \/ p \in StopTails)
    /\ a = "CLKDIS" => p \in InitTails \/ (p \in StopTails /\ q = << >>)

LEMMA AccessLeaves ==
    ASSUME ProgramInv, NEW a, Access(a)
    PROVE  AccessFacts(a, program, program')
<1> USE DEF Access, AccessFacts, InitTails, StopTails, Quiet, Enabler,
            tc_ticker_init, tc_ticker_stop, tc_ticker_start, tc_ticker_kick
<1>1. CASE program = tc_ticker_init
  BY <1>1
<1>2. ASSUME program \in InitTails PROVE AccessFacts(a, program, program')
  <2>1. CASE program = <<"CLKDIS", "IDR", "SR", "CMR", "RC", "IER">>
    BY <2>1
  <2>2. CASE program = <<"IDR", "SR", "CMR", "RC", "IER">>
    BY <2>2
  <2>3. CASE program = <<"SR", "CMR", "RC", "IER">>
    BY <2>3
  <2>4. CASE program = <<"CMR", "RC", "IER">>
    BY <2>4
  <2>5. CASE program = <<"EMR", "CLKDIS", "IDR", "SR", "CMR", "RC", "IER">>
    BY <2>5
  <2> QED
    BY <1>2, <2>1, <2>2, <2>3, <2>4, <2>5
<1>3. ASSUME program \in Quiet PROVE AccessFacts(a, program, program')
  <2>1. CASE program = tc_ticker_stop
    BY <2>1
  <2>2. CASE program = <<"ClearPending", "ClockOff", "CLKDIS">>
    BY <2>2
  <2>3. CASE program = <<"ClockOff", "CLKDIS">>
    BY <2>3
  <2>4. CASE program = <<"CLKDIS">>
    BY <2>4
  <2>5. CASE program = tc_ticker_kick
    BY <2>5
  <2>6. CASE program = <<"DisableIRQ", "RC">>
    BY <2>6
  <2>7. CASE program = <<"RC">>
    BY <2>7
  <2>8. CASE program = <<"DisableIRQ">>
    BY <2>8
  <2>9. CASE program = <<"IER">>
    BY <2>9
  <2>10. CASE program = <<"RC", "IER">>
    BY <2>10
  <2>11. CASE program = << >>
    BY <2>11
  <2> QED
    BY <1>3, <2>1, <2>2, <2>3, <2>4, <2>5, <2>6, <2>7, <2>8, <2>9, <2>10, <2>11
<1>4. ASSUME program \in Enabler PROVE AccessFacts(a, program, program')
  <2>1. CASE program = tc_ticker_start
    BY <2>1
  <2>2. CASE program = <<"ClearPending", "EnableIRQ", "ClockOn", "CLKEN">>
    BY <2>2
  <2>3. CASE program = <<"EnableIRQ", "ClockOn", "CLKEN">>
    BY <2>3
  <2>4. CASE program = <<"ClockOn", "CLKEN">>
    BY <2>4
  <2>5. CASE program = <<"DisableIRQ", "RC", "EnableIRQ">>
    BY <2>5
  <2>6. CASE program = <<"RC", "EnableIRQ">>
    BY <2>6
  <2>7. CASE program = <<"EnableIRQ">>
    BY <2>7
  <2> QED
    BY <1>4, <2>1, <2>2, <2>3, <2>4, <2>5, <2>6, <2>7
<1> QED
  BY <1>1, <1>2, <1>3, <1>4 DEF ProgramInv

-----------------------------------------------------------------------------
(* The steps.                                                              *)

LEMMA InitKeeps == TickerInit => TickerInv
<1> SUFFICES ASSUME TickerInit PROVE TickerInv
  OBVIOUS
<1>1. TickerTypeOK
  <2>1. tc \in [clk : BOOLEAN, clken : BOOLEAN, cv : 0 .. CounterMax, rc : 0 .. CounterMax,
               sr : BOOLEAN, imr : BOOLEAN, trg : BOOLEAN]
    <3>1. 0 \in 0 .. CounterMax
      OBVIOUS
    <3> HIDE TickerAssumption
    <3> QED
      BY <3>1 DEF TickerInit
  <2>2. gated \in BOOLEAN
    BY DEF TickerInit
  <2> QED
    BY <2>1, <2>2 DEF TickerInit, TickerTypeOK
<1>2. program = tc_ticker_init /\ program \notin InitTails /\ program \notin StopTails
  BY DEF TickerInit, tc_ticker_init, InitTails, StopTails
<1>3. ProgramInv /\ BootInv /\ StopInv
  BY <1>2 DEF TickerInit, ProgramInv, BootInv, StopInv
<1>4. TickOnTime
  BY DEF TickerInit, TickOnTime, Round
<1> QED
  BY <1>1, <1>3, <1>4 DEF TickerInv

LEMMA CallKeeps ==
    ASSUME TickerInv, NEW c \in Calls, Call(c)
    PROVE  TickerInv'
<1>1. TickerTypeOK' /\ TickOnTime'
  <2>1. period' \in Periods
    BY DEF TickerInv, TickerTypeOK, Call, tc_ticker_update_period
  <2> QED
    BY <2>1 DEF TickerInv, TickerTypeOK, TickOnTime, Round, Call
<1>2. /\ program' \in Quiet \cup Enabler
      /\ program' \notin InitTails /\ program' \notin StopTails
      /\ ~nvic.en /\ c \notin {"start", "enable"} => program' \in Quiet
  <2> USE DEF Quiet, Enabler, InitTails, StopTails, Call
  <2>1. CASE c = "stop"
    BY <2>1 DEF tc_ticker_stop
  <2>2. CASE c = "start"
    BY <2>2 DEF tc_ticker_start
  <2>3. CASE c = "kick"
    BY <2>3 DEF tc_ticker_kick
  <2>4. CASE c = "update"
    <3>1. \/ program' = << >>
          \/ program' = <<"DisableIRQ", "RC", "EnableIRQ">> /\ nvic.en
          \/ program' = <<"DisableIRQ", "RC">>
      BY <2>4 DEF tc_ticker_update_period
    <3>2. CASE program' = << >>
      BY <3>2
    <3>3. CASE program' = <<"DisableIRQ", "RC", "EnableIRQ">> /\ nvic.en
      BY <3>3
    <3>4. CASE program' = <<"DisableIRQ", "RC">>
      BY <3>4
    <3> QED
      BY <3>1, <3>2, <3>3, <3>4
  <2>5. CASE c = "disable"
    BY <2>5
  <2>6. CASE c = "enable"
    BY <2>6
  <2> QED
    BY <2>1, <2>2, <2>3, <2>4, <2>5, <2>6, TickerAssumption
<1>3. program \notin {tc_ticker_init} \cup InitTails
  BY DEF Call, tc_ticker_init, InitTails
<1> QED
  BY <1>1, <1>2, <1>3 DEF TickerInv, ProgramInv, BootInv, StopInv, Call

LEMMA NvicKeeps ==
    ASSUME TickerInv, NvicAccess
    PROVE  TickerInv'
<1>1. PICK a \in {"DisableIRQ", "EnableIRQ", "ClearPending"} : Access(a)
  BY DEF NvicAccess
<1>2. AccessFacts(a, program, program')
  BY <1>1, AccessLeaves DEF TickerInv
<1>3. TickerTypeOK' /\ TickOnTime'
  BY DEF TickerInv, TickerTypeOK, TickOnTime, Round, NvicAccess, Access
<1>4. ProgramInv' /\ BootInv'
  BY <1>1, <1>2 DEF TickerInv, ProgramInv, BootInv, AccessFacts, NvicAccess, Access
<1>5. StopInv'
  <2>1. CASE Access("EnableIRQ")
    <3>1. AccessFacts("EnableIRQ", program, program')
      BY <2>1, AccessLeaves DEF TickerInv
    <3> QED
      BY <2>1, <3>1 DEF TickerInv, StopInv, AccessFacts, NvicAccess, Access
  <2>2. CASE ~Access("EnableIRQ")
    BY <1>1, <1>2, <2>2
       DEF TickerInv, TickerTypeOK, StopInv, AccessFacts, NvicAccess, Access
  <2> QED
    BY <2>1, <2>2
<1> QED
  BY <1>3, <1>4, <1>5 DEF TickerInv

LEMMA ClockKeeps ==
    ASSUME TickerInv, ClockAccess
    PROVE  TickerInv'
<1>1. TickerTypeOK' /\ TickOnTime'
  BY DEF TickerInv, TickerTypeOK, TickOnTime, Round, ClockAccess, Access
<1>2. CASE Access("ClockOn") /\ tc' = [tc EXCEPT !.clk = TRUE]
  <2>1. AccessFacts("ClockOn", program, program')
    BY <1>2, AccessLeaves DEF TickerInv
  <2> QED
    BY <1>1, <1>2, <2>1 DEF TickerInv, TickerTypeOK, ProgramInv, BootInv, StopInv,
                            AccessFacts, ClockAccess, Access
<1>3. CASE Access("ClockOff") /\ tc' = [tc EXCEPT !.clk = FALSE]
  <2>1. AccessFacts("ClockOff", program, program')
    BY <1>3, AccessLeaves DEF TickerInv
  <2> QED
    BY <1>1, <1>3, <2>1 DEF TickerInv, TickerTypeOK, ProgramInv, BootInv, StopInv,
                            AccessFacts, ClockAccess, Access
<1> QED
  BY <1>2, <1>3 DEF ClockAccess

\* An access to the channel that keeps its clock, and does not start the counter
\* before TC_CMR is written or take CPCTRG from it afterwards.
LEMMA TcKeeps ==
    ASSUME TickerInv,
           NEW a \in {"CLKEN", "RC", "EMR", "IDR", "SR", "CMR", "IER"}, NEW new,
           TcAccess(a, new),
           new.clk = tc.clk,
           a = "CLKEN" => new.clken,
           a # "CLKEN" => new.clken = tc.clken,
           new.trg = (tc.trg \/ a = "CMR"),
           stopped' = stopped
    PROVE  ProgramInv' /\ BootInv' /\ StopInv'
<1>1. Access(a) /\ AccessFacts(a, program, program')
  BY AccessLeaves DEF TickerInv, TcAccess
<1>2. ProgramInv' /\ StopInv'
  BY <1>1 DEF TickerInv, TickerTypeOK, ProgramInv, StopInv, AccessFacts, TcAccess, Access
<1>3. BootInv'
  <2>1. program \in InitTails => Answers
    BY DEF TickerInv, BootInv, Answers
  <2>2. tc'.clk = tc.clk
    BY DEF TcAccess
  <2>3. program' \in InitTails => tc'.clk
    BY <1>1, <2>2 DEF TickerInv, BootInv, AccessFacts
  <2>4. ASSUME ~tc'.trg PROVE ~tc'.clken /\ program' \in {tc_ticker_init} \cup InitTails
    <3>1. ~tc.trg
      BY <2>4 DEF TcAccess
    <3>2. program \in InitTails /\ ~tc.clken
      BY <1>1, <3>1 DEF TickerInv, BootInv, AccessFacts
    <3>3. tc' = new /\ a # "CMR" /\ a # "CLKEN"
      BY <1>1, <2>1, <2>4, <3>2 DEF TcAccess, AccessFacts
    <3> QED
      BY <1>1, <3>2, <3>3 DEF AccessFacts
  <2> QED
    BY <2>3, <2>4 DEF BootInv
<1> QED
  BY <1>2, <1>3

LEMMA StartKeeps ==
    ASSUME TickerInv, tc_start
    PROVE  TickerInv'
<1>1. tc.clken \in BOOLEAN /\ tc = [tc EXCEPT !.clk = tc.clk]
  BY DEF TickerInv, TickerTypeOK
<1>2. ProgramInv' /\ BootInv' /\ StopInv'
  BY <1>1, TcKeeps DEF TickerInv, TickerTypeOK, tc_start
<1>3. 0 \in 0 .. CounterMax
  OBVIOUS
<1>4. TickerTypeOK'
  BY <1>3 DEF TickerInv, TickerTypeOK, tc_start, TcAccess, Access
<1>5. TickOnTime'
  <2>1. CASE Answers
    <3>1. tc'.cv = 0 /\ tc'.rc = tc.rc /\ since' = 0 /\ tc.rc \in 0 .. CounterMax
      BY <2>1 DEF TickerInv, TickerTypeOK, tc_start, TcAccess
    <3> QED
      BY <3>1 DEF TickOnTime, Round
  <2>2. CASE ~Answers
    BY <2>2 DEF TickerInv, TickerTypeOK, TickOnTime, Round, tc_start, TcAccess
  <2> QED
    BY <2>1, <2>2
<1> QED
  BY <1>2, <1>4, <1>5 DEF TickerInv

LEMMA WriteRcKeeps ==
    ASSUME TickerInv, tc_write_rc
    PROVE  TickerInv'
<1> DEFINE count == tc_ticker_get_max_count_for_period(period)
<1>1. count \in 0 .. CounterMax
  BY PeriodCount DEF TickerInv, TickerTypeOK
<1>2. /\ TcAccess("RC", [tc EXCEPT !.rc = count])
      /\ late' = (late \/ (Answers /\ 0 < count /\ count <= tc.cv))
      /\ since' = since /\ stopped' = stopped
  BY DEF tc_write_rc
<1> HIDE DEF count
<1>3. ProgramInv' /\ BootInv' /\ StopInv'
  BY <1>2, TcKeeps DEF TickerInv, TickerTypeOK
<1>4. TickerTypeOK'
  BY <1>1, <1>2 DEF TickerInv, TickerTypeOK, TcAccess, Access
<1>5. TickOnTime'
  <2>1. CASE Answers
    <3>1. tc'.cv = tc.cv /\ tc'.rc = count /\ tc.cv \in 0 .. CounterMax
      BY <1>2, <2>1 DEF TickerInv, TickerTypeOK, TcAccess
    <3>2. ~late' => ~late /\ ~(0 < count /\ count <= tc.cv)
      BY <1>2, <2>1
    <3> QED
      BY <1>1, <1>2, <3>1, <3>2 DEF TickerInv, TickOnTime, Round
  <2>2. CASE ~Answers
    BY <1>2, <2>2 DEF TickerInv, TickerTypeOK, TickOnTime, Round, TcAccess
  <2> QED
    BY <2>1, <2>2
<1> QED
  BY <1>3, <1>4, <1>5 DEF TickerInv

LEMMA ConfigureKeeps ==
    ASSUME TickerInv, TcConfigure
    PROVE  TickerInv'
<1> USE DEF TickerInv, TickerTypeOK
<1>1. /\ tc' \in [clk : BOOLEAN, clken : BOOLEAN, cv : 0 .. CounterMax,
                 rc : 0 .. CounterMax, sr : BOOLEAN, imr : BOOLEAN, trg : BOOLEAN]
      /\ tc'.cv = tc.cv /\ tc'.rc = tc.rc
      /\ ProgramInv' /\ BootInv' /\ StopInv'
  <2>1. CASE TcAccess("IDR", [tc EXCEPT !.imr = FALSE])
    BY <2>1, TcKeeps DEF TcConfigure, TcAccess
  <2>2. CASE TcAccess("SR", [tc EXCEPT !.sr = FALSE])
    BY <2>2, TcKeeps DEF TcConfigure, TcAccess
  <2>3. CASE TcAccess("CMR", [tc EXCEPT !.trg = TRUE])
    BY <2>3, TcKeeps DEF TcConfigure, TcAccess
  <2>4. CASE TcAccess("IER", [tc EXCEPT !.imr = TRUE])
    BY <2>4, TcKeeps DEF TcConfigure, TcAccess
  <2>5. CASE TcAccess("EMR", tc)
    BY <2>5, TcKeeps DEF TcConfigure, TcAccess
  <2> QED
    BY <2>1, <2>2, <2>3, <2>4, <2>5 DEF TcConfigure
<1>2. /\ period' = period /\ isr' = isr /\ gated' = gated
      /\ since' = since /\ late' = late /\ stopped' = stopped
  BY DEF TcConfigure, TcAccess, Access
<1>3. nvic' \in [en : BOOLEAN, pend : BOOLEAN]
  <2>1. nvic' = [nvic EXCEPT !.pend = @ \/ (tc'.sr /\ tc'.imr)]
    BY DEF TcConfigure, TcAccess
  <2> QED
    BY <2>1
<1>4. TickerTypeOK'
  BY <1>1, <1>2, <1>3
<1>5. TickOnTime'
  BY <1>1, <1>2 DEF TickOnTime, Round
<1> QED
  BY <1>1, <1>4, <1>5

LEMMA StopKeeps ==
    ASSUME TickerInv, tc_stop
    PROVE  TickerInv'
<1>1. /\ TcAccess("CLKDIS", [tc EXCEPT !.clken = FALSE]) /\ Access("CLKDIS")
      /\ AccessFacts("CLKDIS", program, program')
  BY AccessLeaves DEF TickerInv, tc_stop, TcAccess
<1>2. TickerTypeOK' /\ TickOnTime'
  BY <1>1 DEF TickerInv, TickerTypeOK, TickOnTime, Round, tc_stop, TcAccess, Access
<1>3. ProgramInv' /\ nvic'.en = nvic.en /\ tc'.clk = tc.clk /\ tc'.trg = tc.trg
  BY <1>1 DEF TickerInv, TickerTypeOK, ProgramInv, AccessFacts, TcAccess
<1>4. BootInv'
  BY <1>1, <1>3 DEF TickerInv, TickerTypeOK, BootInv, AccessFacts, TcAccess
<1>5. isr = "none" /\ isr' = isr /\ stopped' = (stopped \/ ~tc.clk)
  BY <1>1 DEF Access, Interrupted, tc_stop
<1>6. << >> \in Quiet
  BY DEF Quiet
<1>7. ~tc.clk => program \in StopTails /\ program' = << >>
  BY <1>1 DEF TickerInv, BootInv, AccessFacts
<1>8. StopInv'
  BY <1>1, <1>3, <1>5, <1>6, <1>7 DEF TickerInv, StopInv, AccessFacts
<1> QED
  BY <1>2, <1>3, <1>4, <1>8 DEF TickerInv

LEMMA HandlerKeeps ==
    ASSUME TickerInv, TC0_Handler
    PROVE  TickerInv'
<1>1. TickerTypeOK' /\ TickOnTime'
  BY DEF TickerInv, TickerTypeOK, TickOnTime, Round, TC0_Handler, IsrEnter,
         tc_ticker_clear_irq_flags, IsrReturn, IsrRest
<1>2. /\ tc'.clk = tc.clk /\ tc'.clken = tc.clken /\ tc'.trg = tc.trg
      /\ nvic'.en = nvic.en /\ program' = program /\ stopped' = stopped
      /\ isr # "none" \/ nvic.en
  BY DEF TickerInv, TickerTypeOK, TC0_Handler, IsrEnter,
         tc_ticker_clear_irq_flags, IsrReturn, IsrRest
<1> QED
  BY <1>1, <1>2 DEF TickerInv, ProgramInv, BootInv, StopInv

LEMMA CountKeeps ==
    ASSUME TickerInv, HwCount
    PROVE  TickerInv'
<1> DEFINE match == Next16 = tc.rc
<1>1. /\ tc.clken /\ tc.trg
      /\ tc' = [tc EXCEPT !.cv = IF match /\ tc.trg THEN 0 ELSE Next16, !.sr = @ \/ match]
      /\ since' = IF match THEN 0
                  ELSE IF since > CounterMax + tc.rc THEN since ELSE since + 1
      /\ late' = (late /\ ~match)
  BY DEF TickerInv, BootInv, HwCount
<1>2. tc.cv \in 0 .. CounterMax /\ tc.rc \in 0 .. CounterMax /\ since \in Nat
  BY DEF TickerInv, TickerTypeOK
<1>3. Next16 \in 0 .. CounterMax
  BY <1>2 DEF Next16
<1>4. /\ tc'.cv = IF match THEN 0 ELSE Next16
      /\ tc'.rc = tc.rc /\ tc'.clk = tc.clk /\ tc'.clken = tc.clken /\ tc'.trg = tc.trg
      /\ nvic'.en = nvic.en
  BY <1>1 DEF TickerInv, TickerTypeOK, HwCount
<1>5. since' \in Nat
  BY <1>1, <1>2
<1>6. TickerTypeOK'
  <2>1. 0 \in 0 .. CounterMax
    OBVIOUS
  <2>2. tc' \in [clk : BOOLEAN, clken : BOOLEAN, cv : 0 .. CounterMax, rc : 0 .. CounterMax,
                sr : BOOLEAN, imr : BOOLEAN, trg : BOOLEAN]
    BY <1>1, <1>3, <2>1 DEF TickerInv, TickerTypeOK
  <2>3. nvic' \in [en : BOOLEAN, pend : BOOLEAN] /\ late' \in BOOLEAN
    BY <1>1 DEF TickerInv, TickerTypeOK, HwCount
  <2> QED
    BY <1>5, <2>2, <2>3 DEF TickerInv, TickerTypeOK, HwCount
<1>7. TickOnTime'
  <2>1. CASE match
    <3>1. tc'.cv = 0 /\ since' = 0
      <4> HIDE DEF match
      <4> QED
        BY <1>1, <1>4, <2>1
    <3> QED
      BY <1>2, <1>4, <3>1 DEF TickOnTime, Round
  <2>2. CASE ~match /\ ~late
    <3>1. since = tc.cv /\ since < Round
      BY <2>2 DEF TickerInv, TickOnTime
    <3>2. tc'.cv = Next16 /\ since' = since + 1
      BY <1>1, <1>2, <1>4, <2>2, <3>1
    <3>3. Next16 # tc.rc
      BY <2>2
    <3>4. Next16 = tc.cv + 1 /\ tc.cv + 1 < Round
      <4> HIDE DEF match
      <4> QED
        BY <1>2, <3>1, <3>3 DEF Next16, Round
    <3> QED
      BY <1>4, <3>1, <3>2, <3>4 DEF TickOnTime, Round
  <2>3. CASE late /\ ~match
    BY <1>1, <2>3 DEF TickOnTime
  <2> QED
    BY <2>1, <2>2, <2>3
<1>8. ProgramInv' /\ BootInv' /\ StopInv'
  BY <1>4 DEF TickerInv, ProgramInv, BootInv, StopInv, HwCount
<1> QED
  BY <1>6, <1>7, <1>8 DEF TickerInv

-----------------------------------------------------------------------------
(* The theorems.                                                           *)

LEMMA TickerInvariant == TickerSpec => []TickerInv
<1>1. TickerInv /\ [TickerNext]_tickerVars => TickerInv'
  <2> SUFFICES ASSUME TickerInv, [TickerNext]_tickerVars PROVE TickerInv'
    OBVIOUS
  <2>1. ASSUME NEW c \in Calls, Call(c) PROVE TickerInv'
    BY <2>1, CallKeeps
  <2>2. CASE Thread
    BY <2>2, NvicKeeps, ClockKeeps, StartKeeps, StopKeeps, WriteRcKeeps, ConfigureKeeps
       DEF Thread
  <2>3. CASE TC0_Handler
    BY <2>3, HandlerKeeps
  <2>4. CASE HwCount
    BY <2>4, CountKeeps
  <2>5. CASE UNCHANGED tickerVars
    BY <2>5 DEF TickerInv, TickerTypeOK, ProgramInv, BootInv, StopInv, TickOnTime, Round,
                tickerVars
  <2> QED
    BY <2>1, <2>2, <2>3, <2>4, <2>5 DEF TickerNext
<1> QED
  BY <1>1, InitKeeps, PTL DEF TickerSpec

\* The ticker's state has its type: whatever the period, RC fits the counter.
THEOREM TickerTypeCorrect == TickerSpec => []TickerTypeOK
<1>1. TickerInv => TickerTypeOK
  BY DEF TickerInv
<1> QED
  BY <1>1, TickerInvariant, PTL

\* tc_ticker_stop silences the tick until tc_ticker_start or
\* tc_ticker_enable_irq: the interrupt is off at every access that is left.
THEOREM StoppedQuiet == TickerSpec => []StoppedIsQuiet
<1>1. TickerInv => StoppedIsQuiet
  BY DEF TickerInv, StopInv, StoppedIsQuiet
<1> QED
  BY <1>1, TickerInvariant, PTL

\* The counter restarts at every match (tc_init sets CPCTRG before anything can
\* start it), so the next match is never further than RC counts away unless RC
\* was moved behind the counter.
THEOREM TickTimely == TickerSpec => []TickOnTime
<1>1. TickerInv => TickOnTime
  BY DEF TickerInv
<1> QED
  BY <1>1, TickerInvariant, PTL

=============================================================================
