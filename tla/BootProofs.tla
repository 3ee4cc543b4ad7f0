------------------------------ MODULE BootProofs ------------------------------
(***************************************************************************)
(* Proofs about Boot.tla: the safety properties of the start-up, for every *)
(* legal setting of conf_clock.h and every set of working external clocks. *)
(***************************************************************************)
EXTENDS Boot, TLAPS

-----------------------------------------------------------------------------
(* The invariant.                                                          *)

SlowXtal == {"SLCK_XTAL", "SLCK_BYPASS"}
Slow     == {"SLCK_RC"} \cup SlowXtal
Fast     == {"plla", "upll"}

\* The clock the configuration switches the master clock to, the frequency of the
\* RC oscillator and the selection of the main clock it needs.
Css(c) == CASE c.source = "PLLACK" -> "plla"
            [] c.source = "UPLLCK" -> "upll"
            [] c.source \in Slow   -> "slow"
            [] OTHER               -> "main"

Rcf(id) == CASE id = "MAINCK_8M_RC" -> 8 [] id = "MAINCK_12M_RC" -> 12 [] OTHER -> 4
Sel(id) == IF id \in {"MAINCK_XTAL", "MAINCK_BYPASS"} THEN "xtal" ELSE "rc"

Switched == config.source # "MAINCK_4M_RC"

\* The oscillators: what osc_enable (function 2) asks for and osc_wait_ready (3)
\* waits for stays.
OscInv ==
    /\ slck.now = "xtal" => slck.sel = "xtal"
    /\ slck.sel = "xtal" => config.source \in SlowXtal
    /\ mainck = "xtal" => mor.sel = "xtal"
    /\ mor.sel = "xtal" => Sel(Oscillator(config)) = "xtal"
    /\ mor.rcf \in {4, Rcf(Oscillator(config))}
    /\ fn > 2 \/ acc > 2 => mor.rcf = Rcf(Oscillator(config))
    /\ fn > 2 => /\ mor.sel = Sel(Oscillator(config))
                 /\ config.source \in SlowXtal => slck.sel = "xtal"
    /\ fn > 3 => mainck = mor.sel /\ slck.now = slck.sel

\* The PLLs: pll_enable (4), pll_wait_for_lock (5).
PllInv ==
    /\ fn > 4 /\ config.source = "PLLACK" => plla.mul = config.mul /\ plla.div = config.pdiv
    /\ fn > 5 /\ config.source = "PLLACK" => plla.lock
    /\ fn > 5 /\ config.source = "UPLLCK" => upll.lock

\* A setting the switch goes through: a fast clock only with its final prescaler
\* and division.
Passing(m) ==
    /\ m.css \in {"main", Css(config)}
    /\ m.pres \in {1, config.pres}
    /\ m.mdiv \in {1, config.div}
    /\ m.css \in Fast => m.pres = config.pres /\ m.mdiv = config.div

\* The master clock: pmc_mck_set_division (6), pmc_switch_mck_to_* (7).
MasterInv ==
    /\ Passing(mckr) /\ Passing(mck)
    /\ fn <= 6 => mckr.css = "main" /\ mck.css = "main"
    /\ ~Switched => mckr = Reset.mckr /\ mck = Reset.mckr
    /\ Switched /\ (fn > 6 \/ (fn = 6 /\ acc > 1)) => mckr.mdiv = config.div
    /\ fn = 7 /\ acc > 1 =>
         IF Css(config) \in Fast THEN mckr.pres = config.pres ELSE mckr.css = Css(config)
    /\ fn = 7 /\ acc > 3 => mckr.pres = config.pres /\ mckr.css = Css(config)
    /\ Switched /\ fn > 7 /\ ~gaveUp =>
         mck = mckr /\ mckr.pres = config.pres /\ mckr.css = Css(config)

FinalHz(c) == sysclk_get_cpu_hz(c) \div c.div

\* What system_init leaves behind: wait states (1 and 9), SystemCoreClock (8), the
\* watchdog (10), the console's divider (11), the CAN core's clock (14).
ResultInv ==
    /\ fn > 1 /\ fn <= 9 => fws = 6
    /\ fn > 9 => FinalHz(config) < FlashLimit(fws) \/ fws = 6
    /\ fn > 8 /\ config.source # "UPLLCK" => SystemCoreClock = CoreClock
    /\ ~wdt => fn > 10
    /\ IF fn > 11
         THEN brgr = usart_set_async_baudrate(CONF_UART_BAUDRATE, sysclk_get_peripheral_hz(config))
         ELSE brgr.cd = 0
    /\ pck5 => fn > 14

IInv == BootTypeOK /\ OscInv /\ PllInv /\ MasterInv /\ ResultInv

-----------------------------------------------------------------------------
(* The functions of system_init, access by access.                         *)

LEMMA Stages ==
    /\ fn = 1 => Accesses = FlashBefore
    /\ fn = 2 => Accesses = IfSwitched(config, osc_enable(Oscillator(config)))
    /\ fn = 3 => Accesses = IfSwitched(config, osc_wait_ready(Oscillator(config)))
    /\ fn = 4 => Accesses = IfPll(config, pll_enable(config, 0), pll_enable(config, 1))
    /\ fn = 5 => Accesses = IfPll(config, pll_wait_for_lock(0), pll_wait_for_lock(1))
    /\ fn = 6 => Accesses = IfSwitched(config, pmc_mck_set_division(config.div))
    /\ fn = 7 => Accesses = IfSwitched(config, SwitchMck(config))
    /\ fn = 8 => Accesses = SystemCoreClockUpdate
    /\ fn = 9 => Accesses = system_init_flash(FinalHz(config))
    /\ fn = 10 => Accesses = board_init
    /\ fn = 11 => Accesses = configure_console(config)
    /\ fn = 12 => Accesses = pmc_disable_pck
    /\ fn = 13 => Accesses = pmc_switch_pck_to_pllack
    /\ fn = 14 => Accesses = pmc_enable_pck
    /\ fn = 15 => Accesses = display_commands_menu
  BY DEF Accesses, system_init, FinalHz

\* The access that comes next is the a-th of the n of its function.
Is(a, n, access) == acc = a /\ Len(Accesses) = n /\ Next1 = access /\ Accesses # << >>

LEMMA AccBounds ==
    ASSUME BootTypeOK
    PROVE  acc \in Nat \ {0} /\ (acc > 1 => acc <= Len(Accesses))
  BY DEF BootTypeOK

LEMMA OneAccess ==
    ASSUME BootTypeOK, NEW v, Accesses = <<v>>
    PROVE  Is(1, 1, v)
  BY AccBounds DEF Is, Next1

LEMMA TwoAccesses ==
    ASSUME BootTypeOK, NEW v, NEW w, Accesses = <<v, w>>
    PROVE  Is(1, 2, v) \/ Is(2, 2, w)
  BY AccBounds DEF Is, Next1

LEMMA ThreeAccesses ==
    ASSUME BootTypeOK, NEW v, NEW w, NEW x, Accesses = <<v, w, x>>
    PROVE  Is(1, 3, v) \/ Is(2, 3, w) \/ Is(3, 3, x)
  BY AccBounds DEF Is, Next1

LEMMA FourAccesses ==
    ASSUME BootTypeOK, NEW v, NEW w, NEW x, NEW y, Accesses = <<v, w, x, y>>
    PROVE  Is(1, 4, v) \/ Is(2, 4, w) \/ Is(3, 4, x) \/ Is(4, 4, y)
  BY AccBounds DEF Is, Next1

\* The functions of one access that every configuration runs.
LEMMA Singles ==
    ASSUME BootTypeOK
    PROVE  /\ fn = 1 => Is(1, 1, Write("FWS", 6))
           /\ fn = 8 => Is(1, 1, Write("CORE", 0))
           /\ fn = 9 => Is(1, 1, system_init_flash(FinalHz(config))[1])
           /\ fn = 10 => Is(1, 1, Write("WDT", FALSE))
           /\ fn = 11 => Is(1, 1, Write("USART", usart_set_async_baudrate(CONF_UART_BAUDRATE,
                                                     sysclk_get_peripheral_hz(config))))
           /\ fn = 12 => Is(1, 1, Write("PCK5", FALSE))
           /\ fn = 13 => Is(1, 1, Poll("PCKRDY5"))
           /\ fn = 14 => Is(1, 1, Write("PCK5", TRUE))
           /\ fn = 15 => Is(1, 1, Wait("TXRDY"))
<1>1. FlashBefore = << Write("FWS", 6) >>
  <2>1. ~(CHIP_FREQ_CPU_MAX \div 2 < FlashLimit(5))
    BY SMT DEF CHIP_FREQ_CPU_MAX, FlashLimit, MHz
  <2> QED
    BY <2>1 DEF FlashBefore, system_init_flash
<1>2. system_init_flash(FinalHz(config)) = << system_init_flash(FinalHz(config))[1] >>
  BY DEF system_init_flash
<1> QED
  BY <1>1, <1>2, Stages, OneAccess
  DEF SystemCoreClockUpdate, board_init, configure_console, pmc_disable_pck,
      pmc_switch_pck_to_pllack, pmc_enable_pck, display_commands_menu

\* The oscillator of a configuration.
Rc == {"MAINCK_4M_RC", "MAINCK_8M_RC", "MAINCK_12M_RC"}

LEMMA Configured ==
    ASSUME BootTypeOK
    PROVE  config \in Config /\ Legal(config) /\ Oscillator(config) \in Sources \ {"PLLACK", "UPLLCK"}
  BY BootAssumption DEF BootTypeOK, Config, PllSources, Sources, Oscillator

\* osc_enable: the slow clock's selection; the frequency and the selection of
\* the RC oscillator; the crystal, or its bypass.
LEMMA Enabling ==
    ASSUME BootTypeOK, fn = 2
    PROVE  LET id == Oscillator(config) IN
           \/ id \in {"SLCK_RC", "MAINCK_4M_RC"} /\ Accesses = << >>
           \/ id \in SlowXtal /\ Is(1, 1, Write("SUPC", "xtal"))
           \/ /\ id \in Rc
              /\ \/ Is(1, 4, Wait("MOSCRCS")) \/ Is(2, 4, Write("MOR.RCF", Rcf(id)))
                 \/ Is(3, 4, Wait("MOSCRCS")) \/ Is(4, 4, Write("MOR.SEL", "rc"))
           \/ /\ id = "MAINCK_XTAL"
              /\ \/ Is(1, 3, Write("MOR.XT", "on")) \/ Is(2, 3, Wait("MOSCXTS"))
                 \/ Is(3, 3, Write("MOR.SEL", "xtal"))
           \/ id = "MAINCK_BYPASS" /\ Is(1, 1, Write("MOR.XT_SEL", "bypass"))
<1> DEFINE id == Oscillator(config)
<1>1. CASE config.source = "MAINCK_4M_RC"
  BY <1>1, Stages DEF IfSwitched, Oscillator
<1>2. ASSUME config.source # "MAINCK_4M_RC" PROVE Accesses = osc_enable(id)
  BY <1>2, Stages DEF IfSwitched
<1>3. CASE config.source # "MAINCK_4M_RC" /\ id = "SLCK_RC"
  BY <1>2, <1>3 DEF osc_enable
<1>4. CASE config.source # "MAINCK_4M_RC" /\ id \in SlowXtal
  BY <1>2, <1>4, OneAccess DEF osc_enable, SlowXtal, pmc_switch_sclk_to_32kxtal
<1>5. CASE config.source # "MAINCK_4M_RC" /\ id \in Rc
  <2>1. Accesses = << Wait("MOSCRCS"), Write("MOR.RCF", Rcf(id)), Wait("MOSCRCS"),
                      Write("MOR.SEL", "rc") >>
    BY <1>2, <1>5 DEF osc_enable, Rc, Rcf, pmc_switch_mainck_to_fastrc
  <2> QED
    BY <1>5, <2>1, FourAccesses
<1>6. CASE config.source # "MAINCK_4M_RC" /\ id = "MAINCK_XTAL"
  BY <1>2, <1>6, ThreeAccesses DEF osc_enable, pmc_switch_mainck_to_xtal
<1>7. CASE config.source # "MAINCK_4M_RC" /\ id = "MAINCK_BYPASS"
  BY <1>2, <1>7, OneAccess DEF osc_enable, pmc_switch_mainck_to_xtal
<1>8. id \in {"SLCK_RC", "MAINCK_XTAL", "MAINCK_BYPASS"} \cup SlowXtal \cup Rc
  BY Configured DEF Sources, SlowXtal, Rc
<1> QED
  BY <1>1, <1>3, <1>4, <1>5, <1>6, <1>7, <1>8

\* osc_wait_ready.
LEMMA AwaitingOscillator ==
    ASSUME BootTypeOK, fn = 3
    PROVE  LET id == Oscillator(config) IN
           \/ id \in {"SLCK_RC", "MAINCK_4M_RC"} /\ Accesses = << >>
           \/ id \in SlowXtal /\ Is(1, 1, Wait("OSCSEL"))
           \/ id \notin Slow /\ Is(1, 1, Wait("MOSCSELS"))
<1> DEFINE id == Oscillator(config)
<1>1. CASE config.source = "MAINCK_4M_RC"
  BY <1>1, Stages DEF IfSwitched, Oscillator
<1>2. ASSUME config.source # "MAINCK_4M_RC" PROVE Accesses = osc_wait_ready(id)
  BY <1>2, Stages DEF IfSwitched
<1>3. CASE config.source # "MAINCK_4M_RC" /\ id = "SLCK_RC"
  BY <1>2, <1>3 DEF osc_wait_ready
<1>4. CASE config.source # "MAINCK_4M_RC" /\ id \in SlowXtal
  BY <1>2, <1>4, OneAccess DEF osc_wait_ready, SlowXtal
<1>5. CASE config.source # "MAINCK_4M_RC" /\ id \notin Slow
  BY <1>2, <1>5, OneAccess DEF osc_wait_ready, Slow, SlowXtal
<1> QED
  BY <1>1, <1>3, <1>4, <1>5 DEF Slow

\* pll_enable and pll_wait_for_lock, with the PLL of the configuration.
LEMMA EnablingPll ==
    ASSUME BootTypeOK, fn = 4
    PROVE  \/ config.source \notin {"PLLACK", "UPLLCK"} /\ Accesses = << >>
           \/ /\ config.source = "PLLACK"
              /\ \/ Is(1, 2, Write("PLLA", [on |-> FALSE, mul |-> 1, div |-> 1]))
                 \/ Is(2, 2, Write("PLLA", [on |-> TRUE, mul |-> config.mul,
                                            div |-> config.pdiv]))
           \/ config.source = "UPLLCK" /\ Is(1, 1, Write("UPLL", TRUE))
<1>1. CASE config.source = "PLLACK"
  <2>1. Accesses = << Write("PLLA", [on |-> FALSE, mul |-> 1, div |-> 1]),
                      Write("PLLA", [on |-> TRUE, mul |-> config.mul, div |-> config.pdiv]) >>
    BY <1>1, Stages DEF IfPll, pll_enable
  <2>2. \/ Is(1, 2, Write("PLLA", [on |-> FALSE, mul |-> 1, div |-> 1]))
        \/ Is(2, 2, Write("PLLA", [on |-> TRUE, mul |-> config.mul, div |-> config.pdiv]))
    BY <2>1, TwoAccesses, Zenon
  <2> QED
    BY <1>1, <2>2, Zenon
<1>2. CASE config.source = "UPLLCK"
  <2>1. Accesses = << Write("UPLL", TRUE) >>
    <3>1. Accesses = pll_enable(config, 1)
      BY <1>2, Stages DEF IfPll
    <3>2. 1 # 0
      OBVIOUS
    <3> QED
      BY <3>1, <3>2, Zenon DEF pll_enable
  <2> QED
    BY <1>2, <2>1, OneAccess, Zenon
<1>3. CASE config.source \notin {"PLLACK", "UPLLCK"}
  BY <1>3, Stages DEF IfPll
<1> QED
  BY <1>1, <1>2, <1>3

LEMMA AwaitingLock ==
    ASSUME BootTypeOK, fn = 5
    PROVE  \/ config.source \notin {"PLLACK", "UPLLCK"} /\ Accesses = << >>
           \/ config.source = "PLLACK" /\ Is(1, 1, Wait("LOCKA"))
           \/ config.source = "UPLLCK" /\ Is(1, 1, Wait("LOCKU"))
  BY Stages, OneAccess DEF IfPll, pll_wait_for_lock

\* pmc_mck_set_division; a configuration's division is a valid one.
LEMMA Dividing ==
    ASSUME BootTypeOK, fn = 6
    PROVE  \/ ~Switched /\ Accesses = << >>
           \/ /\ Switched
              /\ Is(1, 2, Write("MCKR.MDIV", config.div)) \/ Is(2, 2, Wait("MCKRDY"))
<1>1. config.div \in 1 .. 4
  BY Configured DEF Config
<1> QED
  BY <1>1, Stages, TwoAccesses DEF IfSwitched, Switched, pmc_mck_set_division

\* pmc_switch_mck_to_*: to a slow or main clock the source first, to a PLL the
\* prescaler.
LEMMA Switching ==
    ASSUME BootTypeOK, fn = 7
    PROVE  LET css == Write("MCKR.CSS", Css(config))  pres == Write("MCKR.PRES", config.pres) IN
           \/ ~Switched /\ Accesses = << >>
           \/ /\ Switched /\ Css(config) \notin Fast
              /\ Is(1, 4, css) \/ Is(2, 4, Poll("MCKRDY")) \/ Is(3, 4, pres) \/ Is(4, 4, Poll("MCKRDY"))
           \/ /\ Switched /\ Css(config) \in Fast
              /\ Is(1, 4, pres) \/ Is(2, 4, Poll("MCKRDY")) \/ Is(3, 4, css) \/ Is(4, 4, Poll("MCKRDY"))
<1>1. CASE ~Switched
  BY <1>1, Stages DEF IfSwitched, Switched
<1>2. CASE Switched /\ Css(config) \notin Fast
  <2>1. Accesses = SwitchSourceFirst(Css(config), config.pres)
    BY <1>2, Stages DEF IfSwitched, Switched, SwitchMck, Css, Fast, Slow, SlowXtal,
                        pmc_switch_mck_to_sclk, pmc_switch_mck_to_mainck
  <2> QED
    BY <1>2, <2>1, FourAccesses DEF SwitchSourceFirst
<1>3. CASE Switched /\ Css(config) \in Fast
  <2>1. Accesses = SwitchPrescalerFirst(Css(config), config.pres)
    BY <1>3, Stages DEF IfSwitched, Switched, SwitchMck, Css, Fast, Slow, SlowXtal,
                        pmc_switch_mck_to_pllack, pmc_switch_mck_to_upllck
  <2> QED
    BY <1>3, <2>1, FourAccesses DEF SwitchPrescalerFirst
<1> QED
  BY <1>1, <1>2, <1>3

-----------------------------------------------------------------------------
(* What is written where.                                                  *)

\* The wait states system_init_flash chooses: enough for hz, or all of them.
LEMMA FlashChoice ==
    ASSUME NEW hz \in Nat
    PROVE  \E n \in 0 .. 6 : /\ system_init_flash(hz)[1] = Write("FWS", n)
                             /\ hz < FlashLimit(n) \/ n = 6
<1>1. CASE ~(hz < FlashLimit(5))
  BY <1>1 DEF system_init_flash
<1>2. CASE hz < FlashLimit(5)
  <2> DEFINE Least(n) == /\ hz < FlashLimit(n)
                         /\ \A m \in 0 .. n - 1 : hz >= FlashLimit(m)
  <2>1. \A n \in 0 .. 5 : FlashLimit(n) = 23 * MHz * (n + 1)
    BY SMT DEF FlashLimit, MHz
  <2>2. \E n \in 0 .. 5 : Least(n)
    <3>1. CASE hz < 23 * MHz
      BY <3>1, <2>1, SMT DEF MHz
    <3>2. CASE 23 * MHz <= hz /\ hz < 46 * MHz
      <4>1. Least(1)
        BY <3>2, <2>1, SMT DEF MHz
      <4> QED
        BY <4>1
    <3>3. CASE 46 * MHz <= hz /\ hz < 69 * MHz
      <4>1. Least(2)
        BY <3>3, <2>1, SMT DEF MHz
      <4> QED
        BY <4>1
    <3>4. CASE 69 * MHz <= hz /\ hz < 92 * MHz
      <4>1. Least(3)
        BY <3>4, <2>1, SMT DEF MHz
      <4> QED
        BY <4>1
    <3>5. CASE 92 * MHz <= hz /\ hz < 115 * MHz
      <4>1. Least(4)
        BY <3>5, <2>1, SMT DEF MHz
      <4> QED
        BY <4>1
    <3>6. CASE 115 * MHz <= hz
      <4>1. Least(5)
        BY <3>6, <2>1, <1>2, SMT DEF MHz
      <4> QED
        BY <4>1
    <3> QED
      BY <3>1, <3>2, <3>3, <3>4, <3>5, <3>6, SMT DEF MHz
  <2>3. PICK n \in 0 .. 5 : n = (CHOOSE k \in 0 .. 5 : Least(k)) /\ Least(n)
    BY <2>2
  <2>4. system_init_flash(hz)[1] = Write("FWS", n)
    BY <1>2, <2>3 DEF system_init_flash
  <2>5. n \in 0 .. 6 /\ hz < FlashLimit(n)
    BY <2>3
  <2> QED
    BY <2>4, <2>5
<1> QED
  BY <1>1, <1>2

\* Frequencies are natural numbers.
LEMMA OscillatorHz ==
    ASSUME NEW id \in Sources
    PROVE  osc_get_rate(id) \in Nat
  BY DEF osc_get_rate, Sources, MHz

LEMMA DivisionNat ==
    ASSUME NEW x \in Nat, NEW d \in Nat \ {0}
    PROVE  x \div d \in Nat
  BY SMTT(30)

LEMMA ConfiguredHz ==
    ASSUME NEW c \in Config
    PROVE  /\ sysclk_get_main_hz(c) \in Nat
           /\ sysclk_get_cpu_hz(c) \in Nat
           /\ sysclk_get_peripheral_hz(c) \in Nat
           /\ FinalHz(c) \in Nat
<1>1. /\ c.source \in Sources /\ c.pll \in Sources
      /\ c.mul \in 1 .. 63 /\ c.pdiv \in 1 .. 255
      /\ c.pres \in {1, 2, 3, 4, 8, 16, 32, 64} /\ c.div \in 1 .. 4
  BY DEF Config, PllSources, Sources
<1>2. osc_get_rate(c.pll) * c.mul \in Nat
  BY <1>1, OscillatorHz
<1>3. (osc_get_rate(c.pll) * c.mul) \div c.pdiv \in Nat
  <2> DEFINE x == osc_get_rate(c.pll) * c.mul
  <2>1. x \in Nat /\ c.pdiv \in Nat \ {0}
    BY <1>1, <1>2
  <2> HIDE DEF x
  <2>2. x \div c.pdiv \in Nat
    BY <1>1, <2>1, DivisionNat, Zenon
  <2> QED
    BY <2>2 DEF x
<1>4. sysclk_get_main_hz(c) \in Nat
  BY <1>1, <1>3, OscillatorHz DEF sysclk_get_main_hz, MHz
<1>5. sysclk_get_cpu_hz(c) \in Nat
  BY <1>1, <1>4, DivisionNat DEF sysclk_get_cpu_hz
<1>6. FinalHz(c) \in Nat
  BY <1>1, <1>5, DivisionNat DEF FinalHz
<1>7. c.pres * c.div \in Nat \ {0}
  BY <1>1
<1>8. sysclk_get_peripheral_hz(c) \in Nat
  BY <1>4, <1>7, DivisionNat DEF sysclk_get_peripheral_hz
<1> QED
  BY <1>4, <1>5, <1>6, <1>8

\* The configuration kept in the repository is one of those the theorems are about.
LEMMA ShippedIsLegal == ShippedConfig \in Config /\ Legal(ShippedConfig)
<1>1. osc_get_rate(ShippedConfig.pll) = 12000000
  BY DEF ShippedConfig, osc_get_rate, MHz
<1>2. sysclk_get_main_hz(ShippedConfig) = 300000000
  <2>1. (12000000 * 25) \div 1 = 300000000
    OBVIOUS
  <2> QED
    BY <1>1, <2>1 DEF ShippedConfig, sysclk_get_main_hz
<1>3. sysclk_get_cpu_hz(ShippedConfig) = 300000000
  BY <1>2 DEF ShippedConfig, sysclk_get_cpu_hz
<1>4. sysclk_get_peripheral_hz(ShippedConfig) = 150000000
  BY <1>2 DEF ShippedConfig, sysclk_get_peripheral_hz
<1>5. ShippedConfig \in Config
  BY DEF ShippedConfig, Config, Sources, PllSources
<1> QED
  BY <1>1, <1>3, <1>4, <1>5 DEF Legal, CHIP_FREQ_CPU_MAX, MHz, ShippedConfig

\* The console's divider fits its fields.
Divider(over, n) ==
    IF n \div 8 < 1 \/ n \div 8 > 65535 THEN [over |-> 16, cd |-> 0, fp |-> 0]
                                        ELSE [over |-> over, cd |-> n \div 8, fp |-> n % 8]

LEMMA DividerFields ==
    ASSUME NEW over \in {8, 16}, NEW n \in Nat
    PROVE  Divider(over, n) \in Dividers
<1>1. n \div 8 \in Nat /\ n % 8 \in 0 .. 7
  BY SMTT(30)
<1> QED
  BY <1>1 DEF Divider, Dividers

\* How often the console samples a bit, and the divider in eighths.
Over(hz) == IF hz >= 16 * CONF_UART_BAUDRATE THEN 16 ELSE 8

Eighths(hz) ==
    (8 * hz + (Over(hz) * CONF_UART_BAUDRATE) \div 2) \div (Over(hz) * CONF_UART_BAUDRATE)

LEMMA ConsoleDivider ==
    ASSUME NEW hz \in Nat
    PROVE  /\ usart_set_async_baudrate(CONF_UART_BAUDRATE, hz) = Divider(Over(hz), Eighths(hz))
           /\ Over(hz) \in {8, 16} /\ Eighths(hz) \in Nat
           /\ Divider(Over(hz), Eighths(hz)) \in Dividers
<1>1. Over(hz) \in {8, 16}
  BY DEF Over
<1>2. Eighths(hz) \in Nat
  BY <1>1, SMTT(30) DEF Eighths, CONF_UART_BAUDRATE
<1>3. usart_set_async_baudrate(CONF_UART_BAUDRATE, hz) = Divider(Over(hz), Eighths(hz))
  BY DEF usart_set_async_baudrate, Divider, Over, Eighths
<1> QED
  BY <1>1, <1>2, <1>3, DividerFields

-----------------------------------------------------------------------------
(* The steps of the processor.                                             *)

LEMMA AccessFields ==
    /\ \A r, v : Write(r, v).do = "write" /\ Write(r, v).reg = r /\ Write(r, v).value = v
    /\ \A f : Wait(f).do = "wait" /\ Wait(f).reg = f
    /\ \A f : Poll(f).do = "poll" /\ Poll(f).reg = f
  BY DEF Write, Wait, Poll

\* A write changes the field it is for.
LEMMA WriteEffects ==
    ASSUME BootTypeOK, WriteStep
    PROVE  LET r == Next1.reg  v == Next1.value IN
           /\ mckr' = CASE r = "MCKR.CSS"  -> [mckr EXCEPT !.css = v]
                        [] r = "MCKR.PRES" -> [mckr EXCEPT !.pres = v]
                        [] r = "MCKR.MDIV" -> [mckr EXCEPT !.mdiv = v]
                        [] OTHER           -> mckr
           /\ mor' = CASE r = "MOR.RCF"        -> [mor EXCEPT !.rcf = v]
                       [] r = "MOR.XT"         -> [mor EXCEPT !.xt = v]
                       [] r = "MOR.SEL"        -> [mor EXCEPT !.sel = v]
                       [] r = "MOR.XT_SEL" -> [mor EXCEPT !.xt = v, !.sel = "xtal"]
                       [] OTHER                -> mor
           /\ slck' = IF r = "SUPC" THEN [slck EXCEPT !.sel = v] ELSE slck
           /\ r # "PLLA" => plla' = plla
           /\ r # "UPLL" => upll' = upll
<1> DEFINE r == Next1.reg
           v == Next1.value
<1>1. mckr' = CASE r = "MCKR.CSS"  -> [mckr EXCEPT !.css = v]
                [] r = "MCKR.PRES" -> [mckr EXCEPT !.pres = v]
                [] r = "MCKR.MDIV" -> [mckr EXCEPT !.mdiv = v]
                [] OTHER           -> mckr
  <2>1. mckr \in MckrSettings
    BY DEF BootTypeOK
  <2>2. mckr' = [css  |-> IF r = "MCKR.CSS" THEN v ELSE mckr.css,
                 pres |-> IF r = "MCKR.PRES" THEN v ELSE mckr.pres,
                 mdiv |-> IF r = "MCKR.MDIV" THEN v ELSE mckr.mdiv]
    BY DEF WriteStep, Written
  <2> HIDE DEF r, v
  <2>3. mckr = [css |-> mckr.css, pres |-> mckr.pres, mdiv |-> mckr.mdiv]
    BY <2>1 DEF MckrSettings
  <2> QED
    BY <2>1, <2>2, <2>3 DEF MckrSettings
<1>2. mor' = CASE r = "MOR.RCF"        -> [mor EXCEPT !.rcf = v]
               [] r = "MOR.XT"         -> [mor EXCEPT !.xt = v]
               [] r = "MOR.SEL"        -> [mor EXCEPT !.sel = v]
               [] r = "MOR.XT_SEL" -> [mor EXCEPT !.xt = v, !.sel = "xtal"]
               [] OTHER                -> mor
  <2>1. mor \in MorSettings
    BY DEF BootTypeOK
  <2>2. mor' = [rcf |-> IF r = "MOR.RCF" THEN v ELSE mor.rcf,
                xt  |-> IF r = "MOR.XT" THEN v ELSE IF r = "MOR.XT_SEL" THEN v ELSE mor.xt,
                sel |-> IF r = "MOR.XT_SEL" THEN "xtal"
                        ELSE IF r = "MOR.SEL" THEN v ELSE mor.sel]
    BY DEF WriteStep, Written
  <2> HIDE DEF r, v
  <2>3. mor = [rcf |-> mor.rcf, xt |-> mor.xt, sel |-> mor.sel]
    BY <2>1 DEF MorSettings
  <2> QED
    BY <2>1, <2>2, <2>3 DEF MorSettings
<1>3. slck' = IF r = "SUPC" THEN [slck EXCEPT !.sel = v] ELSE slck
  <2>1. slck \in SlckSettings
    BY DEF BootTypeOK
  <2>2. slck' = [slck EXCEPT !.sel = IF r = "SUPC" THEN v ELSE slck.sel]
    BY DEF WriteStep, Written
  <2> HIDE DEF r, v
  <2> QED
    BY <2>1, <2>2 DEF SlckSettings
<1>4. r # "PLLA" => plla' = plla
  BY DEF WriteStep
<1>5. r # "UPLL" => upll' = upll
  <2>1. upll \in UpllSettings
    BY DEF BootTypeOK
  <2>2. upll' = [upll EXCEPT !.on = IF r = "UPLL" THEN v ELSE upll.on]
    BY DEF WriteStep, Written
  <2> HIDE DEF r, v
  <2> QED
    BY <2>1, <2>2 DEF UpllSettings
<1> QED
  BY <1>1, <1>2, <1>3, <1>4, <1>5

\* Where each register is written.
LEMMA WrittenWhere ==
    ASSUME BootTypeOK, At("write")
    PROVE  \/ fn \in {1, 9} /\ Next1.reg = "FWS"
           \/ fn = 2 /\ Next1.reg \in {"SUPC", "MOR.RCF", "MOR.XT", "MOR.SEL", "MOR.XT_SEL"}
           \/ fn = 4 /\ Next1.reg \in {"PLLA", "UPLL"}
           \/ fn = 6 /\ Next1.reg = "MCKR.MDIV"
           \/ fn = 7 /\ Next1.reg \in {"MCKR.CSS", "MCKR.PRES"}
           \/ fn = 8 /\ Next1.reg = "CORE"
           \/ fn = 10 /\ Next1.reg = "WDT"
           \/ fn = 11 /\ Next1.reg = "USART"
           \/ fn \in {12, 14} /\ Next1.reg = "PCK5"
<1>1. /\ fn \in 1 .. 15 /\ Accesses # << >> /\ Next1.do = "write"
  BY DEF BootTypeOK, At, Functions
<1>2. CASE fn = 1
  BY <1>2, Singles DEF Is, Write
<1>3. CASE fn = 2
  <2> DEFINE rcf == Rcf(Oscillator(config))
  <2>1. \/ Accesses = << >>
        \/ Next1 = Write("SUPC", "xtal")
        \/ Next1 = Write("MOR.RCF", rcf) \/ Next1 = Write("MOR.SEL", "rc")
        \/ Next1 = Write("MOR.XT", "on") \/ Next1 = Write("MOR.SEL", "xtal")
        \/ Next1 = Write("MOR.XT_SEL", "bypass")
        \/ Next1 = Wait("MOSCRCS") \/ Next1 = Wait("MOSCXTS")
    BY <1>3, Enabling, Zenon DEF Is
  <2> HIDE DEF rcf
  <2> QED
    BY <1>1, <1>3, <2>1 DEF Write, Wait
<1>4. CASE fn = 3
  BY <1>1, <1>4, AwaitingOscillator DEF Is, Wait
<1>5. CASE fn = 4
  BY <1>1, <1>5, EnablingPll DEF Is, Write
<1>6. CASE fn = 5
  BY <1>1, <1>6, AwaitingLock DEF Is, Wait
<1>7. CASE fn = 6
  BY <1>1, <1>7, Dividing DEF Is, Write, Wait
<1>8. CASE fn = 7
  BY <1>1, <1>8, Switching DEF Is, Write, Poll
<1>9. CASE fn = 8
  BY <1>9, Singles DEF Is, Write
<1>10. CASE fn = 9
  <2>1. PICK n \in 0 .. 6 : system_init_flash(FinalHz(config))[1] = Write("FWS", n)
    BY Configured, ConfiguredHz, FlashChoice
  <2> QED
    BY <1>10, <2>1, Singles DEF Is, Write
<1>11. CASE fn = 10
  BY <1>11, Singles DEF Is, Write
<1>12. CASE fn = 11
  <2> DEFINE divider == usart_set_async_baudrate(CONF_UART_BAUDRATE,
                                                 sysclk_get_peripheral_hz(config))
  <2>1. Next1 = Write("USART", divider)
    BY <1>12, Singles DEF Is
  <2> HIDE DEF divider
  <2> QED
    BY <1>12, <2>1 DEF Write
<1>13. CASE fn = 12
  BY <1>13, Singles DEF Is, Write
<1>14. CASE fn = 13
  BY <1>1, <1>14, Singles DEF Is, Poll
<1>15. CASE fn = 14
  BY <1>15, Singles DEF Is, Write
<1>16. CASE fn = 15
  BY <1>1, <1>16, Singles DEF Is, Wait
<1>17. \/ fn = 1 \/ fn = 2 \/ fn = 3 \/ fn = 4 \/ fn = 5 \/ fn = 6 \/ fn = 7 \/ fn = 8
       \/ fn = 9 \/ fn = 10 \/ fn = 11 \/ fn = 12 \/ fn = 13 \/ fn = 14 \/ fn = 15
  BY <1>1
<1> QED
  BY <1>2, <1>3, <1>4, <1>5, <1>6, <1>7, <1>8, <1>9, <1>10, <1>11, <1>12, <1>13, <1>14, <1>15,
     <1>16, <1>17, Zenon

\* Only the switch of the master clock and pmc_switch_pck_to_pllack give up.
LEMMA PollWhere ==
    ASSUME BootTypeOK, At("poll")
    PROVE  fn \in {7, 13}
<1>1. /\ fn \in 1 .. 15 /\ Accesses # << >> /\ Next1.do = "poll"
  BY DEF BootTypeOK, At, Functions
<1>2. fn # 2
  <2> SUFFICES ASSUME fn = 2 PROVE FALSE
    OBVIOUS
  <2> DEFINE rcf == Rcf(Oscillator(config))
  <2>1. \/ Accesses = << >>
        \/ Next1 = Write("SUPC", "xtal")
        \/ Next1 = Write("MOR.RCF", rcf) \/ Next1 = Write("MOR.SEL", "rc")
        \/ Next1 = Write("MOR.XT", "on") \/ Next1 = Write("MOR.SEL", "xtal")
        \/ Next1 = Write("MOR.XT_SEL", "bypass")
        \/ Next1 = Wait("MOSCRCS") \/ Next1 = Wait("MOSCXTS")
    BY Enabling, Zenon DEF Is
  <2> HIDE DEF rcf
  <2> QED
    BY <1>1, <2>1 DEF Write, Wait
<1>3. fn # 3
  BY <1>1, AwaitingOscillator DEF Is, Wait
<1>4. fn # 4
  BY <1>1, EnablingPll DEF Is, Write
<1>5. fn # 5
  BY <1>1, AwaitingLock DEF Is, Wait
<1>6. fn # 6
  BY <1>1, Dividing DEF Is, Write, Wait
<1>7. fn # 9
  <2>1. PICK n \in 0 .. 6 : system_init_flash(FinalHz(config))[1] = Write("FWS", n)
    BY Configured, ConfiguredHz, FlashChoice
  <2> QED
    BY <1>1, <2>1, Singles DEF Is, Write
<1>8. fn # 11
  <2> DEFINE divider == usart_set_async_baudrate(CONF_UART_BAUDRATE,
                                                 sysclk_get_peripheral_hz(config))
  <2>1. fn = 11 => Next1 = Write("USART", divider)
    BY Singles DEF Is
  <2> HIDE DEF divider
  <2> QED
    BY <1>1, <2>1 DEF Write
<1>9. fn \notin {1, 8, 10, 12, 14, 15}
  BY <1>1, Singles DEF Is, Write, Wait
<1> QED
  BY <1>1, <1>2, <1>3, <1>4, <1>5, <1>6, <1>7, <1>8, <1>9

\* What a step of the processor leaves alone, and where it goes.
LEMMA ProcessorFrame ==
    ASSUME BootTypeOK, Processor
    PROVE  /\ fn \in 1 .. Functions
           /\ config' = config /\ fed' = fed /\ mck' = mck /\ mainck' = mainck
           /\ fn # 2 => mor' = mor /\ slck' = slck /\ stable' = stable
           /\ fn # 4 => plla' = plla /\ upll' = upll
           /\ fn \notin {6, 7} => mckr' = mckr
           /\ fn # 7 => gaveUp' = gaveUp
           /\ fn \notin {1, 9} => fws' = fws
           /\ fn # 8 => SystemCoreClock' = SystemCoreClock
           /\ fn # 10 => wdt' = wdt
           /\ fn # 11 => brgr' = brgr
           /\ fn \notin {12, 14} => pck5' = pck5
<1>1. CASE WriteStep
  <2>1. At("write")
    BY <1>1 DEF WriteStep
  <2>2. fn \in 1 .. Functions
    BY <2>1 DEF At, BootTypeOK
  <2>3. fn # 2 => Next1.reg \notin {"SUPC", "MOR.RCF", "MOR.XT", "MOR.SEL", "MOR.XT_SEL"}
    BY <2>1, WrittenWhere
  <2>4. fn # 2 => mor' = mor /\ slck' = slck /\ stable' = stable
    BY <1>1, <2>3, WriteEffects DEF WriteStep
  <2>5. fn # 4 => plla' = plla /\ upll' = upll
    <3>1. fn # 4 => Next1.reg \notin {"PLLA", "UPLL"}
      BY <2>1, WrittenWhere
    <3> QED
      BY <1>1, <3>1, WriteEffects
  <2>6. fn \notin {6, 7} => mckr' = mckr
    <3>1. fn \notin {6, 7} => Next1.reg \notin {"MCKR.CSS", "MCKR.PRES", "MCKR.MDIV"}
      BY <2>1, WrittenWhere
    <3> QED
      BY <1>1, <3>1, WriteEffects
  <2>7. /\ fn \notin {1, 9} => Next1.reg # "FWS"
        /\ fn # 8 => Next1.reg # "CORE"
        /\ fn # 10 => Next1.reg # "WDT"
        /\ fn # 11 => Next1.reg # "USART"
        /\ fn \notin {12, 14} => Next1.reg # "PCK5"
    BY <2>1, WrittenWhere
  <2>8. /\ config' = config /\ fed' = fed /\ mck' = mck /\ mainck' = mainck /\ gaveUp' = gaveUp
        /\ fn \notin {1, 9} => fws' = fws
        /\ fn # 8 => SystemCoreClock' = SystemCoreClock
        /\ fn # 10 => wdt' = wdt
        /\ fn # 11 => brgr' = brgr
        /\ fn \notin {12, 14} => pck5' = pck5
    BY <1>1, <2>7 DEF WriteStep, Written
  <2> QED
    BY <2>2, <2>4, <2>5, <2>6, <2>8
<1>2. CASE Empty
  BY <1>2 DEF Empty, clockVars, BootTypeOK
<1>3. CASE WaitStep
  BY <1>3 DEF WaitStep, At, clockVars, BootTypeOK
<1>4. CASE GiveUp
  <2>1. At("poll") /\ fn \in 1 .. Functions
    BY <1>4 DEF GiveUp, At, BootTypeOK
  <2>2. fn # 7 => Next1.reg # "MCKRDY"
    <3>1. Next1.do = "poll" /\ Accesses # << >> /\ fn \in 1 .. 15
      BY <2>1 DEF At, Functions
    <3>2. fn # 7 => fn = 13
      BY <2>1, PollWhere
    <3>3. fn = 13 => Next1 = Poll("PCKRDY5")
      BY Singles DEF Is
    <3> QED
      BY <3>2, <3>3 DEF Poll
  <2>3. gaveUp \in BOOLEAN
    BY DEF BootTypeOK
  <2>4. fn # 7 => gaveUp' = gaveUp
    BY <1>4, <2>2, <2>3, Zenon DEF GiveUp
  <2> QED
    BY <1>4, <2>1, <2>4 DEF GiveUp, clockVars
<1> QED
  BY <1>1, <1>2, <1>3, <1>4 DEF Processor

\* The step that each kind of access is.
LEMMA ProcessorGoes ==
    ASSUME BootTypeOK, Processor
    PROVE  /\ Accesses = << >> => Empty /\ fn' = fn + 1 /\ acc' = 1
           /\ Accesses # << >> /\ Next1.do = "write" => WriteStep /\ Proceed
           /\ Accesses # << >> /\ Next1.do = "wait" => Ready(Next1.reg) /\ Proceed /\ WaitStep
           /\ Accesses # << >> /\ Next1.do = "poll" =>
                \/ Ready(Next1.reg) /\ Proceed /\ gaveUp' = gaveUp
                \/ /\ fn' = fn + 1 /\ acc' = 1
                   /\ gaveUp' = (gaveUp \/ Next1.reg = "MCKRDY")
<1>1. Accesses = << >> => Empty /\ Proceed
  BY DEF Processor, WriteStep, WaitStep, GiveUp, At, Empty
<1>2. Accesses = << >> /\ Proceed => fn' = fn + 1 /\ acc' = 1
  BY AccBounds DEF Proceed
<1>3. Accesses # << >> /\ Next1.do = "write" => WriteStep /\ Proceed
  BY DEF Processor, WriteStep, WaitStep, GiveUp, At, Empty
<1>4. Accesses # << >> /\ Next1.do = "wait" => Ready(Next1.reg) /\ Proceed /\ WaitStep
  BY DEF Processor, WriteStep, WaitStep, GiveUp, At, Empty
<1>5. Accesses # << >> /\ Next1.do = "poll" =>
        \/ Ready(Next1.reg) /\ Proceed /\ gaveUp' = gaveUp
        \/ /\ fn' = fn + 1 /\ acc' = 1
           /\ gaveUp' = (gaveUp \/ Next1.reg = "MCKRDY")
  <2> SUFFICES ASSUME Accesses # << >>, Next1.do = "poll"
               PROVE  \/ Ready(Next1.reg) /\ Proceed /\ gaveUp' = gaveUp
                      \/ /\ fn' = fn + 1 /\ acc' = 1
                         /\ gaveUp' = (gaveUp \/ Next1.reg = "MCKRDY")
    OBVIOUS
  <2>1. WaitStep \/ GiveUp
    BY DEF Processor, WriteStep, At, Empty
  <2>2. CASE WaitStep
    BY <2>2, Zenon DEF WaitStep
  <2>3. CASE GiveUp
    BY <2>3, Zenon DEF GiveUp
  <2> QED
    BY <2>1, <2>2, <2>3
<1> QED
  BY <1>1, <1>2, <1>3, <1>4, <1>5, Zenon

\* osc_enable.
LEMMA EnablingStep ==
    ASSUME BootTypeOK, fn = 2, Processor
    PROVE  LET id == Oscillator(config) IN
           \/ /\ id \in {"SLCK_RC", "MAINCK_4M_RC"}
              /\ fn' = 3 /\ acc' = 1 /\ mor' = mor /\ slck' = slck
           \/ /\ id \in SlowXtal
              /\ fn' = 3 /\ acc' = 1 /\ mor' = mor /\ slck' = [slck EXCEPT !.sel = "xtal"]
           \/ /\ id \in Rc /\ slck' = slck
              /\ \/ acc = 1 /\ fn' = 2 /\ acc' = 2 /\ mor' = mor
                 \/ acc = 2 /\ fn' = 2 /\ acc' = 3 /\ mor' = [mor EXCEPT !.rcf = Rcf(id)]
                 \/ acc = 3 /\ fn' = 2 /\ acc' = 4 /\ mor' = mor
                 \/ acc = 4 /\ fn' = 3 /\ acc' = 1 /\ mor' = [mor EXCEPT !.sel = "rc"]
           \/ /\ id = "MAINCK_XTAL" /\ slck' = slck
              /\ \/ acc = 1 /\ fn' = 2 /\ acc' = 2 /\ mor' = [mor EXCEPT !.xt = "on"]
                 \/ acc = 2 /\ fn' = 2 /\ acc' = 3 /\ mor' = mor
                 \/ acc = 3 /\ fn' = 3 /\ acc' = 1 /\ mor' = [mor EXCEPT !.sel = "xtal"]
           \/ /\ id = "MAINCK_BYPASS" /\ slck' = slck
              /\ fn' = 3 /\ acc' = 1 /\ mor' = [mor EXCEPT !.xt = "bypass", !.sel = "xtal"]
<1> DEFINE id == Oscillator(config)
<1>1. CASE id \in {"SLCK_RC", "MAINCK_4M_RC"} /\ Accesses = << >>
  BY <1>1, ProcessorGoes DEF Empty, clockVars
<1>2. CASE id \in SlowXtal /\ Is(1, 1, Write("SUPC", "xtal"))
  BY <1>2, ProcessorGoes, WriteEffects DEF Is, Write, Proceed
<1>3. CASE id \in Rc /\ (Is(1, 4, Wait("MOSCRCS")) \/ Is(3, 4, Wait("MOSCRCS")))
  <2>1. Accesses # << >> /\ Next1.do = "wait"
    BY <1>3 DEF Is, Wait
  <2>2. slck' = slck /\ mor' = mor /\ Proceed
    BY <2>1, ProcessorGoes DEF WaitStep, clockVars
  <2>3. acc \in {1, 3} /\ Len(Accesses) = 4
    BY <1>3 DEF Is
  <2> QED
    BY <1>3, <2>2, <2>3 DEF Proceed
<1>4. CASE id \in Rc /\ Is(2, 4, Write("MOR.RCF", Rcf(id)))
  <2> DEFINE rcf == Rcf(id)
  <2>1. Is(2, 4, Write("MOR.RCF", rcf))
    BY <1>4
  <2>2. slck' = slck /\ fn' = 2 /\ acc' = 3 /\ mor' = [mor EXCEPT !.rcf = rcf]
    <3> HIDE DEF rcf
    <3> QED
      BY <2>1, ProcessorGoes, WriteEffects DEF Is, Write, Proceed
  <2> QED
    BY <1>4, <2>1, <2>2 DEF Is
<1>5. CASE id \in Rc /\ Is(4, 4, Write("MOR.SEL", "rc"))
  BY <1>5, ProcessorGoes, WriteEffects DEF Is, Write, Proceed
<1>6. CASE id = "MAINCK_XTAL" /\ Is(1, 3, Write("MOR.XT", "on"))
  BY <1>6, ProcessorGoes, WriteEffects DEF Is, Write, Proceed
<1>7. CASE id = "MAINCK_XTAL" /\ Is(2, 3, Wait("MOSCXTS"))
  BY <1>7, ProcessorGoes DEF Is, Wait, WaitStep, clockVars, Proceed
<1>8. CASE id = "MAINCK_XTAL" /\ Is(3, 3, Write("MOR.SEL", "xtal"))
  BY <1>8, ProcessorGoes, WriteEffects DEF Is, Write, Proceed
<1>9. CASE id = "MAINCK_BYPASS" /\ Is(1, 1, Write("MOR.XT_SEL", "bypass"))
  BY <1>9, ProcessorGoes, WriteEffects DEF Is, Write, Proceed
<1> QED
  <2>1. \/ id \in {"SLCK_RC", "MAINCK_4M_RC"} /\ Accesses = << >>
        \/ id \in SlowXtal /\ Is(1, 1, Write("SUPC", "xtal"))
        \/ id \in Rc /\ (Is(1, 4, Wait("MOSCRCS")) \/ Is(3, 4, Wait("MOSCRCS")))
        \/ id \in Rc /\ Is(2, 4, Write("MOR.RCF", Rcf(id)))
        \/ id \in Rc /\ Is(4, 4, Write("MOR.SEL", "rc"))
        \/ id = "MAINCK_XTAL" /\ Is(1, 3, Write("MOR.XT", "on"))
        \/ id = "MAINCK_XTAL" /\ Is(2, 3, Wait("MOSCXTS"))
        \/ id = "MAINCK_XTAL" /\ Is(3, 3, Write("MOR.SEL", "xtal"))
        \/ id = "MAINCK_BYPASS" /\ Is(1, 1, Write("MOR.XT_SEL", "bypass"))
    BY Enabling, Zenon
  <2> HIDE DEF id
  <2> QED
    BY <1>1, <1>2, <1>3, <1>4, <1>5, <1>6, <1>7, <1>8, <1>9, <2>1, Zenon

\* osc_wait_ready.
LEMMA AwaitingOscillatorStep ==
    ASSUME BootTypeOK, fn = 3, Processor
    PROVE  /\ fn' = 4 /\ acc' = 1
           /\ Oscillator(config) \in SlowXtal => slck.now = slck.sel
           /\ Oscillator(config) \notin Slow \cup {"MAINCK_4M_RC"} => mainck = mor.sel
<1> DEFINE id == Oscillator(config)
<1>1. CASE id \in {"SLCK_RC", "MAINCK_4M_RC"} /\ Accesses = << >>
  BY <1>1, ProcessorGoes DEF SlowXtal, Slow
<1>2. CASE id \in SlowXtal /\ Is(1, 1, Wait("OSCSEL"))
  BY <1>2, ProcessorGoes DEF Is, Wait, Proceed, Ready, Slow
<1>3. CASE id \notin Slow /\ Is(1, 1, Wait("MOSCSELS"))
  BY <1>3, ProcessorGoes DEF Is, Wait, Proceed, Ready, Slow
<1> QED
  BY <1>1, <1>2, <1>3, AwaitingOscillator

\* pll_enable.
LEMMA EnablingPllStep ==
    ASSUME BootTypeOK, fn = 4, Processor
    PROVE  \/ /\ config.source \notin {"PLLACK", "UPLLCK"}
              /\ fn' = 5 /\ acc' = 1 /\ plla' = plla /\ upll' = upll
           \/ /\ config.source = "PLLACK" /\ acc = 1 /\ fn' = 4 /\ acc' = 2
              /\ plla' = [on |-> FALSE, mul |-> 1, div |-> 1, lock |-> FALSE] /\ upll' = upll
           \/ /\ config.source = "PLLACK" /\ acc = 2 /\ fn' = 5 /\ acc' = 1
              /\ plla' = [on |-> TRUE, mul |-> config.mul, div |-> config.pdiv, lock |-> FALSE]
              /\ upll' = upll
           \/ /\ config.source = "UPLLCK" /\ fn' = 5 /\ acc' = 1
              /\ plla' = plla /\ upll' = [upll EXCEPT !.on = TRUE]
<1>1. CASE config.source \notin {"PLLACK", "UPLLCK"} /\ Accesses = << >>
  BY <1>1, ProcessorGoes DEF Empty, clockVars
<1>2. ASSUME NEW v, Next1 = Write("PLLA", v), Accesses # << >>
      PROVE  /\ plla' = [on |-> v.on, mul |-> v.mul, div |-> v.div, lock |-> FALSE]
             /\ upll' = upll /\ Proceed
  <2>1. Next1.do = "write" /\ Next1.reg = "PLLA" /\ Next1.value = v
    BY <1>2 DEF Write
  <2>2. WriteStep /\ Proceed
    BY <1>2, <2>1, ProcessorGoes
  <2>3. upll' = upll
    BY <2>1, <2>2, WriteEffects
  <2>4. plla' = [on |-> v.on, mul |-> v.mul, div |-> v.div, lock |-> FALSE]
    BY <2>1, <2>2, Zenon DEF WriteStep
  <2> QED
    BY <2>2, <2>3, <2>4
<1> DEFINE off == [on |-> FALSE, mul |-> 1, div |-> 1]
           on  == [on |-> TRUE, mul |-> config.mul, div |-> config.pdiv]
<1>3. CASE config.source = "PLLACK" /\ Is(1, 2, Write("PLLA", off))
  <2>1. plla' = [on |-> off.on, mul |-> off.mul, div |-> off.div, lock |-> FALSE]
        /\ upll' = upll /\ Proceed
    BY <1>2, <1>3, Zenon DEF Is
  <2>2. fn' = 4 /\ acc' = 2 /\ acc = 1
    BY <1>3, <2>1 DEF Is, Proceed
  <2>3. off.on = FALSE /\ off.mul = 1 /\ off.div = 1
    OBVIOUS
  <2> QED
    BY <1>3, <2>1, <2>2, <2>3, Zenon
<1>4. CASE config.source = "PLLACK" /\ Is(2, 2, Write("PLLA", on))
  <2>1. plla' = [on |-> on.on, mul |-> on.mul, div |-> on.div, lock |-> FALSE]
        /\ upll' = upll /\ Proceed
    BY <1>2, <1>4, Zenon DEF Is
  <2>2. fn' = 5 /\ acc' = 1 /\ acc = 2
    BY <1>4, <2>1 DEF Is, Proceed
  <2>3. on.on = TRUE /\ on.mul = config.mul /\ on.div = config.pdiv
    OBVIOUS
  <2> QED
    BY <1>4, <2>1, <2>2, <2>3, Zenon
<1>5. CASE config.source = "UPLLCK" /\ Is(1, 1, Write("UPLL", TRUE))
  <2>1. /\ Accesses # << >> /\ Len(Accesses) = 1 /\ acc = 1
        /\ Next1.do = "write" /\ Next1.reg = "UPLL" /\ Next1.value = TRUE
    BY <1>5, Zenon, AccessFields DEF Is
  <2>2. WriteStep /\ fn' = 5 /\ acc' = 1
    BY <2>1, ProcessorGoes DEF Proceed
  <2>3. plla' = plla
    BY <2>1, <2>2, WriteEffects
  <2>4. upll' = [upll EXCEPT !.on = TRUE]
    BY <2>1, <2>2, Zenon DEF WriteStep, Written
  <2> QED
    BY <1>5, <2>2, <2>3, <2>4, Zenon
<1> QED
  BY <1>1, <1>3, <1>4, <1>5, EnablingPll, Zenon

\* pll_wait_for_lock.
LEMMA AwaitingLockStep ==
    ASSUME BootTypeOK, fn = 5, Processor
    PROVE  /\ fn' = 6 /\ acc' = 1
           /\ config.source = "PLLACK" => plla.lock
           /\ config.source = "UPLLCK" => upll.lock
<1>1. CASE config.source \notin {"PLLACK", "UPLLCK"} /\ Accesses = << >>
  BY <1>1, ProcessorGoes
<1>2. CASE config.source = "PLLACK" /\ Is(1, 1, Wait("LOCKA"))
  BY <1>2, ProcessorGoes DEF Is, Wait, Proceed, Ready
<1>3. CASE config.source = "UPLLCK" /\ Is(1, 1, Wait("LOCKU"))
  BY <1>3, ProcessorGoes DEF Is, Wait, Proceed, Ready
<1> QED
  BY <1>1, <1>2, <1>3, AwaitingLock

\* pmc_mck_set_division.
LEMMA DividingStep ==
    ASSUME BootTypeOK, fn = 6, Processor
    PROVE  \/ ~Switched /\ fn' = 7 /\ acc' = 1 /\ mckr' = mckr
           \/ /\ Switched /\ acc = 1 /\ fn' = 6 /\ acc' = 2
              /\ mckr' = [mckr EXCEPT !.mdiv = config.div]
           \/ Switched /\ acc = 2 /\ fn' = 7 /\ acc' = 1 /\ mckr' = mckr
<1>1. CASE ~Switched /\ Accesses = << >>
  BY <1>1, ProcessorGoes DEF Empty, clockVars
<1>2. CASE Switched /\ Is(1, 2, Write("MCKR.MDIV", config.div))
  BY <1>2, ProcessorGoes, WriteEffects DEF Is, Write, Proceed
<1>3. CASE Switched /\ Is(2, 2, Wait("MCKRDY"))
  BY <1>3, ProcessorGoes DEF Is, Wait, WaitStep, clockVars, Proceed
<1> QED
  BY <1>1, <1>2, <1>3, Dividing

\* pmc_switch_mck_to_*: either its last wait ends with the switch done, or one of
\* its two gives up.
LEMMA SwitchingStep ==
    ASSUME BootTypeOK, fn = 7, Processor
    PROVE  \/ ~Switched /\ fn' = 8 /\ acc' = 1 /\ mckr' = mckr
           \/ /\ Switched /\ acc = 1 /\ fn' = 7 /\ acc' = 2 /\ gaveUp' = gaveUp
              /\ mckr' = IF Css(config) \in Fast THEN [mckr EXCEPT !.pres = config.pres]
                                                 ELSE [mckr EXCEPT !.css = Css(config)]
           \/ Switched /\ acc = 2 /\ fn' = 7 /\ acc' = 3 /\ mckr' = mckr
           \/ /\ Switched /\ acc = 3 /\ fn' = 7 /\ acc' = 4 /\ gaveUp' = gaveUp
              /\ mckr' = IF Css(config) \in Fast THEN [mckr EXCEPT !.css = Css(config)]
                                                 ELSE [mckr EXCEPT !.pres = config.pres]
           \/ Switched /\ acc = 4 /\ fn' = 8 /\ acc' = 1 /\ mckr' = mckr /\ mck = mckr
           \/ Switched /\ fn' = 8 /\ acc' = 1 /\ mckr' = mckr /\ gaveUp'
<1>1. CASE ~Switched /\ Accesses = << >>
  BY <1>1, ProcessorGoes DEF Empty, clockVars
<1>2. ASSUME Next1 = Poll("MCKRDY"), Accesses # << >>
      PROVE  /\ mckr' = mckr
             /\ \/ Proceed /\ mck = mckr
                \/ fn' = fn + 1 /\ acc' = 1 /\ gaveUp'
  <2>1. Next1.do = "poll" /\ Next1.reg = "MCKRDY"
    BY <1>2 DEF Poll
  <2>2. mckr' = mckr
    BY <1>2, <2>1 DEF Processor, Empty, WriteStep, WaitStep, GiveUp, At, clockVars
  <2>3. CASE Ready(Next1.reg) /\ Proceed
    BY <2>1, <2>2, <2>3 DEF Ready
  <2>4. CASE fn' = fn + 1 /\ acc' = 1 /\ gaveUp' = (gaveUp \/ Next1.reg = "MCKRDY")
    BY <2>1, <2>2, <2>4, Zenon
  <2> QED
    BY <1>2, <2>1, <2>3, <2>4, ProcessorGoes, Zenon
<1>3. ASSUME Next1 \in {Write("MCKR.CSS", Css(config)), Write("MCKR.PRES", config.pres)},
             Accesses # << >>
      PROVE  /\ Proceed /\ gaveUp' = gaveUp
             /\ mckr' = IF Next1.reg = "MCKR.CSS" THEN [mckr EXCEPT !.css = Css(config)]
                                                  ELSE [mckr EXCEPT !.pres = config.pres]
  <2>1. \/ /\ Next1.do = "write" /\ Next1.reg = "MCKR.CSS" /\ Next1.value = Css(config)
        \/ /\ Next1.do = "write" /\ Next1.reg = "MCKR.PRES" /\ Next1.value = config.pres
    BY <1>3, AccessFields
  <2>2. WriteStep /\ Proceed
    BY <1>3, <2>1, ProcessorGoes
  <2>3. gaveUp' = gaveUp
    BY <2>2 DEF WriteStep
  <2> QED
    BY <2>1, <2>2, <2>3, WriteEffects
<1> DEFINE css  == Write("MCKR.CSS", Css(config))
           pres == Write("MCKR.PRES", config.pres)
<1>4. css.reg = "MCKR.CSS" /\ pres.reg = "MCKR.PRES"
  BY AccessFields
<1> HIDE DEF css, pres
<1>5. CASE Switched /\ (Is(2, 4, Poll("MCKRDY")) \/ Is(4, 4, Poll("MCKRDY")))
  <2>1. Next1 = Poll("MCKRDY") /\ Accesses # << >> /\ acc \in {2, 4} /\ Len(Accesses) = 4
    BY <1>5 DEF Is
  <2> QED
    BY <1>2, <1>5, <2>1 DEF Proceed
<1>6. CASE Switched /\ Css(config) \notin Fast /\ (Is(1, 4, css) \/ Is(3, 4, pres))
  <2>1. /\ Accesses # << >> /\ Len(Accesses) = 4
        /\ (acc = 1 /\ Next1 = css) \/ (acc = 3 /\ Next1 = pres)
    BY <1>6 DEF Is
  <2>2. Proceed /\ gaveUp' = gaveUp
    BY <1>3, <2>1 DEF css, pres
  <2> QED
    BY <1>3, <1>4, <1>6, <2>1, <2>2 DEF Proceed, css, pres
<1>7. CASE Switched /\ Css(config) \in Fast /\ (Is(1, 4, pres) \/ Is(3, 4, css))
  <2>1. /\ Accesses # << >> /\ Len(Accesses) = 4
        /\ (acc = 1 /\ Next1 = pres) \/ (acc = 3 /\ Next1 = css)
    BY <1>7 DEF Is
  <2>2. Proceed /\ gaveUp' = gaveUp
    BY <1>3, <2>1 DEF css, pres
  <2> QED
    BY <1>3, <1>4, <1>7, <2>1, <2>2 DEF Proceed, css, pres
<1> QED
  BY <1>1, <1>5, <1>6, <1>7, Switching, Zenon DEF css, pres

\* The functions of one access.
LEMMA SingleSteps ==
    ASSUME BootTypeOK, Processor, fn \in {1, 8, 9, 10, 11, 12, 13, 14, 15}
    PROVE  /\ fn' = fn + 1 /\ acc' = 1
           /\ fn = 1 => fws' = 6
           /\ fn = 8 => SystemCoreClock' = CoreClock
           /\ fn = 9 => /\ fws' \in 0 .. 6
                        /\ FinalHz(config) < FlashLimit(fws') \/ fws' = 6
           /\ fn = 10 => wdt' = FALSE
           /\ fn = 11 => brgr' = usart_set_async_baudrate(CONF_UART_BAUDRATE,
                                                          sysclk_get_peripheral_hz(config))
           /\ fn = 12 => pck5' = FALSE
           /\ fn = 14 => pck5' = TRUE
<1>1. /\ acc = 1 /\ Len(Accesses) = 1 /\ Accesses # << >>
      /\ fn \notin {13, 15} => Next1.do = "write"
      /\ fn = 13 => Next1.do = "poll"
      /\ fn = 15 => Next1.do = "wait"
  <2> DEFINE flash   == system_init_flash(FinalHz(config))[1]
             divider == usart_set_async_baudrate(CONF_UART_BAUDRATE,
                                                 sysclk_get_peripheral_hz(config))
  <2>1. flash.do = "write"
    BY Configured, ConfiguredHz, FlashChoice, AccessFields
  <2>2. fn = 9 => Is(1, 1, flash)
    BY Singles
  <2>3. fn = 11 => Is(1, 1, Write("USART", divider))
    BY Singles
  <2> HIDE DEF flash, divider
  <2>4. CASE fn \in {1, 8, 10, 12, 14}
    BY <2>4, Singles DEF Is, Write
  <2>5. CASE fn = 9
    BY <2>1, <2>2, <2>5 DEF Is
  <2>6. CASE fn = 11
    BY <2>3, <2>6 DEF Is, Write
  <2>7. CASE fn = 13
    BY <2>7, Singles DEF Is, Poll
  <2>8. CASE fn = 15
    BY <2>8, Singles DEF Is, Wait
  <2> QED
    BY <2>4, <2>5, <2>6, <2>7, <2>8
<1>2. fn' = fn + 1 /\ acc' = 1
  BY <1>1, ProcessorGoes DEF Proceed
<1>3. fn \notin {13, 15} => WriteStep
  BY <1>1, ProcessorGoes
<1>4. fn = 1 => fws' = 6
  BY <1>3, Singles DEF Is, Write, WriteStep, Written
<1>5. fn = 8 => SystemCoreClock' = CoreClock
  BY <1>3, Singles DEF Is, Write, WriteStep
<1>6. fn = 9 => /\ fws' \in 0 .. 6
                /\ FinalHz(config) < FlashLimit(fws') \/ fws' = 6
  <2>1. PICK n \in 0 .. 6 : /\ system_init_flash(FinalHz(config))[1] = Write("FWS", n)
                            /\ FinalHz(config) < FlashLimit(n) \/ n = 6
    BY Configured, ConfiguredHz, FlashChoice
  <2>2. fn = 9 => Next1.reg = "FWS" /\ Next1.value = n
    BY <2>1, Singles, AccessFields DEF Is
  <2>3. fn = 9 => fws' = n
    BY <1>3, <2>2 DEF WriteStep, Written
  <2> QED
    BY <2>1, <2>3
<1>7. fn = 10 => wdt' = FALSE
  <2>1. fn = 10 => Next1 = Write("WDT", FALSE)
    BY Singles, Zenon DEF Is
  <2>2. fn = 10 => WriteStep
    BY <1>3
  <2>3. Write("WDT", FALSE).reg = "WDT" /\ Write("WDT", FALSE).value = FALSE
    BY Zenon DEF Write
  <2> QED
    BY <2>1, <2>2, <2>3, Zenon DEF WriteStep, Written
<1>8. fn = 11 => brgr' = usart_set_async_baudrate(CONF_UART_BAUDRATE,
                                                  sysclk_get_peripheral_hz(config))
  <2> DEFINE divider == usart_set_async_baudrate(CONF_UART_BAUDRATE,
                                                 sysclk_get_peripheral_hz(config))
  <2>1. fn = 11 => Next1.reg = "USART" /\ Next1.value = divider
    BY Singles, AccessFields DEF Is
  <2> HIDE DEF divider
  <2>2. fn = 11 => brgr' = divider
    BY <1>3, <2>1 DEF WriteStep, Written
  <2> QED
    BY <2>2 DEF divider
<1>9. fn = 12 => pck5' = FALSE
  <2>1. fn = 12 => Next1 = Write("PCK5", FALSE)
    BY Singles, Zenon DEF Is
  <2>2. fn = 12 => WriteStep
    BY <1>3
  <2>3. Write("PCK5", FALSE).reg = "PCK5" /\ Write("PCK5", FALSE).value = FALSE
    BY Zenon DEF Write
  <2> QED
    BY <2>1, <2>2, <2>3, Zenon DEF WriteStep, Written
<1>10. fn = 14 => pck5' = TRUE
  <2>1. fn = 14 => Next1 = Write("PCK5", TRUE)
    BY Singles, Zenon DEF Is
  <2>2. fn = 14 => WriteStep
    BY <1>3
  <2>3. Write("PCK5", TRUE).reg = "PCK5" /\ Write("PCK5", TRUE).value = TRUE
    BY Zenon DEF Write
  <2> QED
    BY <2>1, <2>2, <2>3, Zenon DEF WriteStep, Written
<1> QED
  BY <1>2, <1>4, <1>5, <1>6, <1>7, <1>8, <1>9, <1>10, Zenon

-----------------------------------------------------------------------------
(* Types.                                                                  *)

LEMMA CoreClockType ==
    ASSUME BootTypeOK
    PROVE  CoreSourceHz \in Nat /\ CoreClock \in Nat
<1> DEFINE main == IF mor.sel = "xtal" THEN 12 * MHz ELSE mor.rcf * MHz
<1>1. /\ mckr \in MckrSettings /\ mor \in MorSettings /\ plla \in PllaSettings
      /\ SystemCoreClock \in Nat
  BY DEF BootTypeOK
<1>2. main \in Nat
  BY <1>1 DEF MorSettings, MHz
<1>3. plla.mul \in Nat /\ plla.div \in Nat \ {0} /\ mckr.pres \in Nat \ {0}
  BY <1>1 DEF PllaSettings, MckrSettings
<1>4. (main * plla.mul) \div plla.div \in Nat
  <2> DEFINE x == main * plla.mul
  <2>1. x \in Nat
    BY <1>2, <1>3
  <2> HIDE DEF x
  <2>2. x \div plla.div \in Nat
    BY <1>3, <2>1, DivisionNat, Zenon
  <2> QED
    BY <2>2 DEF x
<1> HIDE DEF main
<1>5. CoreSourceHz \in {32768, 32000, main, (main * plla.mul) \div plla.div, SystemCoreClock}
  BY DEF CoreSourceHz, main
<1>6. CoreSourceHz \in Nat
  BY <1>1, <1>2, <1>4, <1>5
<1> QED
  BY <1>3, <1>6, DivisionNat DEF CoreClock

LEMMA ConfiguredTypes ==
    ASSUME BootTypeOK
    PROVE  /\ config.pres \in {1, 2, 3, 4, 8, 16, 32, 64} /\ config.div \in 1 .. 4
           /\ config.mul \in 1 .. 63 /\ config.pdiv \in 1 .. 255
           /\ config.source \in Sources /\ config.pll \in PllSources
           /\ Css(config) \in {"slow", "main", "plla", "upll"}
           /\ Rcf(Oscillator(config)) \in {4, 8, 12}
           /\ Sel(Oscillator(config)) \in {"rc", "xtal"}
  BY Configured DEF Config, Css, Rcf, Sel

LEMMA ProcessorTypes ==
    ASSUME BootTypeOK, Processor
    PROVE  BootTypeOK'
<1>1. /\ fn \in 1 .. 15 /\ acc \in Nat \ {0} /\ (acc > 1 => acc <= Len(Accesses))
      /\ config' = config /\ fed' = fed /\ mck' = mck /\ mainck' = mainck
  BY ProcessorFrame DEF BootTypeOK, Functions
<1>2. /\ config' \in Configs /\ fed' \in Fed /\ mck' \in MckrSettings
      /\ mainck' \in {"rc", "xtal"}
  BY <1>1 DEF BootTypeOK
<1>3. /\ fn' \in 1 .. Functions + 1 /\ acc' \in Nat \ {0}
      /\ acc' > 1 => fn' <= Functions /\ acc' <= Len(Accesses')
  <2>1. \/ fn' = fn + 1 /\ acc' = 1
        \/ fn' = fn /\ acc' = acc + 1 /\ acc < Len(Accesses)
    BY AccBounds DEF Processor, Empty, WriteStep, WaitStep, GiveUp, Proceed
  <2>2. fn' = fn => Accesses' = Accesses
    BY <1>1, Zenon DEF Accesses
  <2>3. CASE fn' = fn + 1 /\ acc' = 1
    BY <1>1, <2>3 DEF Functions
  <2>4. CASE fn' = fn /\ acc' = acc + 1 /\ acc < Len(Accesses)
    <3>1. Len(Accesses') = Len(Accesses)
      BY <2>2, <2>4, Zenon
    <3>2. acc' <= Len(Accesses')
      <4>1. acc + 1 <= Len(Accesses)
        BY <1>1, <2>4
      <4> QED
        BY <2>4, <3>1, <4>1
    <3> QED
      BY <1>1, <2>4, <3>2 DEF Functions
  <2> QED
    BY <2>1, <2>3, <2>4
<1>4. mor' \in MorSettings /\ slck' \in SlckSettings
  <2>1. mor \in MorSettings /\ slck \in SlckSettings
    BY DEF BootTypeOK
  <2>2. CASE fn # 2
    BY <2>1, <2>2, ProcessorFrame
  <2>3. CASE fn = 2
    <3> DEFINE rcf == Rcf(Oscillator(config))
    <3>1. rcf \in {4, 8, 12}
      BY ConfiguredTypes
    <3>2. /\ \/ mor' = mor \/ mor' = [mor EXCEPT !.rcf = rcf]
             \/ mor' = [mor EXCEPT !.sel = "rc"] \/ mor' = [mor EXCEPT !.sel = "xtal"]
             \/ mor' = [mor EXCEPT !.xt = "on"]
             \/ mor' = [mor EXCEPT !.xt = "bypass", !.sel = "xtal"]
          /\ slck' = slck \/ slck' = [slck EXCEPT !.sel = "xtal"]
      BY <2>3, EnablingStep, Zenon
    <3> HIDE DEF rcf
    <3>3. mor' \in MorSettings
      BY <2>1, <3>1, <3>2 DEF MorSettings
    <3>4. slck' \in SlckSettings
      BY <2>1, <3>2 DEF SlckSettings
    <3> QED
      BY <3>3, <3>4
  <2> QED
    BY <2>2, <2>3
<1>5. stable' \subseteq {"MOSCRCS", "MOSCXTS"}
  <2>1. stable \subseteq {"MOSCRCS", "MOSCXTS"}
    BY DEF BootTypeOK
  <2>2. stable' = stable \/ stable' = stable \ {"MOSCRCS"}
    BY DEF Processor, Empty, WriteStep, WaitStep, GiveUp, clockVars
  <2> QED
    BY <2>1, <2>2
<1>6. plla' \in PllaSettings /\ upll' \in UpllSettings
  <2>1. plla \in PllaSettings /\ upll \in UpllSettings
    BY DEF BootTypeOK
  <2>2. CASE fn # 4
    BY <2>1, <2>2, ProcessorFrame
  <2>3. CASE fn = 4
    <3>1. [on |-> FALSE, mul |-> 1, div |-> 1, lock |-> FALSE] \in PllaSettings
      BY DEF PllaSettings
    <3>2. [on |-> TRUE, mul |-> config.mul, div |-> config.pdiv, lock |-> FALSE] \in PllaSettings
      BY ConfiguredTypes DEF PllaSettings
    <3>3. [upll EXCEPT !.on = TRUE] \in UpllSettings
      BY <2>1 DEF UpllSettings
    <3> QED
      BY <2>1, <2>3, <3>1, <3>2, <3>3, EnablingPllStep, Zenon
  <2> QED
    BY <2>2, <2>3
<1>7. mckr' \in MckrSettings
  <2>1. mckr \in MckrSettings
    BY DEF BootTypeOK
  <2>2. CASE fn \notin {6, 7}
    BY <2>1, <2>2, ProcessorFrame
  <2>3. CASE fn = 6
    <3>1. mckr' = mckr \/ mckr' = [mckr EXCEPT !.mdiv = config.div]
      BY <2>3, DividingStep
    <3> QED
      BY <2>1, <3>1, ConfiguredTypes DEF MckrSettings
  <2>4. CASE fn = 7
    <3>1. \/ mckr' = mckr \/ mckr' = [mckr EXCEPT !.pres = config.pres]
          \/ mckr' = [mckr EXCEPT !.css = Css(config)]
      BY <2>4, SwitchingStep
    <3> QED
      BY <2>1, <3>1, ConfiguredTypes DEF MckrSettings
  <2> QED
    BY <2>2, <2>3, <2>4
<1>8. gaveUp' \in BOOLEAN
  BY DEF Processor, Empty, WriteStep, WaitStep, GiveUp, BootTypeOK
<1>9. fws' \in 0 .. 6
  <2>1. fws \in 0 .. 6
    BY DEF BootTypeOK
  <2>2. CASE fn = 1
    BY <2>2, SingleSteps
  <2>3. CASE fn = 9
    BY <2>3, SingleSteps
  <2>4. CASE fn \notin {1, 9}
    BY <2>1, <2>4, ProcessorFrame
  <2> QED
    BY <2>2, <2>3, <2>4
<1>10. SystemCoreClock' \in Nat
  BY ProcessorFrame, SingleSteps, CoreClockType DEF BootTypeOK
<1>11. wdt' \in BOOLEAN
  BY ProcessorFrame, SingleSteps DEF BootTypeOK
<1>12. pck5' \in BOOLEAN
  BY ProcessorFrame, SingleSteps DEF BootTypeOK
<1>13. brgr' \in Dividers
  <2>1. sysclk_get_peripheral_hz(config) \in Nat
    BY Configured, ConfiguredHz
  <2>2. usart_set_async_baudrate(CONF_UART_BAUDRATE, sysclk_get_peripheral_hz(config)) \in Dividers
    BY <2>1, ConsoleDivider
  <2>3. brgr \in Dividers
    BY DEF BootTypeOK
  <2>4. CASE fn = 11
    BY <2>2, <2>4, SingleSteps
  <2>5. CASE fn # 11
    BY <2>3, <2>5, ProcessorFrame
  <2> QED
    BY <2>4, <2>5
<1> QED
  BY <1>2, <1>3, <1>4, <1>5, <1>6, <1>7, <1>8, <1>9, <1>10, <1>11, <1>12, <1>13, Zenon
  DEF BootTypeOK

\* The steps of the hardware, and the watchdog's.
LEMMA HardwareTypes ==
    ASSUME BootTypeOK, Hardware
    PROVE  BootTypeOK'
<1>1. HwRest
  BY DEF Hardware, HwMaster, HwOscillator, HwMain, HwSlow, HwLock
<1>2. mck' \in MckrSettings
  BY DEF Hardware, HwMaster, HwOscillator, HwMain, HwSlow, HwLock, BootTypeOK
<1>3. mainck' \in {"rc", "xtal"}
  <2>1. mor.sel \in {"rc", "xtal"}
    BY DEF BootTypeOK, MorSettings
  <2> QED
    BY <2>1 DEF Hardware, HwMaster, HwOscillator, HwMain, HwSlow, HwLock, BootTypeOK
<1>4. stable' \subseteq {"MOSCRCS", "MOSCXTS"}
  BY DEF Hardware, HwMaster, HwOscillator, HwMain, HwSlow, HwLock, BootTypeOK
<1>5. slck' \in SlckSettings
  <2>1. slck \in SlckSettings
    BY DEF BootTypeOK
  <2>2. slck' = slck \/ slck' = [slck EXCEPT !.now = slck.sel]
    BY DEF Hardware, HwMaster, HwOscillator, HwMain, HwSlow, HwLock
  <2> QED
    BY <2>1, <2>2 DEF SlckSettings
<1>6. plla' \in PllaSettings /\ upll' \in UpllSettings
  <2>1. plla \in PllaSettings /\ upll \in UpllSettings
    BY DEF BootTypeOK
  <2>2. /\ plla' = plla \/ plla' = [plla EXCEPT !.lock = TRUE]
        /\ upll' = upll \/ upll' = [upll EXCEPT !.lock = TRUE]
    BY Zenon DEF Hardware, HwMaster, HwOscillator, HwMain, HwSlow, HwLock
  <2>3. [plla EXCEPT !.lock = TRUE] \in PllaSettings
    BY <2>1 DEF PllaSettings
  <2>4. [upll EXCEPT !.lock = TRUE] \in UpllSettings
    BY <2>1 DEF UpllSettings
  <2> QED
    BY <2>1, <2>2, <2>3, <2>4, Zenon
<1>7. Accesses' = Accesses
  BY <1>1, Zenon DEF HwRest, Accesses
<1> QED
  BY <1>1, <1>2, <1>3, <1>4, <1>5, <1>6, <1>7, Zenon DEF BootTypeOK, HwRest

LEMMA ResetTypes ==
    /\ Reset.mckr \in MckrSettings /\ Reset.mor \in MorSettings
    /\ Reset.plla \in PllaSettings /\ Reset.upll \in UpllSettings /\ Reset.brgr \in Dividers
<1>1. Reset.mckr \in MckrSettings
  BY DEF Reset, MckrSettings
<1>2. Reset.mor \in MorSettings
  BY DEF Reset, MorSettings
<1>3. Reset.plla \in PllaSettings
  BY DEF Reset, PllaSettings
<1>4. Reset.upll \in UpllSettings
  BY DEF Reset, UpllSettings
<1>5. Reset.brgr \in Dividers
  BY DEF Reset, Dividers
<1> QED
  BY <1>1, <1>2, <1>3, <1>4, <1>5

LEMMA BootTypes ==
    ASSUME BootTypeOK, [BootNext]_bootVars
    PROVE  BootTypeOK'
<1>1. CASE Processor
  BY <1>1, ProcessorTypes
<1>2. CASE Hardware
  BY <1>2, HardwareTypes
<1>3. CASE HwWatchdog
  <2>1. /\ fn' = 1 /\ acc' = 1
        /\ fn' \in 1 .. Functions + 1 /\ acc' \in Nat \ {0} /\ ~(acc' > 1)
    BY <1>3 DEF HwWatchdog, Functions
  <2>2. gaveUp' \in BOOLEAN /\ pck5' \in BOOLEAN /\ wdt' \in BOOLEAN
    BY <1>3, Zenon DEF HwWatchdog, BootTypeOK
  <2>3. /\ fws' \in 0 .. 6 /\ SystemCoreClock' \in Nat
        /\ stable' \subseteq {"MOSCRCS", "MOSCXTS"} /\ mainck' \in {"rc", "xtal"}
    BY <1>3 DEF HwWatchdog, MHz
  <2> QED
    BY <1>3, <2>1, <2>2, <2>3, ResetTypes, Zenon DEF HwWatchdog, BootTypeOK
<1>4. CASE UNCHANGED bootVars
  <2>1. Accesses' = Accesses
    BY <1>4, Zenon DEF bootVars, Accesses
  <2> QED
    BY <1>4, <2>1, Zenon DEF bootVars, clockVars, BootTypeOK
<1> QED
  BY <1>1, <1>2, <1>3, <1>4 DEF BootNext

LEMMA BootInitTypes == BootInit => BootTypeOK
<1> SUFFICES ASSUME BootInit PROVE BootTypeOK
  OBVIOUS
<1>1. /\ fn \in 1 .. Functions + 1 /\ acc \in Nat \ {0} /\ ~(acc > 1)
      /\ fws \in 0 .. 6 /\ SystemCoreClock \in Nat
      /\ stable \subseteq {"MOSCRCS", "MOSCXTS"} /\ mainck \in {"rc", "xtal"}
  BY DEF BootInit, Functions, MHz
<1>2. gaveUp \in BOOLEAN /\ pck5 \in BOOLEAN /\ wdt \in BOOLEAN
  BY Zenon DEF BootInit
<1>3. slck \in SlckSettings
  BY DEF BootInit, SlckSettings
<1> QED
  BY <1>1, <1>2, <1>3, ResetTypes, Zenon DEF BootInit, BootTypeOK

\* The processor is always at an access of one of its functions, every register
\* holds a setting it has, and the console's divider fits US_BRGR.
THEOREM BootTypeCorrect == BootSpec => []BootTypeOK
<1> QED
  BY BootInitTypes, BootTypes, PTL DEF BootSpec

-----------------------------------------------------------------------------
(* The oscillators.                                                        *)

LEMMA ProcessorForward ==
    ASSUME BootTypeOK, Processor
    PROVE  fn' \in {fn, fn + 1} /\ fn' \in Nat /\ fn \in Nat
  BY DEF Processor, Empty, WriteStep, WaitStep, GiveUp, Proceed, BootTypeOK, Functions

LEMMA OscInvProcessor ==
    ASSUME BootTypeOK, OscInv, Processor
    PROVE  OscInv'
<1> DEFINE id == Oscillator(config)
<1>1. config' = config /\ mainck' = mainck /\ slck' \in SlckSettings /\ mor' \in MorSettings
  BY ProcessorFrame, ProcessorTypes, Zenon DEF BootTypeOK
<1>2. /\ id \in SlowXtal <=> config.source \in SlowXtal
      /\ Oscillator(config') = id
  <2>1. config.source \in Sources /\ config.pll \in PllSources
    BY ConfiguredTypes
  <2> QED
    BY <1>1, <2>1 DEF Oscillator, SlowXtal, PllSources, Sources
<1>3. mor \in MorSettings /\ slck \in SlckSettings /\ mainck \in {"rc", "xtal"}
  BY DEF BootTypeOK
<1>4. CASE fn = 1
  <2>1. fn' = 2 /\ acc' = 1 /\ mor' = mor /\ slck' = slck
    BY <1>4, ProcessorFrame, SingleSteps
  <2> QED
    BY <1>1, <1>4, <2>1 DEF OscInv
<1>5. CASE fn = 2
  <2> DEFINE rcf == Rcf(id)
             sel == Sel(id)
  <2>1. /\ slck.now = "xtal" => slck.sel = "xtal"
        /\ slck.sel = "xtal" => id \in SlowXtal
        /\ mainck = "xtal" => mor.sel = "xtal"
        /\ mor.sel = "xtal" => sel = "xtal"
        /\ mor.rcf \in {4, rcf}
        /\ acc > 2 => mor.rcf = rcf
    BY <1>2, <1>5 DEF OscInv
  <2>2. /\ id \notin {"MAINCK_XTAL", "MAINCK_BYPASS"} => sel = "rc"
        /\ id \in {"MAINCK_XTAL", "MAINCK_BYPASS"} => sel = "xtal"
        /\ id \notin {"MAINCK_8M_RC", "MAINCK_12M_RC"} => rcf = 4
    BY DEF Sel, Rcf
  <2> HIDE DEF id, rcf, sel
  <2>3. /\ slck'.now = "xtal" => slck'.sel = "xtal"
        /\ slck'.sel = "xtal" => id \in SlowXtal
        /\ mainck' = "xtal" => mor'.sel = "xtal"
        /\ mor'.sel = "xtal" => sel = "xtal"
        /\ mor'.rcf \in {4, rcf}
        /\ fn' \in {2, 3}
        /\ fn' = 3 => /\ mor'.rcf = rcf /\ mor'.sel = sel
                      /\ id \in SlowXtal => slck'.sel = "xtal"
        /\ acc' > 2 => mor'.rcf = rcf
    <3>1. CASE /\ id \in {"SLCK_RC", "MAINCK_4M_RC"}
               /\ fn' = 3 /\ acc' = 1 /\ mor' = mor /\ slck' = slck
      BY <1>1, <1>3, <2>1, <2>2, <3>1 DEF SlowXtal, MorSettings
    <3>2. CASE /\ id \in SlowXtal
               /\ fn' = 3 /\ acc' = 1 /\ mor' = mor /\ slck' = [slck EXCEPT !.sel = "xtal"]
      BY <1>1, <1>3, <2>1, <2>2, <3>2 DEF SlowXtal, SlckSettings, MorSettings
    <3>3. CASE /\ id \in Rc /\ slck' = slck
               /\ \/ acc = 1 /\ fn' = 2 /\ acc' = 2 /\ mor' = mor
                  \/ acc = 2 /\ fn' = 2 /\ acc' = 3 /\ mor' = [mor EXCEPT !.rcf = rcf]
                  \/ acc = 3 /\ fn' = 2 /\ acc' = 4 /\ mor' = mor
                  \/ acc = 4 /\ fn' = 3 /\ acc' = 1 /\ mor' = [mor EXCEPT !.sel = "rc"]
      BY <1>1, <1>3, <2>1, <2>2, <3>3 DEF SlowXtal, Rc, MorSettings
    <3>4. CASE /\ id = "MAINCK_XTAL" /\ slck' = slck
               /\ \/ acc = 1 /\ fn' = 2 /\ acc' = 2 /\ mor' = [mor EXCEPT !.xt = "on"]
                  \/ acc = 2 /\ fn' = 2 /\ acc' = 3 /\ mor' = mor
                  \/ acc = 3 /\ fn' = 3 /\ acc' = 1 /\ mor' = [mor EXCEPT !.sel = "xtal"]
      BY <1>1, <1>3, <2>1, <2>2, <3>4 DEF SlowXtal, MorSettings
    <3>5. CASE /\ id = "MAINCK_BYPASS" /\ slck' = slck
               /\ fn' = 3 /\ acc' = 1 /\ mor' = [mor EXCEPT !.xt = "bypass", !.sel = "xtal"]
      BY <1>1, <1>3, <2>1, <2>2, <3>5 DEF SlowXtal, MorSettings
    <3> QED
      BY <1>5, <3>1, <3>2, <3>3, <3>4, <3>5, EnablingStep, Zenon DEF id, rcf
  <2>4. /\ config'.source \in SlowXtal <=> id \in SlowXtal
        /\ Rcf(Oscillator(config')) = rcf /\ Sel(Oscillator(config')) = sel
    BY <1>1, <1>2 DEF rcf, sel
  <2>5. ~(fn' > 3)
    BY <2>3
  <2>6. fn' > 2 => fn' = 3
    BY <2>3
  <2>7. /\ mor'.sel = "xtal" => Sel(Oscillator(config')) = "xtal"
        /\ mor'.rcf \in {4, Rcf(Oscillator(config'))}
        /\ fn' > 2 \/ acc' > 2 => mor'.rcf = Rcf(Oscillator(config'))
        /\ fn' > 2 => mor'.sel = Sel(Oscillator(config'))
    BY <2>3, <2>4, <2>6
  <2>8. /\ slck'.sel = "xtal" => config'.source \in SlowXtal
        /\ fn' > 2 /\ config'.source \in SlowXtal => slck'.sel = "xtal"
    BY <2>3, <2>4, <2>6
  <2> QED
    BY <2>3, <2>5, <2>7, <2>8 DEF OscInv
<1>6. CASE fn = 3
  <2>1. fn' = 4 /\ acc' = 1 /\ mor' = mor /\ slck' = slck
    BY <1>6, ProcessorFrame, AwaitingOscillatorStep
  <2>2. mainck = mor.sel /\ slck.now = slck.sel
    <3>1. /\ id \in SlowXtal => slck.now = slck.sel
          /\ id \notin Slow \cup {"MAINCK_4M_RC"} => mainck = mor.sel
      BY <1>6, AwaitingOscillatorStep
    <3>2. id \notin SlowXtal => slck.sel = "rc" /\ slck.now = "rc"
      BY <1>2, <1>3 DEF OscInv, SlckSettings
    <3>3. id \in Slow \cup {"MAINCK_4M_RC"} => mor.sel = "rc" /\ mainck = "rc"
      BY <1>3 DEF OscInv, MorSettings, Sel, Slow, SlowXtal
    <3> QED
      BY <3>1, <3>2, <3>3
  <2> QED
    BY <1>1, <1>6, <2>1, <2>2 DEF OscInv
<1>7. CASE fn > 3
  <2>1. fn' > 3 /\ mor' = mor /\ slck' = slck
    BY <1>7, ProcessorFrame, ProcessorForward
  <2> QED
    BY <1>1, <1>7, <2>1, ProcessorForward DEF OscInv
<1> QED
  BY <1>4, <1>5, <1>6, <1>7, ProcessorFrame DEF Functions

LEMMA OscInvStep ==
    ASSUME BootTypeOK, OscInv, [BootNext]_bootVars
    PROVE  OscInv'
<1>1. mor \in MorSettings /\ slck \in SlckSettings /\ mainck \in {"rc", "xtal"}
  BY DEF BootTypeOK
<1>2. CASE Hardware
  <2>1. config' = config /\ fn' = fn /\ acc' = acc /\ mor' = mor
    BY <1>2 DEF Hardware, HwMaster, HwOscillator, HwMain, HwSlow, HwLock, HwRest
  <2>2. mainck' = mainck \/ mainck' = mor.sel
    BY <1>2 DEF Hardware, HwMaster, HwOscillator, HwMain, HwSlow, HwLock, HwRest
  <2>3. slck' = slck \/ slck' = [slck EXCEPT !.now = slck.sel]
    BY <1>2 DEF Hardware, HwMaster, HwOscillator, HwMain, HwSlow, HwLock, HwRest
  <2>4. slck'.sel = slck.sel /\ slck'.now \in {slck.now, slck.sel}
    BY <1>1, <2>3 DEF SlckSettings
  <2> QED
    BY <1>1, <2>1, <2>2, <2>4 DEF OscInv
<1>3. CASE HwWatchdog
  <2>1. /\ config' = config /\ fn' = 1 /\ acc' = 1 /\ slck' = slck /\ mainck' = "rc"
        /\ mor'.rcf = 4 /\ mor'.sel = "rc"
    BY <1>3 DEF HwWatchdog, Reset
  <2> QED
    BY <2>1 DEF OscInv
<1>4. CASE UNCHANGED bootVars
  BY <1>4 DEF bootVars, clockVars, OscInv
<1> QED
  BY <1>2, <1>3, <1>4, OscInvProcessor DEF BootNext

LEMMA OscInvInit == BootInit => OscInv
  BY DEF BootInit, OscInv, Reset

-----------------------------------------------------------------------------
(* The PLLs.                                                               *)

LEMMA PllInvStep ==
    ASSUME BootTypeOK, PllInv, [BootNext]_bootVars
    PROVE  PllInv'
<1>1. plla \in PllaSettings /\ upll \in UpllSettings /\ fn \in Nat
  BY DEF BootTypeOK, Functions
<1>2. CASE Processor
  <2>1. config' = config
    BY <1>2, ProcessorFrame
  <2>2. CASE fn < 4
    BY <1>2, <2>2, ProcessorForward DEF PllInv
  <2>3. CASE fn = 4
    <3>1. /\ fn' \in {4, 5}
          /\ fn' = 5 /\ config.source = "PLLACK" =>
               plla'.mul = config.mul /\ plla'.div = config.pdiv
      BY <1>2, <2>3, EnablingPllStep
    <3> QED
      BY <2>1, <3>1 DEF PllInv
  <2>4. CASE fn = 5
    <3>1. fn' = 6 /\ plla' = plla /\ upll' = upll
      BY <1>2, <2>4, ProcessorFrame, AwaitingLockStep
    <3> QED
      BY <1>2, <2>1, <2>4, <3>1, AwaitingLockStep DEF PllInv
  <2>5. CASE fn > 5
    <3>1. fn > 4 /\ plla' = plla /\ upll' = upll
      BY <1>1, <1>2, <2>5, ProcessorFrame
    <3> QED
      BY <1>1, <2>1, <2>5, <3>1 DEF PllInv
  <2> QED
    BY <1>1, <2>2, <2>3, <2>4, <2>5
<1>3. CASE Hardware
  <2>1. config' = config /\ fn' = fn
    BY <1>3 DEF Hardware, HwMaster, HwOscillator, HwMain, HwSlow, HwLock, HwRest
  <2>2. /\ plla' = plla \/ plla' = [plla EXCEPT !.lock = TRUE]
        /\ upll' = upll \/ upll' = [upll EXCEPT !.lock = TRUE]
    BY <1>3, Zenon DEF Hardware, HwMaster, HwOscillator, HwMain, HwSlow, HwLock
  <2>3. /\ plla'.mul = plla.mul /\ plla'.div = plla.div
        /\ plla.lock => plla'.lock
    BY <1>1, <2>2 DEF PllaSettings
  <2>4. upll.lock => upll'.lock
    BY <1>1, <2>2 DEF UpllSettings
  <2> QED
    BY <2>1, <2>3, <2>4 DEF PllInv
<1>4. CASE HwWatchdog
  BY <1>4 DEF HwWatchdog, PllInv
<1>5. CASE UNCHANGED bootVars
  BY <1>5 DEF bootVars, clockVars, PllInv
<1> QED
  BY <1>2, <1>3, <1>4, <1>5 DEF BootNext

LEMMA PllInvInit == BootInit => PllInv
  BY DEF BootInit, PllInv

-----------------------------------------------------------------------------
(* The master clock.                                                       *)

LEMMA ResetPasses ==
    /\ Reset.mckr.css = "main" /\ Reset.mckr.pres = 1 /\ Reset.mckr.mdiv = 1
    /\ Passing(Reset.mckr)
  BY DEF Reset, Passing, Fast

LEMMA MasterInvProcessor ==
    ASSUME BootTypeOK, MasterInv, Processor
    PROVE  MasterInv'
<1>1. /\ config' = config /\ mck' = mck /\ fn \in Nat /\ fn' \in Nat
      /\ mckr \in MckrSettings /\ gaveUp \in BOOLEAN /\ gaveUp' \in BOOLEAN
  BY ProcessorFrame, ProcessorForward, ProcessorTypes DEF BootTypeOK
<1> DEFINE css  == Css(config)
           pres == config.pres
           div  == config.div
<1>2. Switched' = Switched /\ Css(config') = css /\ config'.pres = pres /\ config'.div = div
  BY <1>1, Zenon DEF Switched
<1> HIDE DEF css, pres, div
<1> DEFINE Ok(m) == /\ m.css \in {"main", css} /\ m.pres \in {1, pres} /\ m.mdiv \in {1, div}
                    /\ m.css \in Fast => m.pres = pres /\ m.mdiv = div
<1>3. /\ Ok(mckr) /\ Ok(mck)
      /\ fn <= 6 => mckr.css = "main" /\ mck.css = "main"
      /\ ~Switched => mckr = Reset.mckr /\ mck = Reset.mckr
      /\ Switched /\ (fn > 6 \/ (fn = 6 /\ acc > 1)) => mckr.mdiv = div
      /\ fn = 7 /\ acc > 1 => IF css \in Fast THEN mckr.pres = pres ELSE mckr.css = css
      /\ fn = 7 /\ acc > 3 => mckr.pres = pres /\ mckr.css = css
      /\ Switched /\ fn > 7 /\ ~gaveUp => mck = mckr /\ mckr.pres = pres /\ mckr.css = css
  BY DEF MasterInv, Passing, css, pres, div
<1>4. SUFFICES
         /\ Ok(mckr')
         /\ fn' <= 6 => mckr'.css = "main" /\ fn <= 6
         /\ ~Switched => mckr' = mckr
         /\ Switched /\ (fn' > 6 \/ (fn' = 6 /\ acc' > 1)) => mckr'.mdiv = div
         /\ fn' = 7 /\ acc' > 1 => IF css \in Fast THEN mckr'.pres = pres ELSE mckr'.css = css
         /\ fn' = 7 /\ acc' > 3 => mckr'.pres = pres /\ mckr'.css = css
         /\ Switched /\ fn' > 7 /\ ~gaveUp' =>
              mck = mckr' /\ mckr'.pres = pres /\ mckr'.css = css
  <2>1. Reset' = Reset
    BY DEF Reset
  <2> QED
    BY <1>1, <1>2, <1>3, <2>1 DEF MasterInv, Passing
<1>5. CASE fn < 6
  <2>1. fn' <= 6 /\ mckr' = mckr
    BY <1>1, <1>5, ProcessorFrame, ProcessorForward
  <2>2. fn' = 6 => acc' = 1
    <3>1. fn' = 6 => fn = 5
      BY <1>1, <1>5, ProcessorForward
    <3> QED
      BY <3>1, AwaitingLockStep
  <2> QED
    BY <1>1, <1>3, <1>5, <2>1, <2>2
<1>6. CASE fn = 6
  <2>1. CASE ~Switched /\ fn' = 7 /\ acc' = 1 /\ mckr' = mckr
    BY <1>3, <1>6, <2>1
  <2>2. CASE /\ Switched /\ acc = 1 /\ fn' = 6 /\ acc' = 2
             /\ mckr' = [mckr EXCEPT !.mdiv = div]
    BY <1>1, <1>3, <1>6, <2>2 DEF MckrSettings, Fast
  <2>3. CASE Switched /\ acc = 2 /\ fn' = 7 /\ acc' = 1 /\ mckr' = mckr
    BY <1>3, <1>6, <2>3
  <2> QED
    BY <1>6, <2>1, <2>2, <2>3, DividingStep DEF div
<1>7. CASE fn = 7
  <2>1. CASE ~Switched /\ fn' = 8 /\ acc' = 1 /\ mckr' = mckr
    BY <1>3, <1>7, <2>1
  <2>2. CASE /\ Switched /\ acc = 1 /\ fn' = 7 /\ acc' = 2 /\ gaveUp' = gaveUp
             /\ mckr' = IF css \in Fast THEN [mckr EXCEPT !.pres = pres]
                                        ELSE [mckr EXCEPT !.css = css]
    BY <1>1, <1>3, <1>7, <2>2 DEF MckrSettings
  <2>3. CASE Switched /\ acc = 2 /\ fn' = 7 /\ acc' = 3 /\ mckr' = mckr
    BY <1>3, <1>7, <2>3
  <2>4. CASE /\ Switched /\ acc = 3 /\ fn' = 7 /\ acc' = 4 /\ gaveUp' = gaveUp
             /\ mckr' = IF css \in Fast THEN [mckr EXCEPT !.css = css]
                                        ELSE [mckr EXCEPT !.pres = pres]
    BY <1>1, <1>3, <1>7, <2>4 DEF MckrSettings
  <2>5. CASE Switched /\ acc = 4 /\ fn' = 8 /\ acc' = 1 /\ mckr' = mckr /\ mck = mckr
    BY <1>3, <1>7, <2>5
  <2>6. CASE Switched /\ fn' = 8 /\ acc' = 1 /\ mckr' = mckr /\ gaveUp'
    BY <1>3, <1>7, <2>6
  <2> QED
    BY <1>7, <2>1, <2>2, <2>3, <2>4, <2>5, <2>6, SwitchingStep DEF css, pres
<1>8. CASE fn > 7
  <2>1. fn' > 7 /\ mckr' = mckr /\ gaveUp' = gaveUp
    BY <1>1, <1>8, ProcessorFrame, ProcessorForward
  <2> QED
    BY <1>1, <1>3, <1>8, <2>1
<1> QED
  BY <1>1, <1>5, <1>6, <1>7, <1>8

LEMMA MasterInvStep ==
    ASSUME BootTypeOK, MasterInv, [BootNext]_bootVars
    PROVE  MasterInv'
<1>1. CASE Hardware
  <2>1. config' = config /\ fn' = fn /\ acc' = acc /\ mckr' = mckr /\ gaveUp' = gaveUp
    BY <1>1 DEF Hardware, HwMaster, HwOscillator, HwMain, HwSlow, HwLock, HwRest
  <2>2. mck' = mck \/ mck' = mckr
    BY <1>1 DEF Hardware, HwMaster, HwOscillator, HwMain, HwSlow, HwLock
  <2>3. Switched' = Switched /\ Reset' = Reset /\ Css(config') = Css(config)
    BY <2>1 DEF Switched, Reset
  <2> QED
    BY <2>1, <2>2, <2>3 DEF MasterInv, Passing
<1>2. CASE HwWatchdog
  <2>1. config' = config /\ fn' = 1 /\ mckr' = Reset.mckr /\ mck' = Reset.mckr
    BY <1>2 DEF HwWatchdog
  <2>2. Passing(mckr)' /\ Passing(mck)'
    BY <2>1, ResetPasses DEF Passing, Fast
  <2> QED
    BY <2>1, <2>2, ResetPasses DEF MasterInv, Reset
<1>3. CASE UNCHANGED bootVars
  <2>1. Switched' = Switched /\ Reset' = Reset
    BY <1>3 DEF Switched, Reset, bootVars
  <2> QED
    BY <1>3, <2>1 DEF bootVars, clockVars, MasterInv, Passing
<1> QED
  BY <1>1, <1>2, <1>3, MasterInvProcessor DEF BootNext

LEMMA MasterInvInit == BootInit => MasterInv
  BY ResetPasses DEF BootInit, MasterInv

-----------------------------------------------------------------------------
(* What system_init leaves behind.                                         *)

\* SystemCoreClockUpdate would compute the same again after each later step.
LEMMA CoreClockStays ==
    ASSUME BootTypeOK, OscInv, MasterInv, Processor \/ Hardware,
           fn > 7, config.source # "UPLLCK"
    PROVE  CoreClock' = CoreClock
<1>1. /\ mckr \in MckrSettings /\ slck \in SlckSettings /\ plla \in PllaSettings
      /\ fn \in Nat
  BY DEF BootTypeOK, Functions
<1>2. mckr' = mckr /\ mor' = mor
  BY ProcessorFrame DEF Hardware, HwMaster, HwOscillator, HwMain, HwSlow, HwLock, HwRest
<1>3. slck' = slck
  <2>1. slck.now = slck.sel
    BY <1>1 DEF OscInv
  <2> QED
    BY <1>1, <2>1, ProcessorFrame DEF Hardware, HwMaster, HwOscillator, HwMain, HwSlow, HwLock
<1>4. plla'.mul = plla.mul /\ plla'.div = plla.div
  <2>1. CASE Processor
    BY <1>1, <2>1, ProcessorFrame
  <2>2. CASE Hardware
    <3>1. plla' = plla \/ plla' = [plla EXCEPT !.lock = TRUE]
      BY <2>2, Zenon DEF Hardware, HwMaster, HwOscillator, HwMain, HwSlow, HwLock
    <3> QED
      BY <1>1, <3>1 DEF PllaSettings
  <2> QED
    BY <2>1, <2>2
<1>5. mckr.css \in {"slow", "main", "plla"}
  BY <1>1, ConfiguredTypes DEF MasterInv, Passing, Css, MckrSettings, Slow, SlowXtal, Sources
<1> QED
  BY <1>2, <1>3, <1>4, <1>5 DEF CoreClock, CoreSourceHz

LEMMA ResultInvProcessor ==
    ASSUME BootTypeOK, OscInv, MasterInv, ResultInv, Processor
    PROVE  ResultInv'
<1>1. config' = config /\ fn \in 1 .. 15 /\ fn' \in {fn, fn + 1}
  BY ProcessorFrame, ProcessorForward DEF Functions
<1>2. fn' > 1 /\ fn' <= 9 => fws' = 6
  <2>1. CASE fn = 1
    BY <2>1, SingleSteps
  <2>2. CASE fn \in 2 .. 8
    BY <2>2, ProcessorFrame DEF ResultInv
  <2>3. CASE fn = 9
    BY <2>3, SingleSteps
  <2> QED
    BY <1>1, <2>1, <2>2, <2>3
<1>3. fn' > 9 => FinalHz(config') < FlashLimit(fws') \/ fws' = 6
  <2>1. CASE fn = 9
    BY <1>1, <2>1, SingleSteps
  <2>2. CASE fn > 9
    <3>1. fws' = fws
      BY <1>1, <2>2, ProcessorFrame
    <3> QED
      BY <1>1, <2>2, <3>1 DEF ResultInv
  <2> QED
    BY <1>1, <2>1, <2>2
<1>4. fn' > 8 /\ config'.source # "UPLLCK" => SystemCoreClock' = CoreClock'
  <2> SUFFICES ASSUME fn' > 8, config.source # "UPLLCK" PROVE SystemCoreClock' = CoreClock'
    BY <1>1
  <2>1. CoreClock' = CoreClock
    BY <1>1, CoreClockStays
  <2>2. CASE fn = 8
    BY <2>1, <2>2, SingleSteps
  <2>3. CASE fn > 8
    BY <1>1, <2>1, <2>3, ProcessorFrame DEF ResultInv
  <2> QED
    BY <1>1, <2>2, <2>3
<1>5. ~wdt' => fn' > 10
  <2>1. CASE fn = 10
    BY <2>1, SingleSteps
  <2>2. CASE fn # 10
    BY <1>1, <2>2, ProcessorFrame DEF ResultInv
  <2> QED
    BY <2>1, <2>2
<1>6. IF fn' > 11
        THEN brgr' = usart_set_async_baudrate(CONF_UART_BAUDRATE,
                                              sysclk_get_peripheral_hz(config'))
        ELSE brgr'.cd = 0
  <2> DEFINE divider == usart_set_async_baudrate(CONF_UART_BAUDRATE,
                                                 sysclk_get_peripheral_hz(config))
  <2> HIDE DEF divider
  <2>1. CASE fn = 11
    <3>1. fn' = 12 /\ brgr' = divider
      BY <2>1, SingleSteps DEF divider
    <3> QED
      BY <1>1, <3>1 DEF divider
  <2>2. CASE fn > 11
    <3>1. brgr' = divider /\ fn' > 11
      BY <1>1, <2>2, ProcessorFrame DEF ResultInv, divider
    <3> QED
      BY <1>1, <3>1 DEF divider
  <2>3. CASE fn < 11
    <3>1. brgr' = brgr /\ brgr.cd = 0 /\ ~(fn' > 11)
      BY <1>1, <2>3, ProcessorFrame DEF ResultInv
    <3> QED
      BY <3>1
  <2> QED
    BY <1>1, <2>1, <2>2, <2>3
<1>7. pck5' => fn' > 14
  <2>1. CASE fn = 12
    <3>1. pck5' = FALSE
      BY <2>1, SingleSteps
    <3> QED
      BY <3>1, Zenon
  <2>2. CASE fn = 14
    <3>1. fn' = 15
      BY <2>2, SingleSteps
    <3> QED
      BY <3>1
  <2>3. CASE fn \notin {12, 14}
    <3>1. pck5' = pck5
      BY <2>3, ProcessorFrame
    <3>2. pck5 => fn > 14
      BY DEF ResultInv
    <3>3. fn > 14 => fn' > 14
      BY <1>1
    <3> QED
      BY <3>1, <3>2, <3>3, Zenon
  <2> QED
    BY <2>1, <2>2, <2>3
<1> QED
  BY <1>2, <1>3, <1>4, <1>5, <1>6, <1>7, Zenon DEF ResultInv

LEMMA ResultInvStep ==
    ASSUME BootTypeOK, OscInv, MasterInv, ResultInv, [BootNext]_bootVars
    PROVE  ResultInv'
<1>1. CASE Hardware
  <2>1. /\ config' = config /\ fn' = fn /\ fws' = fws /\ SystemCoreClock' = SystemCoreClock
        /\ wdt' = wdt /\ brgr' = brgr /\ pck5' = pck5
    BY <1>1 DEF Hardware, HwMaster, HwOscillator, HwMain, HwSlow, HwLock, HwRest
  <2>2. fn > 8 /\ config.source # "UPLLCK" => SystemCoreClock' = CoreClock'
    <3>1. fn \in Nat
      BY DEF BootTypeOK, Functions
    <3>2. fn > 8 => fn > 7
      BY <3>1
    <3> QED
      BY <1>1, <2>1, <3>2, CoreClockStays DEF ResultInv
  <2> QED
    BY <2>1, <2>2, Zenon DEF ResultInv
<1>2. CASE HwWatchdog
  <2>1. /\ fn' = 1 /\ pck5' = FALSE /\ wdt' /\ brgr'.cd = 0
    BY <1>2, Zenon DEF HwWatchdog, Reset
  <2> QED
    BY <2>1 DEF ResultInv
<1>3. CASE UNCHANGED bootVars
  <2>1. CoreClock' = CoreClock
    BY <1>3 DEF bootVars, clockVars, CoreClock, CoreSourceHz
  <2> QED
    BY <1>3, <2>1, Zenon DEF bootVars, clockVars, ResultInv
<1> QED
  BY <1>1, <1>2, <1>3, ResultInvProcessor DEF BootNext

LEMMA ResultInvInit == BootInit => ResultInv
<1> SUFFICES ASSUME BootInit PROVE ResultInv
  OBVIOUS
<1>1. fn = 1 /\ wdt = TRUE /\ pck5 = FALSE /\ brgr.cd = 0
  BY Zenon DEF BootInit, Reset
<1> QED
  BY <1>1 DEF ResultInv

\* The invariant is inductive.
LEMMA Inductive ==
    /\ BootInit => IInv
    /\ IInv /\ [BootNext]_bootVars => IInv'
<1>1. BootInit => IInv
  BY BootInitTypes, OscInvInit, PllInvInit, MasterInvInit, ResultInvInit DEF IInv
<1>2. IInv /\ [BootNext]_bootVars => IInv'
  BY BootTypes, OscInvStep, PllInvStep, MasterInvStep, ResultInvStep DEF IInv
<1> QED
  BY <1>1, <1>2

-----------------------------------------------------------------------------
(* What the invariant says of the clocks.                                  *)

\* Dividing by the prescaler and then by the division is dividing by both.
LEMMA DoubleDivision ==
    ASSUME NEW x \in Nat, NEW p \in {1, 2, 3, 4, 8, 16, 32, 64}, NEW d \in 1 .. 4
    PROVE  (x \div p) \div d = x \div (p * d)
  BY SMTT(30)

LEMMA DivisionShrinks ==
    ASSUME NEW x \in Nat, NEW d \in Nat \ {0}
    PROVE  x \div d <= x
  BY SMTT(30)

\* From osc_wait_ready on the main clock is the configuration's oscillator, until
\* then one of the chip's: never above 12 MHz.
LEMMA MainClock ==
    ASSUME BootTypeOK, OscInv
    PROVE  /\ MainHz \in Nat /\ MainHz <= 12 * MHz
           /\ fn > 3 /\ Oscillator(config) \notin Slow => MainHz = osc_get_rate(Oscillator(config))
<1>1. mor \in MorSettings
  BY DEF BootTypeOK
<1>2. MainHz \in Nat /\ MainHz <= 12 * MHz
  BY <1>1 DEF MorSettings, MainHz, MHz
<1>3. ASSUME fn > 3, Oscillator(config) \notin Slow
      PROVE  MainHz = osc_get_rate(Oscillator(config))
  <2> DEFINE id == Oscillator(config)
  <2>1. id \in Sources \ {"PLLACK", "UPLLCK"}
    BY Configured
  <2>2. mainck = Sel(id) /\ mor.rcf = Rcf(id)
    <3>1. fn > 2
      BY <1>3 DEF BootTypeOK, Functions
    <3> QED
      BY <1>3, <3>1 DEF OscInv
  <2> HIDE DEF id
  <2>3. MainHz = IF Sel(id) = "xtal" THEN 12 * MHz ELSE Rcf(id) * MHz
    BY <2>2 DEF MainHz
  <2>4. id \notin Slow
    BY <1>3 DEF id
  <2>5. MainHz = osc_get_rate(id)
    BY <2>1, <2>3, <2>4 DEF Sources, Sel, Rcf, osc_get_rate, Slow, SlowXtal, MHz
  <2> QED
    BY <2>5 DEF id
<1> QED
  BY <1>2, <1>3

\* The clock that the master clock is switched to has the frequency sysclk.h
\* computes for it.
LEMMA SwitchedSource ==
    ASSUME BootTypeOK, OscInv, PllInv, fn > 5
    PROVE  SourceHz(Css(config)) = sysclk_get_main_hz(config)
<1>1. fn > 4 /\ fn > 3 /\ fn > 2 /\ config.source \in Sources /\ config.pll \in PllSources
  BY ConfiguredTypes DEF BootTypeOK, Functions
<1>2. CASE config.source = "PLLACK"
  <2>1. MainHz = osc_get_rate(config.pll)
    BY <1>1, <1>2, MainClock DEF Oscillator, PllSources, Slow, SlowXtal
  <2>2. plla.mul = config.mul /\ plla.div = config.pdiv
    BY <1>1, <1>2 DEF PllInv
  <2>3. Css(config) = "plla"
    BY <1>2 DEF Css, Slow, SlowXtal
  <2>4. SourceHz("plla") = (MainHz * plla.mul) \div plla.div
    BY DEF SourceHz
  <2>5. sysclk_get_main_hz(config) = (osc_get_rate(config.pll) * config.mul) \div config.pdiv
    BY <1>2 DEF sysclk_get_main_hz
  <2> QED
    BY <2>1, <2>2, <2>3, <2>4, <2>5, Zenon
<1>3. CASE config.source = "UPLLCK"
  BY <1>3 DEF SourceHz, Css, sysclk_get_main_hz, Slow, SlowXtal
<1>4. CASE config.source \in Slow
  <2>1. slck.now = IF config.source \in SlowXtal THEN "xtal" ELSE "rc"
    <3>1. slck \in SlckSettings
      BY DEF BootTypeOK
    <3> QED
      BY <1>1, <3>1 DEF OscInv, SlckSettings
  <2>2. SourceHz("slow") = IF config.source \in SlowXtal THEN 32768 ELSE 32000
    BY <2>1 DEF SourceHz
  <2> QED
    BY <1>4, <2>2 DEF Css, Slow, SlowXtal, sysclk_get_main_hz, osc_get_rate
<1>5. CASE config.source \notin Slow \cup {"PLLACK", "UPLLCK"}
  <2>1. MainHz = osc_get_rate(config.source)
    BY <1>1, <1>5, MainClock DEF Oscillator
  <2> QED
    BY <1>5, <2>1 DEF SourceHz, Css, sysclk_get_main_hz
<1> QED
  BY <1>2, <1>3, <1>4, <1>5

\* A clock that is not a PLL's is slow enough for no wait state at all; a PLL's
\* runs core and bus at the configuration's frequencies.
LEMMA Speeds ==
    ASSUME IInv
    PROVE  \/ /\ mck.css \notin Fast
              /\ Hclk \in Nat /\ Mck \in Nat /\ Hclk <= 12 * MHz /\ Mck <= 12 * MHz
           \/ /\ mck.css \in Fast /\ mck.css = Css(config) /\ fn > 6
              /\ Hclk = sysclk_get_cpu_hz(config)
              /\ Mck = sysclk_get_peripheral_hz(config)
              /\ Mck = FinalHz(config)
<1>1. /\ mck \in MckrSettings /\ mck.pres \in Nat \ {0} /\ mck.pres * mck.mdiv \in Nat \ {0}
      /\ fn \in Nat
  <2>1. mck \in MckrSettings /\ fn \in Nat
    BY DEF IInv, BootTypeOK, Functions
  <2>2. mck.pres \in Nat \ {0} /\ mck.mdiv \in Nat \ {0}
    BY <2>1 DEF MckrSettings
  <2> QED
    BY <2>1, <2>2
<1>2. CASE mck.css \notin Fast
  <2>1. SourceHz(mck.css) \in Nat /\ SourceHz(mck.css) <= 12 * MHz
    BY <1>1, <1>2, MainClock DEF IInv, SourceHz, MckrSettings, Fast, MHz
  <2> DEFINE hz == SourceHz(mck.css)
             pd == mck.pres * mck.mdiv
  <2> HIDE DEF hz, pd
  <2>2. /\ hz \div mck.pres \in Nat /\ hz \div mck.pres <= hz
        /\ hz \div pd \in Nat /\ hz \div pd <= hz
    BY <1>1, <2>1, DivisionNat, DivisionShrinks DEF hz, pd
  <2>3. Hclk = hz \div mck.pres /\ Mck = hz \div pd
    BY DEF Hclk, Mck, hz, pd
  <2> QED
    BY <1>2, <2>1, <2>2, <2>3 DEF hz, MHz
<1>3. CASE mck.css \in Fast
  <2>1. /\ mck.css = Css(config) /\ mck.pres = config.pres /\ mck.mdiv = config.div
        /\ fn > 6
    BY <1>1, <1>3 DEF IInv, MasterInv, Passing, Fast
  <2>2. fn > 5
    BY <1>1, <2>1
  <2>3. SourceHz(mck.css) = sysclk_get_main_hz(config)
    BY <2>1, <2>2, SwitchedSource DEF IInv
  <2>4. Hclk = sysclk_get_cpu_hz(config) /\ Mck = sysclk_get_peripheral_hz(config)
    BY <2>1, <2>3 DEF Hclk, Mck, sysclk_get_cpu_hz, sysclk_get_peripheral_hz
  <2>5. sysclk_get_peripheral_hz(config) = FinalHz(config)
    <3>1. config \in Config
      BY Configured DEF IInv
    <3>2. sysclk_get_main_hz(config) \in Nat
      BY <3>1, ConfiguredHz
    <3> QED
      BY <3>2, ConfiguredTypes, DoubleDivision
      DEF IInv, FinalHz, sysclk_get_cpu_hz, sysclk_get_peripheral_hz
  <2> QED
    BY <1>3, <2>1, <2>4, <2>5
<1> QED
  BY <1>2, <1>3

-----------------------------------------------------------------------------
(* The properties.                                                         *)

\* The flash has its wait states: none are needed until the first are set, all of
\* them are set while the clock is switched, and the final ones suffice for the
\* configuration's clock and for any that a switch which gave up leaves.
LEMMA InvariantFlash == IInv => FlashKeepsUp
<1> SUFFICES ASSUME IInv PROVE Mck <= FlashLimit(fws)
  BY DEF FlashKeepsUp
<1>1. /\ fn \in 1 .. 16 /\ fws \in 0 .. 6
      /\ \A n \in 0 .. 6 : FlashLimit(n) >= 23 * MHz
      /\ FlashLimit(6) = 150 * MHz
  BY DEF IInv, BootTypeOK, Functions, FlashLimit, MHz
<1>2. CASE mck.css \notin Fast
  <2>1. Mck \in Nat /\ Mck <= 12 * MHz
    BY <1>2, Speeds
  <2> QED
    BY <1>1, <2>1 DEF FlashLimit, MHz
<1>3. CASE mck.css \in Fast
  <2>1. /\ fn > 6 /\ Mck = sysclk_get_peripheral_hz(config) /\ Mck = FinalHz(config)
    BY <1>3, Speeds
  <2>2. /\ sysclk_get_peripheral_hz(config) \in Nat
        /\ sysclk_get_peripheral_hz(config) <= 150 * MHz
    BY Configured, ConfiguredHz DEF IInv, Legal
  <2>3. FinalHz(config) < FlashLimit(fws) \/ fws = 6
    BY <1>1, <2>1 DEF IInv, ResultInv
  <2>4. FlashLimit(fws) \in Nat
    BY <1>1 DEF FlashLimit, MHz
  <2> QED
    BY <1>1, <2>1, <2>2, <2>3, <2>4 DEF MHz
<1> QED
  BY <1>2, <1>3

\* A PLL is selected with its final prescaler and division, after it has locked.
LEMMA InvariantRange == IInv => ClocksInRange
<1> SUFFICES ASSUME IInv PROVE ClocksInRange
  OBVIOUS
<1>1. Hclk <= CHIP_FREQ_CPU_MAX /\ Mck <= 150 * MHz
  <2>1. /\ sysclk_get_cpu_hz(config) <= CHIP_FREQ_CPU_MAX
        /\ sysclk_get_peripheral_hz(config) <= 150 * MHz
    BY Configured DEF IInv, Legal
  <2>2. CASE mck.css \notin Fast
    <3>1. Hclk \in Nat /\ Mck \in Nat /\ Hclk <= 12 * MHz /\ Mck <= 12 * MHz
      BY <2>2, Speeds
    <3> QED
      BY <3>1 DEF CHIP_FREQ_CPU_MAX, MHz
  <2>3. CASE mck.css \in Fast
    BY <2>1, <2>3, Speeds
  <2> QED
    BY <2>2, <2>3
<1>2. config.source \in Sources /\ fn \in 1 .. 16
  BY ConfiguredTypes DEF IInv, BootTypeOK, Functions
<1>3. mck.css \in Fast => mck.css = Css(config) /\ fn > 5
  BY <1>2, Speeds
<1>4. mck.css = "plla" => plla.lock
  <2>1. mck.css = "plla" => config.source = "PLLACK" /\ fn > 5
    BY <1>2, <1>3 DEF Fast, Css, Slow, SlowXtal
  <2> QED
    BY <2>1, Zenon DEF IInv, PllInv
<1>5. mck.css = "upll" => upll.lock
  <2>1. mck.css = "upll" => config.source = "UPLLCK" /\ fn > 5
    BY <1>2, <1>3 DEF Fast, Css, Slow, SlowXtal
  <2> QED
    BY <2>1, Zenon DEF IInv, PllInv
<1>6. pck5 /\ config.source = "PLLACK" => plla.lock
  <2>1. pck5 => fn > 5
    BY <1>2 DEF IInv, ResultInv
  <2> QED
    BY <2>1, Zenon DEF IInv, PllInv
<1> QED
  BY <1>1, <1>4, <1>5, <1>6, Zenon DEF ClocksInRange

\* SystemCoreClockUpdate reads the registers that, from there on, are in effect.
LEMMA InvariantCore == IInv => CoreClockIsHclk
<1> SUFFICES ASSUME IInv, ~wdt, mck = mckr, config.source # "UPLLCK"
             PROVE  SystemCoreClock = Hclk
  BY DEF CoreClockIsHclk
<1>1. fn \in Nat /\ fn > 10
  BY DEF IInv, BootTypeOK, Functions, ResultInv
<1>2. SystemCoreClock = CoreClock /\ mainck = mor.sel
  BY <1>1 DEF IInv, ResultInv, OscInv
<1>3. mckr.css \in {"slow", "main", "plla"}
  <2>1. mckr \in MckrSettings
    BY DEF IInv, BootTypeOK
  <2> QED
    BY <2>1, ConfiguredTypes
    DEF IInv, MasterInv, Passing, Css, MckrSettings, Slow, SlowXtal, Sources
<1>4. CoreSourceHz = SourceHz(mckr.css)
  BY <1>2, <1>3 DEF CoreSourceHz, SourceHz, MainHz
<1> QED
  BY <1>2, <1>4 DEF CoreClock, Hclk

\* The divider nearest to the baud rate: its error is at most half an eighth.
Nearest(hz, over, cd, fp) ==
    LET set  == over * CONF_UART_BAUDRATE * (8 * cd + fp)
        half == over * (CONF_UART_BAUDRATE \div 2)
    IN  8 * hz <= set + half /\ set <= 8 * hz + half

LEMMA NearestDivider ==
    ASSUME NEW hz \in Nat, NEW over \in {8, 16}, NEW n \in Nat,
           n = (8 * hz + (over * CONF_UART_BAUDRATE) \div 2) \div (over * CONF_UART_BAUDRATE)
    PROVE  Nearest(hz, over, n \div 8, n % 8)
<1>1. 8 * (n \div 8) + (n % 8) = n
  BY SMTT(30)
<1>2. CASE over = 8
  <2>1. n = (8 * hz + 460800) \div 921600
    BY <1>2, SMTT(30) DEF CONF_UART_BAUDRATE
  <2>2. 8 * hz <= 921600 * n + 460800 /\ 921600 * n <= 8 * hz + 460800
    BY <2>1, SMTT(30)
  <2> QED
    BY <1>1, <1>2, <2>2, SMTT(30) DEF Nearest, CONF_UART_BAUDRATE
<1>3. CASE over = 16
  <2>1. n = (8 * hz + 921600) \div 1843200
    BY <1>3, SMTT(30) DEF CONF_UART_BAUDRATE
  <2>2. 8 * hz <= 1843200 * n + 921600 /\ 1843200 * n <= 8 * hz + 921600
    BY <2>1, SMTT(30)
  <2> QED
    BY <1>1, <1>3, <2>2, SMTT(30) DEF Nearest, CONF_UART_BAUDRATE
<1> QED
  BY <1>2, <1>3

\* A switch that did not give up reached the frequency the console assumed.
LEMMA InvariantBaud == IInv => BaudMatchesClock
<1> SUFFICES ASSUME IInv, brgr.cd # 0, Reached
             PROVE  Nearest(Mck, brgr.over, brgr.cd, brgr.fp)
  BY Zenon DEF BaudMatchesClock, Nearest
<1> DEFINE hz == sysclk_get_peripheral_hz(config)
<1>1. fn \in Nat /\ fn > 11 /\ brgr = usart_set_async_baudrate(CONF_UART_BAUDRATE, hz)
  BY DEF IInv, BootTypeOK, Functions, ResultInv
<1>2. hz \in Nat
  BY Configured, ConfiguredHz DEF IInv
<1>3. Mck = hz
  <2>1. CASE Switched
    <3>1. mck.pres = config.pres /\ mck.mdiv = config.div /\ mck.css = Css(config)
      BY <1>1, <2>1 DEF IInv, MasterInv, Reached
    <3>2. fn > 5
      BY <1>1
    <3>3. SourceHz(mck.css) = sysclk_get_main_hz(config)
      BY <3>1, <3>2, SwitchedSource DEF IInv
    <3> QED
      BY <3>1, <3>3 DEF Mck, sysclk_get_peripheral_hz
  <2>2. CASE ~Switched
    <3>1. config.source = "MAINCK_4M_RC" /\ config.pres = 1 /\ config.div = 1
      BY <2>2 DEF Switched, Reached
    <3>2. mck.css = "main" /\ mck.pres = 1 /\ mck.mdiv = 1
      BY <2>2, ResetPasses DEF IInv, MasterInv
    <3>3. fn > 5 /\ Css(config) = "main"
      BY <1>1, <3>1 DEF Css, Slow, SlowXtal
    <3>4. SourceHz(mck.css) = sysclk_get_main_hz(config)
      BY <3>2, <3>3, SwitchedSource DEF IInv
    <3> QED
      BY <3>1, <3>2, <3>4 DEF Mck, sysclk_get_peripheral_hz
  <2> QED
    BY <2>1, <2>2
<1> HIDE DEF hz
<1> DEFINE over == Over(hz)
           n    == Eighths(hz)
<1>4. brgr = Divider(over, n) /\ over \in {8, 16} /\ n \in Nat
  BY <1>1, <1>2, ConsoleDivider DEF hz
<1>5. n = (8 * hz + (over * CONF_UART_BAUDRATE) \div 2) \div (over * CONF_UART_BAUDRATE)
  BY Zenon DEF Eighths
<1> HIDE DEF over, n
<1>6. brgr.over = over /\ brgr.cd = n \div 8 /\ brgr.fp = n % 8
  BY <1>4 DEF Divider
<1>7. Nearest(hz, over, n \div 8, n % 8)
  BY <1>2, <1>4, <1>5, NearestDivider, Zenon
<1> QED
  BY <1>3, <1>6, <1>7, Zenon

\* Whatever times out, and at every moment of the switch, the flash has the wait
\* states that its clock needs: with sysclk_init's order of its calls, for every
\* setting of conf_clock.h within the limits of the chip.
THEOREM FlashWaits == BootSpec => []FlashKeepsUp
<1> QED
  BY Inductive, InvariantFlash, PTL DEF BootSpec

\* No step of the start-up overclocks core or bus, runs them from a PLL that is
\* not locked, or enables the CAN core's clock from one.
THEOREM ClocksLegal == BootSpec => []ClocksInRange
<1> QED
  BY Inductive, InvariantRange, PTL DEF BootSpec

\* From board_init on, SystemCoreClock is the clock of the core whenever the
\* master clock has settled, also after a switch that gave up.
THEOREM CoreClockRight == BootSpec => []CoreClockIsHclk
<1> QED
  BY Inductive, InvariantCore, PTL DEF BootSpec

\* Where no switch gave up, the divider of the console is the nearest one to
\* 115200 baud at the clock the UART really has.
THEOREM BaudRight == BootSpec => []BaudMatchesClock
<1> QED
  BY Inductive, InvariantBaud, PTL DEF BootSpec

=============================================================================
