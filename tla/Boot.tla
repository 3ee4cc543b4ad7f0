-------------------------------- MODULE Boot --------------------------------
(***************************************************************************)
(* system_init up to the first line of the menu: sysclk_init with the      *)
(* oscillator, PLL and PMC drivers it calls, the flash wait states,        *)
(* board_init's watchdog, the baud rate of the console and the clock of    *)
(* the CAN core.  Every value of conf_clock.h that the drivers accept is a *)
(* configuration; the one kept in the repository is ShippedConfig.         *)
(*                                                                         *)
(* A driver function is the sequence of its register accesses: writes,     *)
(* endless waits for a status bit and polls that give up (PMC_TIMEOUT) and *)
(* return 1 from the function.  fn is the function of system_init that     *)
(* runs, acc its access that comes next.                                   *)
(* The actions whose names start with Hw are the clock hardware's.         *)
(***************************************************************************)
EXTENDS Naturals, Sequences

CONSTANTS
    Configs,    \* the settings of conf_clock.h to boot with
    Fed         \* sets of the external clocks that work: "main", "slow"

Sources == {"SLCK_RC", "SLCK_XTAL", "SLCK_BYPASS", "MAINCK_4M_RC", "MAINCK_8M_RC",
            "MAINCK_12M_RC", "MAINCK_XTAL", "MAINCK_BYPASS", "PLLACK", "UPLLCK"}

PllSources == {"MAINCK_4M_RC", "MAINCK_8M_RC", "MAINCK_12M_RC", "MAINCK_XTAL",
               "MAINCK_BYPASS"}

\* CONFIG_SYSCLK_SOURCE, _PRES, _DIV and CONFIG_PLL0_SOURCE, _MUL, _DIV.
Config == [source : Sources, pres : {1, 2, 3, 4, 8, 16, 32, 64}, div : 1 .. 4,
           pll : PllSources, mul : 1 .. 63, pdiv : 1 .. 255]

ShippedConfig == [source |-> "PLLACK", pres |-> 1, div |-> 2,
                  pll |-> "MAINCK_XTAL", mul |-> 25, pdiv |-> 1]

MHz == 1000000
CHIP_FREQ_CPU_MAX == 300 * MHz
CONF_UART_BAUDRATE == 115200

osc_get_rate(id) ==
    CASE id = "SLCK_RC"                       -> 32000
      [] id \in {"SLCK_XTAL", "SLCK_BYPASS"}  -> 32768
      [] id = "MAINCK_4M_RC"                  -> 4 * MHz
      [] id = "MAINCK_8M_RC"                  -> 8 * MHz
      [] OTHER                                -> 12 * MHz

\* sysclk.h computes frequencies from conf_clock.h alone.
sysclk_get_main_hz(c) ==
    CASE c.source = "PLLACK" -> (osc_get_rate(c.pll) * c.mul) \div c.pdiv
      [] c.source = "UPLLCK" -> 480 * MHz
      [] OTHER               -> osc_get_rate(c.source)

sysclk_get_cpu_hz(c)        == sysclk_get_main_hz(c) \div c.pres
sysclk_get_peripheral_hz(c) == sysclk_get_main_hz(c) \div (c.pres * c.div)

\* The limits of the chip and, where PLLA is used, the assertions of pll_config_init.
Legal(c) ==
    /\ sysclk_get_cpu_hz(c) <= CHIP_FREQ_CPU_MAX
    /\ sysclk_get_peripheral_hz(c) <= 150 * MHz
    /\ c.source = "PLLACK" =>
         LET input == osc_get_rate(c.pll) \div c.pdiv IN
           /\ 3 * MHz <= input /\ input <= 32 * MHz
           /\ 160 * MHz <= input * c.mul /\ input * c.mul <= 500 * MHz

ASSUME BootAssumption ==
    /\ Configs \subseteq Config
    /\ \A c \in Configs : Legal(c)
    /\ Fed \subseteq SUBSET {"main", "slow"}

VARIABLES
    config,    \* the configuration the firmware was built with
    fed,       \* the external clocks that work
    fn, acc,   \* the running function of system_init and its next access
    gaveUp,    \* a pmc_switch_mck function returned 1, which sysclk_init drops
    mckr,      \* PMC_MCKR: source, prescaler and division asked for
    mck,       \* the same as in effect; equal is MCKRDY
    mor,       \* CKGR_MOR: RC frequency, crystal (off, on, bypass), selection
    mainck,    \* the selection in effect; equal is MOSCSELS
    stable,    \* MOSCRCS and MOSCXTS: the oscillators that are stable
    slck,      \* SUPC: selection of the slow clock, asked for and in effect
    plla,      \* CKGR_PLLAR and LOCKA
    upll,      \* CKGR_UCKR and LOCKU
    pck5,      \* the programmable clock of the CAN core is enabled
    fws,       \* EEFC_FMR.FWS
    SystemCoreClock,
    wdt,       \* the watchdog is on
    brgr       \* US_BRGR and US_MR.OVER; cd = 0 is no baud rate

clockVars == <<mckr, mck, mor, mainck, stable, slck, plla, upll>>
bootVars  == <<config, fed, fn, acc, gaveUp, clockVars, pck5, fws, SystemCoreClock, wdt, brgr>>

-----------------------------------------------------------------------------
(* The clocks in effect.                                                   *)

MainHz == IF mainck = "xtal" THEN 12 * MHz ELSE mor.rcf * MHz

SourceHz(css) ==
    CASE css = "slow" -> IF slck.now = "xtal" THEN 32768 ELSE 32000
      [] css = "main" -> MainHz
      [] css = "plla" -> (MainHz * plla.mul) \div plla.div
      [] css = "upll" -> 480 * MHz

Hclk == SourceHz(mck.css) \div mck.pres
Mck  == SourceHz(mck.css) \div (mck.pres * mck.mdiv)

\* CHIP_FREQ_FWS_0 to _6.
FlashLimit(n) == IF n < 6 THEN 23 * (n + 1) * MHz ELSE 150 * MHz

-----------------------------------------------------------------------------
(* Accesses.                                                               *)

Write(reg, value) == [do |-> "write", reg |-> reg, value |-> value]
Wait(flag)        == [do |-> "wait",  reg |-> flag, value |-> 0]
Poll(flag)        == [do |-> "poll",  reg |-> flag, value |-> 0]

\* The PMC driver.
\* Faulty variant: a division of 2 is taken for an invalid one.
SetDivisionDefault(div) ==
    << Write("MCKR.MDIV", IF div \in {3, 4} THEN div ELSE 1), Wait("MCKRDY") >>

pmc_mck_set_division(div) ==
    << Write("MCKR.MDIV", IF div \in 1 .. 4 THEN div ELSE 1), Wait("MCKRDY") >>

\* From a slow source the prescaler comes last, to a fast one it comes first.
SwitchSourceFirst(css, pres) ==
    << Write("MCKR.CSS", css), Poll("MCKRDY"), Write("MCKR.PRES", pres), Poll("MCKRDY") >>

pmc_switch_mck_to_sclk(pres)   == SwitchSourceFirst("slow", pres)
pmc_switch_mck_to_mainck(pres) == SwitchSourceFirst("main", pres)

SwitchPrescalerFirst(css, pres) ==
    << Write("MCKR.PRES", pres), Poll("MCKRDY"), Write("MCKR.CSS", css), Poll("MCKRDY") >>

pmc_switch_mck_to_pllack(pres) == SwitchPrescalerFirst("plla", pres)
pmc_switch_mck_to_upllck(pres) == SwitchPrescalerFirst("upll", pres)

pmc_switch_sclk_to_32kxtal == << Write("SUPC", "xtal") >>

pmc_switch_mainck_to_fastrc(rcf) ==
    << Wait("MOSCRCS"), Write("MOR.RCF", rcf), Wait("MOSCRCS"), Write("MOR.SEL", "rc") >>

\* Faulty variant: a bypassed crystal is waited for too.
MainckToXtalWaits(bypass) ==
    << Write("MOR.XT", IF bypass THEN "bypass" ELSE "on"), Wait("MOSCXTS"),
       Write("MOR.SEL", "xtal") >>

pmc_switch_mainck_to_xtal(bypass) ==
    IF bypass THEN << Write("MOR.XT_SEL", "bypass") >>
              ELSE << Write("MOR.XT", "on"), Wait("MOSCXTS"), Write("MOR.SEL", "xtal") >>

osc_enable(id) ==
    CASE id = "SLCK_RC"                      -> << >>
      [] id \in {"SLCK_XTAL", "SLCK_BYPASS"} -> pmc_switch_sclk_to_32kxtal
      [] id = "MAINCK_4M_RC"                 -> pmc_switch_mainck_to_fastrc(4)
      [] id = "MAINCK_8M_RC"                 -> pmc_switch_mainck_to_fastrc(8)
      [] id = "MAINCK_12M_RC"                -> pmc_switch_mainck_to_fastrc(12)
      [] id = "MAINCK_XTAL"                  -> pmc_switch_mainck_to_xtal(FALSE)
      [] id = "MAINCK_BYPASS"                -> pmc_switch_mainck_to_xtal(TRUE)

osc_wait_ready(id) ==
    CASE id = "SLCK_RC"                      -> << >>
      [] id \in {"SLCK_XTAL", "SLCK_BYPASS"} -> << Wait("OSCSEL") >>
      [] OTHER                               -> << Wait("MOSCSELS") >>

\* pll_config_defaults and pll_enable, which stops PLLA first.
pll_enable(c, id) ==
    IF id = 0 THEN << Write("PLLA", [on |-> FALSE, mul |-> 1, div |-> 1]),
                      Write("PLLA", [on |-> TRUE, mul |-> c.mul, div |-> c.pdiv]) >>
              ELSE << Write("UPLL", TRUE) >>

\* Faulty variant: nothing is waited for.
NoWaitForLock(id) == << >>

pll_wait_for_lock(id) == << Wait(IF id = 0 THEN "LOCKA" ELSE "LOCKU") >>

system_init_flash(hz) ==
    << Write("FWS", IF hz < FlashLimit(5)
                      THEN CHOOSE n \in 0 .. 5 : /\ hz < FlashLimit(n)
                                                 /\ \A m \in 0 .. n - 1 : hz >= FlashLimit(m)
                      ELSE 6) >>

SystemCoreClockUpdate == << Write("CORE", 0) >>

\* Faulty variant: the wait states are set once, after the switch.
NoFlashBefore == << >>

\* sysclk_init sets the most wait states before it touches a clock.
FlashBefore == system_init_flash(CHIP_FREQ_CPU_MAX \div 2)

\* The branches of sysclk_init for the source, function by function.  There is
\* none for MAINCK_4M_RC; pll_enable_source enables an oscillator and waits for it.
Oscillator(c) ==
    CASE c.source = "PLLACK" -> c.pll
      [] c.source = "UPLLCK" -> "MAINCK_XTAL"
      [] OTHER               -> c.source

IfSwitched(c, f) == IF c.source = "MAINCK_4M_RC" THEN << >> ELSE f

IfPll(c, pllack, upllck) ==
    CASE c.source = "PLLACK" -> pllack
      [] c.source = "UPLLCK" -> upllck
      [] OTHER               -> << >>

SwitchMck(c) ==
    CASE c.source \in {"SLCK_RC", "SLCK_XTAL", "SLCK_BYPASS"} -> pmc_switch_mck_to_sclk(c.pres)
      [] c.source = "PLLACK" -> pmc_switch_mck_to_pllack(c.pres)
      [] c.source = "UPLLCK" -> pmc_switch_mck_to_upllck(c.pres)
      [] OTHER               -> pmc_switch_mck_to_mainck(c.pres)

\* Faulty variant: the fraction is not cut to its three bits.
UsartWideFraction(baudrate, hz) ==
    LET over == IF hz >= 16 * baudrate THEN 16 ELSE 8
        cdfp == (8 * hz + (over * baudrate) \div 2) \div (over * baudrate)
        cd   == cdfp \div 8
    IN  IF cd < 1 \/ cd > 65535 THEN [over |-> 16, cd |-> 0, fp |-> 0]
                                ELSE [over |-> over, cd |-> cd, fp |-> cdfp]

\* usart_set_async_baudrate: the divider in eighths, or cd = 0 for out of range.
usart_set_async_baudrate(baudrate, hz) ==
    LET over == IF hz >= 16 * baudrate THEN 16 ELSE 8
        cdfp == (8 * hz + (over * baudrate) \div 2) \div (over * baudrate)
        cd   == cdfp \div 8
    IN  IF cd < 1 \/ cd > 65535 THEN [over |-> 16, cd |-> 0, fp |-> 0]
                                ELSE [over |-> over, cd |-> cd, fp |-> cdfp % 8]

board_init == << Write("WDT", FALSE) >>

\* usart_init_rs232's result is dropped.
configure_console(c) ==
    << Write("USART", usart_set_async_baudrate(CONF_UART_BAUDRATE,
                                               sysclk_get_peripheral_hz(c))) >>

\* What mcan_init does to PCK5.
pmc_disable_pck          == << Write("PCK5", FALSE) >>
pmc_switch_pck_to_pllack == << Poll("PCKRDY5") >>
pmc_enable_pck           == << Write("PCK5", TRUE) >>

\* The menu is written by polling: it is out when the transmitter has a clock.
display_commands_menu == << Wait("TXRDY") >>

\* sysclk_init is the first nine.
system_init(c) ==
    << FlashBefore,
       IfSwitched(c, osc_enable(Oscillator(c))),
       IfSwitched(c, osc_wait_ready(Oscillator(c))),
       IfPll(c, pll_enable(c, 0), pll_enable(c, 1)),
       IfPll(c, pll_wait_for_lock(0), pll_wait_for_lock(1)),
       IfSwitched(c, pmc_mck_set_division(c.div)),
       IfSwitched(c, SwitchMck(c)),
       SystemCoreClockUpdate,
       system_init_flash(sysclk_get_cpu_hz(c) \div c.div),
       board_init,
       configure_console(c),
       pmc_disable_pck, pmc_switch_pck_to_pllack, pmc_enable_pck,
       display_commands_menu >>

Functions == 15

-----------------------------------------------------------------------------
(* Reset, and the steps of the processor.                                  *)

\* The state a power-on or watchdog reset leaves; the slow clock's selection is
\* in the backup domain and survives.
Reset ==
    [mckr |-> [css |-> "main", pres |-> 1, mdiv |-> 1],
     mor  |-> [rcf |-> 4, xt |-> "off", sel |-> "rc"],
     plla |-> [on |-> FALSE, mul |-> 1, div |-> 1, lock |-> FALSE],
     upll |-> [on |-> FALSE, lock |-> FALSE],
     brgr |-> [over |-> 16, cd |-> 0, fp |-> 0]]

BootInit ==
    /\ config \in Configs
    /\ fed \in Fed
    /\ fn = 1 /\ acc = 1
    /\ gaveUp = FALSE
    /\ mckr = Reset.mckr /\ mck = Reset.mckr
    /\ mor = Reset.mor /\ plla = Reset.plla /\ upll = Reset.upll /\ brgr = Reset.brgr
    /\ mainck = "rc"
    /\ stable = {"MOSCRCS"}
    /\ slck = [sel |-> "rc", now |-> "rc"]
    /\ pck5 = FALSE
    /\ fws = 0
    /\ SystemCoreClock = 4 * MHz
    /\ wdt = TRUE

Ready(flag) ==
    CASE flag = "MCKRDY"   -> mck = mckr
      [] flag = "MOSCSELS" -> mainck = mor.sel
      [] flag = "OSCSEL"   -> slck.now = slck.sel
      [] flag = "LOCKA"    -> plla.lock
      [] flag = "LOCKU"    -> upll.lock
      [] flag = "PCKRDY5"  -> plla.lock
      [] flag = "TXRDY"    -> brgr.cd # 0
      [] OTHER             -> flag \in stable

\* The accesses of the running function, and the one that comes next.
Accesses == system_init(config)[fn]
Next1    == Accesses[acc]

Proceed == IF acc < Len(Accesses) THEN fn' = fn /\ acc' = acc + 1
                                  ELSE fn' = fn + 1 /\ acc' = 1

\* A function that accesses nothing.
Empty ==
    /\ fn <= Functions /\ Accesses = << >>
    /\ Proceed
    /\ UNCHANGED <<config, fed, gaveUp, clockVars, pck5, fws, SystemCoreClock, wdt, brgr>>

\* SystemCoreClockUpdate reads the registers; it knows no UPLL.
CoreSourceHz ==
    LET main == IF mor.sel = "xtal" THEN 12 * MHz ELSE mor.rcf * MHz IN
    CASE mckr.css = "slow" -> IF slck.now = "xtal" THEN 32768 ELSE 32000
      [] mckr.css = "main" -> main
      [] mckr.css = "plla" -> (main * plla.mul) \div plla.div
      [] OTHER             -> SystemCoreClock

\* Faulty variant: every PRES is shifted by, 3 (encoded as 7) too.
CoreClockShifts == CoreSourceHz \div (IF mckr.pres = 3 THEN 128 ELSE mckr.pres)

CoreClock == CoreSourceHz \div mckr.pres

At(what) == fn <= Functions /\ Accesses # << >> /\ Next1.do = what

Written(reg, old) == IF Next1.reg = reg THEN Next1.value ELSE old

WriteStep ==
    /\ At("write")
    /\ mckr' = [css  |-> Written("MCKR.CSS", mckr.css),
                pres |-> Written("MCKR.PRES", mckr.pres),
                mdiv |-> Written("MCKR.MDIV", mckr.mdiv)]
    /\ mor' = [rcf |-> Written("MOR.RCF", mor.rcf),
               xt  |-> Written("MOR.XT", Written("MOR.XT_SEL", mor.xt)),
               sel |-> IF Next1.reg = "MOR.XT_SEL" THEN "xtal"
                                                       ELSE Written("MOR.SEL", mor.sel)]
    /\ stable' = IF Next1.reg = "MOR.RCF" THEN stable \ {"MOSCRCS"} ELSE stable
    /\ slck' = [slck EXCEPT !.sel = Written("SUPC", @)]
    /\ plla' = IF Next1.reg = "PLLA"
                 THEN [on   |-> Next1.value.on,  mul  |-> Next1.value.mul,
                       div  |-> Next1.value.div, lock |-> FALSE]
                 ELSE plla
    /\ upll' = [upll EXCEPT !.on = Written("UPLL", @)]
    /\ pck5' = Written("PCK5", pck5)
    /\ fws' = Written("FWS", fws)
    /\ SystemCoreClock' = IF Next1.reg = "CORE" THEN CoreClock ELSE SystemCoreClock
    /\ wdt' = Written("WDT", wdt)
    /\ brgr' = Written("USART", brgr)
    /\ Proceed
    /\ UNCHANGED <<config, fed, gaveUp, mck, mainck>>

WaitStep ==
    /\ At("wait") \/ At("poll")
    /\ Ready(Next1.reg)
    /\ Proceed
    /\ UNCHANGED <<config, fed, gaveUp, clockVars, pck5, fws, SystemCoreClock, wdt, brgr>>

\* PMC_TIMEOUT polls were not enough: return 1, and the caller goes on.
GiveUp ==
    /\ At("poll")
    /\ ~Ready(Next1.reg)
    /\ fn' = fn + 1 /\ acc' = 1
    /\ gaveUp' = (gaveUp \/ Next1.reg = "MCKRDY")
    /\ UNCHANGED <<config, fed, clockVars, pck5, fws, SystemCoreClock, wdt, brgr>>

Processor == Empty \/ WriteStep \/ WaitStep \/ GiveUp

-----------------------------------------------------------------------------
(* The clock hardware (external).                                          *)

HwRest == UNCHANGED <<config, fed, fn, acc, gaveUp, mckr, mor, pck5, fws, SystemCoreClock,
                      wdt, brgr>>

HwMaster ==
    /\ mck # mckr
    /\ mck' = mckr
    /\ HwRest /\ UNCHANGED <<mainck, stable, slck, plla, upll>>

HwOscillator ==
    /\ \/ stable' = stable \cup {"MOSCRCS"}
       \/ mor.xt = "on" /\ "main" \in fed /\ stable' = stable \cup {"MOSCXTS"}
    /\ stable' # stable
    /\ HwRest /\ UNCHANGED <<mck, mainck, slck, plla, upll>>

HwMain ==
    /\ mainck # mor.sel
    /\ mor.sel = "xtal" => IF mor.xt = "bypass" THEN "main" \in fed ELSE "MOSCXTS" \in stable
    /\ mainck' = mor.sel
    /\ HwRest /\ UNCHANGED <<mck, stable, slck, plla, upll>>

HwSlow ==
    /\ slck.now # slck.sel /\ "slow" \in fed
    /\ slck' = [slck EXCEPT !.now = slck.sel]
    /\ HwRest /\ UNCHANGED <<mck, mainck, stable, plla, upll>>

HwLock ==
    /\ \/ plla.on /\ ~plla.lock /\ plla' = [plla EXCEPT !.lock = TRUE] /\ UNCHANGED upll
       \/ upll.on /\ ~upll.lock /\ upll' = [upll EXCEPT !.lock = TRUE] /\ UNCHANGED plla
    /\ HwRest /\ UNCHANGED <<mck, mainck, stable, slck>>

Hardware == HwMaster \/ HwOscillator \/ HwMain \/ HwSlow \/ HwLock

\* The 16 s of the watchdog are longer than any start-up: it bites only when
\* what the processor waits for will not come.
Comes(flag) ==
    CASE flag = "MOSCXTS"  -> mor.xt = "on" /\ "main" \in fed
      [] flag = "MOSCSELS" -> mor.sel = "xtal" => "main" \in fed
      [] flag = "OSCSEL"   -> "slow" \in fed
      [] OTHER             -> TRUE

HwWatchdog ==
    /\ wdt
    /\ At("wait") /\ ~Comes(Next1.reg) /\ ~Ready(Next1.reg)
    /\ fn' = 1 /\ acc' = 1
    /\ gaveUp' = FALSE
    /\ mckr' = Reset.mckr /\ mck' = Reset.mckr
    /\ mor' = Reset.mor /\ plla' = Reset.plla /\ upll' = Reset.upll /\ brgr' = Reset.brgr
    /\ mainck' = "rc"
    /\ stable' = {"MOSCRCS"}
    /\ pck5' = FALSE
    /\ fws' = 0
    /\ SystemCoreClock' = 4 * MHz
    /\ UNCHANGED <<config, fed, slck, wdt>>

BootNext == Processor \/ Hardware \/ HwWatchdog

BootSpec == BootInit /\ [][BootNext]_bootVars

\* The processor executes, and hardware that can get ready does.
BootFairSpec ==
    /\ BootSpec
    /\ WF_bootVars(Processor)
    /\ WF_bootVars(HwMaster) /\ WF_bootVars(HwOscillator) /\ WF_bootVars(HwMain)
    /\ WF_bootVars(HwSlow) /\ WF_bootVars(HwLock)

-----------------------------------------------------------------------------
(* Properties.                                                             *)

MckrSettings == [css  : {"slow", "main", "plla", "upll"},
                 pres : {1, 2, 3, 4, 8, 16, 32, 64}, mdiv : 1 .. 4]
MorSettings  == [rcf : {4, 8, 12}, xt : {"off", "on", "bypass"}, sel : {"rc", "xtal"}]
SlckSettings == [sel : {"rc", "xtal"}, now : {"rc", "xtal"}]
PllaSettings == [on : BOOLEAN, mul : 1 .. 63, div : 1 .. 255, lock : BOOLEAN]
UpllSettings == [on : BOOLEAN, lock : BOOLEAN]
Dividers     == [over : {8, 16}, cd : 0 .. 65535, fp : 0 .. 7]

\* The processor is at an access of its function, the console's divider fits its
\* fields, and the rest has its type.
BootTypeOK ==
    /\ config \in Configs /\ fed \in Fed
    /\ fn \in 1 .. Functions + 1
    /\ acc \in Nat \ {0}
    /\ acc > 1 => fn <= Functions /\ acc <= Len(Accesses)
    /\ gaveUp \in BOOLEAN
    /\ mckr \in MckrSettings /\ mck \in MckrSettings
    /\ mor \in MorSettings /\ mainck \in {"rc", "xtal"}
    /\ stable \subseteq {"MOSCRCS", "MOSCXTS"}
    /\ slck \in SlckSettings
    /\ plla \in PllaSettings /\ upll \in UpllSettings
    /\ pck5 \in BOOLEAN
    /\ fws \in 0 .. 6
    /\ SystemCoreClock \in Nat
    /\ wdt \in BOOLEAN
    /\ brgr \in Dividers

\* At every moment of the switch, whatever times out, the flash has the wait
\* states its clock needs (sysclk_init sets the most first and the final ones
\* from the configuration, not from what was reached).
FlashKeepsUp == Mck <= FlashLimit(fws)

\* No step of the switch runs the core or the bus faster than the chip allows,
\* or from a PLL that is off or not locked; nor is the CAN core's clock enabled
\* from an unlocked PLLA, where the configuration has one.
ClocksInRange ==
    /\ Hclk <= CHIP_FREQ_CPU_MAX
    /\ Mck <= 150 * MHz
    /\ mck.css = "plla" => plla.lock
    /\ mck.css = "upll" => upll.lock
    /\ pck5 /\ config.source = "PLLACK" => plla.lock

\* Whatever a switch reached, SystemCoreClock is the clock of the core from
\* board_init on, once the master clock has settled.  (SystemCoreClockUpdate does
\* not know UPLLCK.)
CoreClockIsHclk ==
    ~wdt /\ mck = mckr /\ config.source # "UPLLCK" => SystemCoreClock = Hclk

\* The divider that the console computed from conf_clock.h alone is the nearest
\* one to 115200 baud at the clock the peripheral really has, unless a switch
\* gave up.  (MAINCK_4M_RC is not switched to: the prescaler and the division
\* that the computation assumes are not set.)
Reached == ~gaveUp /\ (config.source = "MAINCK_4M_RC" => config.pres = 1 /\ config.div = 1)

BaudMatchesClock ==
    LET set  == brgr.over * CONF_UART_BAUDRATE * (8 * brgr.cd + brgr.fp)
        half == brgr.over * (CONF_UART_BAUDRATE \div 2)
    IN  brgr.cd # 0 /\ Reached => 8 * Mck <= set + half /\ set <= 8 * Mck + half

\* The menu comes out after every reset, if the external clocks of the
\* configuration work and the console has a divider (it has none from a slow
\* clock; configure_console does not look).
Serviceable ==
    /\ \/ config.source \in {"MAINCK_XTAL", "MAINCK_BYPASS", "UPLLCK"}
       \/ config.source = "PLLACK" /\ config.pll \in {"MAINCK_XTAL", "MAINCK_BYPASS"}
       => "main" \in fed
    /\ config.source \in {"SLCK_XTAL", "SLCK_BYPASS"} => "slow" \in fed
    /\ usart_set_async_baudrate(CONF_UART_BAUDRATE, sysclk_get_peripheral_hz(config)).cd # 0

BootEnds == Serviceable ~> fn > Functions

=============================================================================
