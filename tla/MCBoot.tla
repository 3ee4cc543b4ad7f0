------------------------------- MODULE MCBoot -------------------------------
(* Configurations of conf_clock.h for TLC: the shipped one, one for each    *)
(* other source, and three whose PLL output is above what core and bus take. *)
EXTENDS Boot

With(source, pres, div) ==
    [ShippedConfig EXCEPT !.source = source, !.pres = pres, !.div = div]

MCConfigs ==
    {ShippedConfig,
     [ShippedConfig EXCEPT !.pres = 2, !.mul = 40],
     [ShippedConfig EXCEPT !.pres = 2, !.mul = 40, !.pll = "MAINCK_12M_RC"],
     [ShippedConfig EXCEPT !.pres = 3, !.div = 2, !.mul = 40, !.pll = "MAINCK_BYPASS"],
     With("UPLLCK", 2, 2),
     With("SLCK_RC", 1, 1), With("SLCK_XTAL", 4, 1), With("SLCK_BYPASS", 1, 1),
     With("MAINCK_4M_RC", 1, 1), With("MAINCK_4M_RC", 2, 2),
     With("MAINCK_8M_RC", 1, 1), With("MAINCK_12M_RC", 1, 2),
     With("MAINCK_XTAL", 1, 1), With("MAINCK_BYPASS", 2, 2)}

MCFed == SUBSET {"main", "slow"}

=============================================================================
