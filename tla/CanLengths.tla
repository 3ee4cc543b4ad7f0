----------------------------- MODULE CanLengths -----------------------------
(***************************************************************************)
(* The data length codes of can_controller.c.  They are functions of one   *)
(* byte, and need no run: CanControllerProofs proves that the conversions  *)
(* agree.                                                                  *)
(***************************************************************************)
EXTENDS Integers

can_length_to_dlc(length) ==
    IF length <= 8 THEN length
    ELSE IF length <= 12 THEN 9
    ELSE IF length <= 16 THEN 10
    ELSE IF length <= 20 THEN 11
    ELSE IF length <= 24 THEN 12
    ELSE IF length <= 32 THEN 13
    ELSE IF length <= 48 THEN 14
    ELSE 15

\* msg_length
can_dlc_to_length(dlc) ==
    IF dlc <= 8 THEN dlc
    ELSE <<12, 16, 20, 24, 32, 48, 64>>[dlc - 8]

=============================================================================
