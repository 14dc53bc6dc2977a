---------------------------- MODULE MCRateSwitch ----------------------------
(* Small instances of RateSwitch for TLC. *)
EXTENDS RateSwitch

CONSTANTS r1, r2, r3, wide, hybrid
MCRates == {r1, r2, r3}
MCTwoRates == {r1, r2}
MCModes == {wide, hybrid}
=============================================================================
