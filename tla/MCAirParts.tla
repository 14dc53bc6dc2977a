----------------------------- MODULE MCAirParts -----------------------------
(* Small instances of the parts of AirParts for TLC. *)
EXTENDS AirParts
MCBody == <<"a", "b">>
MCLength == <<1, 2>>
MCAirRates == [interval : {1, 2}, denom : {1, 2, 4}]
=============================================================================
