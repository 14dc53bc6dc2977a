--------------------------- MODULE MCDeviceParts ---------------------------
(* Small instances of the parts of DeviceParts for TLC. Telemetry kinds: 1 GPS, *)
(* 2 PARAMETER_SETTINGS_ENTRY, 3 PARAMETER_READ, 4 a passthrough.               *)
EXTENDS DeviceParts
MCKinds == 1..4
MCSuperseding == {1, 2}
MCPrioritised == {2, 3}
MCSbusContents == {<<0, 15>>, <<15, 1>>}
MCLengths == {3, 5}
MCStdDenom == [r \in TxRates |-> IF r = BindRate THEN 2 ELSE 4]
MCRxStdDenom == [r \in RxRates |-> IF r = RxBindRate THEN 2 ELSE 4]
=============================================================================
