---- MODULE MCRxDevices ----
EXTENDS RxDevices
MCRxStdDenom == [r \in RxRates |-> IF r = RxBindRate THEN 2 ELSE 4]
====
