-------------------------- MODULE MCConfigSession --------------------------
EXTENDS ConfigSession
CONSTANTS rc, air, fast
AllConfigs == {rc, air, fast}
SlowModes == {air}
TwoSessions == <<air, rc>>
ReadFirst == <<NoTarget, air>>
OneSession == <<air>>
=============================================================================
