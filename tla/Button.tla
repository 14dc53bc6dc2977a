------------------------------- MODULE Button -------------------------------
(***************************************************************************)
(* The button of either device (devButton.c), sampled by its device        *)
(* timeout: three samples make an edge, long presses repeat while it is    *)
(* held, and the third of a hold begins binding. The actions after ten and *)
(* 24 of them are not registered, and none is on short presses.            *)
(***************************************************************************)
EXTENDS Naturals

CONSTANTS
  LongTime,    \* MS_LONG, in units of MS_DEBOUNCE
  MultiTime,   \* MS_MULTI_TIMEOUT
  MaxGap,      \* bound on the time between two samples
  MaxHold,     \* bound on the time the button is held
  CountMod     \* 256, or any number more than the long presses of a hold

ASSUME ButtonAssumption ==
  /\ LongTime \in Nat /\ MultiTime \in Nat /\ MaxGap \in Nat \ {0}
  /\ MaxHold \in Nat /\ CountMod \in Nat
  /\ MaxHold > 3 * (LongTime + MaxGap) /\ MaxHold < LongTime * CountMod

VARIABLES
  button,    \* _state, the time since _lastFallingEdge, _isLongPress, the two counts
  hold       \* history: samples pressed in a row, the time since the second, bindings begun

buttonVars == <<button, hold>>

Pressed == 0
StateFall == <<1, 0, 0>>
StateRise == <<0, 1, 1>>
StateHeld == <<0, 0, 0>>
NoHold == [samples |-> 0, time |-> 0, bindings |-> 0]
Lesser(a, b) == IF a < b THEN a ELSE b
-----------------------------------------------------------------------------
\* Mutant of Fallen: the long presses of the last hold still count.
FallenKeepsCount(b) == [b EXCEPT !.since = 0]

Fallen(b) == [b EXCEPT !.since = 0, !.longs = 0]

Risen(b) == [b EXCEPT !.long = FALSE, !.shorts = IF b.long THEN @ ELSE (@ + 1) % CountMod]

LongDue(b) == b.state = StateHeld /\ b.since > LongTime
LongPressed(b) == [b EXCEPT !.long = TRUE, !.since = 0, !.longs = (@ + 1) % CountMod]

\* handlePress: ACTION_BIND is for a count of two long presses before this one.
BindsNow(b) == LongDue(b) /\ b.longs = 2

Updated(b) ==
  CASE b.state = StateRise -> Risen(b)
    [] b.state = StateFall -> Fallen(b)
    [] LongDue(b) -> LongPressed(b)
    [] OTHER -> b

\* update, gap after the last time, the pin read as level.
Update(level, gap) ==
  LET s == button.since + gap
      b == [button EXCEPT !.since = Lesser(s, LongTime + MultiTime + 1),
                          !.shorts = IF s > MultiTime THEN 0 ELSE @,
                          !.state = <<@[2], @[3], level>>]
  IN /\ button' = Updated(b)
     /\ hold' = IF level # Pressed THEN NoHold
                ELSE [samples |-> Lesser(hold.samples + 1, 2),
                      time |-> IF hold.samples = 2 THEN hold.time + gap ELSE 0,
                      bindings |-> hold.bindings + (IF BindsNow(b) THEN 1 ELSE 0)]

Sample == hold.time < MaxHold - MaxGap /\ \E level \in {0, 1}, gap \in 1..MaxGap : Update(level, gap)

\* It is let go at the latest at the bound.
Release == hold.time >= MaxHold - MaxGap /\ Update(1, 1)

ButtonInit ==
  /\ button = [state |-> <<1, 1, 1>>, since |-> 0, long |-> FALSE, longs |-> 0, shorts |-> 0]
  /\ hold = NoHold
ButtonNext == Sample \/ Release
ButtonSpec == ButtonInit /\ [][ButtonNext]_buttonVars
-----------------------------------------------------------------------------
\* The variables hold values of their types.
ButtonTypeOK ==
  /\ button.state \in [1..3 -> {0, 1}] /\ button.since \in 0..(LongTime + MultiTime + 1)
  /\ button.long \in BOOLEAN /\ button.longs \in 0..CountMod - 1 /\ button.shorts \in 0..CountMod - 1
  /\ hold \in [samples : 0..2, time : 0..MaxHold, bindings : Nat]

\* Whatever was pressed before, and however late the samples: binding begins once in
\* a hold, after three long presses of it and not of several, and does not fail to.
BindsByLongHold ==
  /\ hold.bindings <= 1
  /\ hold.bindings = 1 => hold.time > 3 * LongTime
  /\ hold.time >= 3 * (LongTime + MaxGap) => hold.bindings = 1
=============================================================================
