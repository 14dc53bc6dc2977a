------------------------------ MODULE Binding ------------------------------
(***************************************************************************)
(* Binding: the transmitter repeats its UID on the binding channel, and a  *)
(* receiver in binding mode takes it over and stores it. A receiver enters *)
(* binding mode when it is not bound, on request, or when it has been      *)
(* started three times without running for two seconds; the count of quick *)
(* starts is kept in a flash sector of its own.                            *)
(*                                                                         *)
(* A settings commit erases the sector and then writes it: a power failure *)
(* between the two leaves it blank.                                        *)
(***************************************************************************)
EXTENDS Integers

CONSTANTS
  OldUid, MasterUid,   \* the UID the receiver may be bound to; the transmitter's
  NoUid, Blank,        \* not bound; an erased settings sector
  BindingSpamAmount,
  MaxStarts, MaxPowerCuts, MaxEdits, MaxBinds   \* bounds

\* The chip id the transmitter's UID is made of is not zero.
ASSUME BindAssumption == /\ BindingSpamAmount \in Nat \ {0}
                         /\ MasterUid # NoUid /\ Blank \notin {OldUid, MasterUid, NoUid}
                         /\ MaxStarts \in Nat /\ MaxPowerCuts \in Nat
                         /\ MaxEdits \in Nat /\ MaxBinds \in Nat

QuickStarts == 3
Uids == {OldUid, MasterUid, NoUid}

VARIABLES
  flash,     \* the UID in the receiver's settings sector
  zeros,     \* the quick starts counted in the other sector
  rx,        \* the receiver's RAM; heard and asked are history
  bindTx,    \* the transmitter; aired is history
  used,      \* how much of each bound is used up
  quick,     \* history: starts since the receiver last ran for two seconds
  wasBound   \* history: the settings sector has held a UID

bindVars == <<flash, zeros, rx, bindTx, used, quick, wasBound>>
receiver == <<flash, zeros, rx, quick, wasBound>>

Off == [on |-> FALSE, uid |-> NoUid, live |-> NoUid, modified |-> FALSE, count |-> 0,
        clearDue |-> FALSE, InBindingMode |-> FALSE, tuned |-> FALSE,
        heard |-> FALSE, asked |-> FALSE]
Bounds == {"starts", "cuts", "edits", "binds"}
Spend(what, limit) == used[what] < limit /\ used' = [used EXCEPT ![what] = @ + 1]
-----------------------------------------------------------------------------
(* The receiver's settings, config.c *)

\* RxConfig.Load: a blank sector gives the defaults, which are written back.
LoadedUid == IF flash = Blank THEN NoUid ELSE flash

\* SetPowerOnCounter: a bound receiver counts the start, up to three.
CountedStarts == IF LoadedUid # NoUid /\ zeros < QuickStarts THEN zeros + 1 ELSE zeros

\* Commit, with the rest of the handler in r: nothing is written unless modified.
Commit(r) ==
  /\ flash' = IF rx.modified THEN rx.uid ELSE flash
  /\ rx' = [r EXCEPT !.modified = FALSE]
  /\ wasBound' = (wasBound \/ flash' # NoUid)

\* Power fails while a commit has erased the sector and not yet written it.
CommitCutOff ==
  /\ rx.on /\ rx.modified
  /\ Spend("cuts", MaxPowerCuts)
  /\ flash' = Blank
  /\ rx' = Off
  /\ UNCHANGED <<zeros, bindTx, quick, wasBound>>
-----------------------------------------------------------------------------
(* The receiver, rx_main.c *)

\* setup: setupConfigAndPocCheck and setupBindingFromConfig.
RxStart ==
  /\ ~rx.on
  /\ Spend("starts", MaxStarts)
  /\ flash' = LoadedUid
  /\ zeros' = CountedStarts
  /\ rx' = [Off EXCEPT !.on = TRUE, !.uid = LoadedUid, !.live = LoadedUid,
                       !.count = CountedStarts, !.clearDue = TRUE]
  /\ quick' = quick + 1
  /\ UNCHANGED <<bindTx, wasBound>>

\* Power fails while the count is stored: its sector is erased first.
RxStartCutOff ==
  /\ ~rx.on
  /\ LoadedUid # NoUid /\ zeros < QuickStarts
  /\ Spend("starts", MaxStarts)
  /\ zeros' = 0
  /\ quick' = quick + 1
  /\ UNCHANGED <<flash, rx, bindTx, wasBound>>

RxPowerOff == rx.on /\ rx' = Off /\ UNCHANGED <<flash, zeros, bindTx, used, quick, wasBound>>

\* EnterBindingMode commits what is pending; the radio follows at its next event.
EnterRxBindingMode(asked) ==
  /\ Commit([rx EXCEPT !.InBindingMode = TRUE, !.tuned = FALSE, !.heard = FALSE,
                       !.asked = asked])
  /\ UNCHANGED <<zeros, bindTx, used, quick>>

\* EnterRxBindingModeSafely: the button, the serial port or the parameter menu.
RequestBinding == rx.on /\ ~rx.InBindingMode /\ EnterRxBindingMode(TRUE)

\* updateBindingMode, in the order of its conditions.
MustExit == rx.InBindingMode /\ rx.modified
CountedOut == ~rx.InBindingMode /\ rx.count >= QuickStarts
NotBound == ~rx.InBindingMode /\ rx.live = NoUid

ExitRxBindingMode ==
  /\ rx.on /\ MustExit
  /\ Commit([rx EXCEPT !.InBindingMode = FALSE, !.tuned = FALSE])
  /\ UNCHANGED <<zeros, bindTx, used, quick>>

UpdateBindingMode == ExitRxBindingMode \/ (rx.on /\ (CountedOut \/ NotBound) /\ EnterRxBindingMode(FALSE))

\* devRadioRx: the event of the mode change tunes the radio.
RxRadioFollows ==
  /\ rx.on /\ rx.InBindingMode /\ ~rx.tuned
  /\ rx' = [rx EXCEPT !.tuned = TRUE]
  /\ UNCHANGED <<flash, zeros, bindTx, used, quick, wasBound>>

\* Mutant of ClearPowerOnCounter: the erasure waits for a commit that never comes.
ClearPowerOnCounterKeeps ==
  /\ rx.on /\ rx.clearDue
  /\ ~MustExit /\ ~CountedOut /\ ~NotBound
  /\ quick' = 0
  /\ Commit([rx EXCEPT !.clearDue = FALSE, !.count = 0])
  /\ UNCHANGED <<zeros, bindTx, used>>

\* ClearPowerOnCounter, deferred by two seconds. In the loop it comes after
\* updateBindingMode, which has then nothing left to do.
ClearPowerOnCounter ==
  /\ rx.on /\ rx.clearDue
  /\ ~MustExit /\ ~CountedOut /\ ~NotBound
  /\ quick' = 0
  /\ zeros' = IF rx.count # 0 THEN 0 ELSE zeros
  /\ IF rx.count # 0
     THEN Commit([rx EXCEPT !.clearDue = FALSE, !.count = 0])
     ELSE rx' = [rx EXCEPT !.clearDue = FALSE] /\ UNCHANGED <<flash, wasBound>>
  /\ UNCHANGED <<bindTx, used>>

\* A setting is changed over the serial port or by an MSP write: UpdateModelMatch.
EditSetting ==
  /\ rx.on /\ Spend("edits", MaxEdits)
  /\ rx' = [rx EXCEPT !.modified = TRUE]
  /\ UNCHANGED <<flash, zeros, bindTx, quick, wasBound>>

CheckConfigChangePending ==
  /\ rx.on /\ rx.modified /\ ~rx.InBindingMode
  /\ Commit(rx)
  /\ UNCHANGED <<zeros, bindTx, used, quick>>
-----------------------------------------------------------------------------
(* The transmitter, tx_main.c and devRadioTx.c *)

\* EnterBindingMode. The radio is initialised again at its next event, which comes
\* before its next turn: in this one it can still report a packet it has sent.
EnterTxBindingMode ==
  /\ ~bindTx.InBindingMode /\ Spend("binds", MaxBinds)
  /\ bindTx' = [bindTx EXCEPT !.InBindingMode = TRUE, !.restart = "soon",
                              !.BindingSendCount = 0, !.aired = 0]
  /\ UNCHANGED receiver

\* devRadioTx event: what is pending is dropped (ClearTxPayloadPending).
TxRadioFollows ==
  /\ bindTx.restart # "no"
  /\ bindTx' = [bindTx EXCEPT !.restart = "no", !.pending = "none",
                              !.channel = IF bindTx.InBindingMode THEN "binding" ELSE "link"]
  /\ UNCHANGED <<receiver, used>>

\* SendRCdataToRF: in binding mode the UID, and nothing else.
QueuePacket ==
  /\ bindTx.pending = "none"
  /\ bindTx' = [bindTx EXCEPT !.pending = IF bindTx.InBindingMode THEN "uid" ELSE "rc"]
  /\ UNCHANGED <<receiver, used>>

\* Mutant of SentEnough: one packet fewer.
SentAlmostEnough == bindTx.InBindingMode /\ bindTx.BindingSendCount >= BindingSpamAmount

\* The loop looks once in every pass, and a pass takes one TX_DONE at most.
SentEnough == bindTx.InBindingMode /\ bindTx.BindingSendCount > BindingSpamAmount
OnTheAir == bindTx.pending = "uid" /\ bindTx.channel = "binding"
Listening == rx.on /\ rx.InBindingMode /\ rx.tuned

\* Mutant of Sent: the count is forgotten.
SentUncounted(t) == t

\* TX_DONE: in binding mode every packet sent counts.
Sent(t) == [t EXCEPT !.BindingSendCount = @ + 1]

\* A receiver that hears the UID takes it over at once; its loop will store it.
OnELRSBindMSP ==
  rx' = [rx EXCEPT !.uid = MasterUid, !.live = MasterUid, !.modified = TRUE, !.heard = TRUE]

\* The packet goes out and is heard or lost.
TxDone ==
  /\ bindTx.pending # "none" /\ bindTx.restart # "now" /\ ~SentEnough
  /\ LET t == [bindTx EXCEPT !.pending = "none", !.aired = IF OnTheAir /\ @ < BindingSpamAmount THEN @ + 1 ELSE @,
                             !.restart = IF @ = "soon" THEN "now" ELSE @]
     IN bindTx' = IF bindTx.InBindingMode THEN Sent(t) ELSE t
  /\ UNCHANGED rx \/ (OnTheAir /\ Listening /\ OnELRSBindMSP)
  /\ UNCHANGED <<flash, zeros, used, quick, wasBound>>

ExitTxBindingMode ==
  /\ SentEnough
  /\ bindTx' = [bindTx EXCEPT !.InBindingMode = FALSE, !.restart = "now"]
  /\ UNCHANGED <<receiver, used>>
-----------------------------------------------------------------------------
BindInit ==
  /\ flash \in {OldUid, NoUid} /\ zeros = 0 /\ rx = Off
  /\ bindTx = [InBindingMode |-> FALSE, BindingSendCount |-> 0, restart |-> "no",
               pending |-> "none", channel |-> "link", aired |-> 0]
  /\ used = [w \in Bounds |-> 0]
  /\ quick = 0 /\ wasBound = (flash # NoUid)

RxStep == UpdateBindingMode \/ RxRadioFollows \/ ClearPowerOnCounter \/ CheckConfigChangePending
TxStep == TxRadioFollows \/ QueuePacket \/ TxDone \/ ExitTxBindingMode
BindNext ==
  \/ RxStart \/ RxStartCutOff \/ RxPowerOff \/ CommitCutOff \/ RequestBinding \/ EditSetting
  \/ RxStep \/ EnterTxBindingMode \/ TxStep

\* The transmitter's loop keeps running and its radio keeps its slots.
BindSpec == BindInit /\ [][BindNext]_bindVars
BindFairSpec == BindSpec /\ WF_bindVars(TxStep)
-----------------------------------------------------------------------------
\* The variables hold values of their types.
BindTypeOK ==
  /\ flash \in Uids \cup {Blank} /\ zeros \in 0..QuickStarts
  /\ rx.uid \in Uids /\ rx.live \in Uids /\ rx.count \in 0..QuickStarts
  /\ {rx.on, rx.modified, rx.clearDue, rx.InBindingMode, rx.tuned, rx.heard, rx.asked} \subseteq BOOLEAN
  /\ bindTx.InBindingMode \in BOOLEAN /\ bindTx.restart \in {"no", "soon", "now"}
  /\ bindTx.BindingSendCount \in 0..BindingSpamAmount + 1 /\ bindTx.aired \in 0..BindingSpamAmount
  /\ bindTx.pending \in {"none", "rc", "uid"} /\ bindTx.channel \in {"link", "binding"}

\* A receiver that is bound is never thrown into binding mode by itself: only a
\* request, three starts none of which lasted two seconds, or a power failure
\* that destroyed its settings puts it there, whatever power cuts, commits and
\* restarts came before.
BindOnlyOnRequest ==
  [][(rx'.InBindingMode /\ ~rx.InBindingMode)
       => \/ rx'.asked
          \/ quick >= QuickStarts
          \/ rx.live = NoUid /\ (~wasBound \/ used.cuts > 0)]_bindVars

\* The transmitter's count of packets sent begins before its radio is on the
\* binding channel, and packets from before are counted with it; still it does
\* not leave binding mode before BindingSpamAmount packets with its UID have
\* really gone out there.
BindPacketsGoOut ==
  [][(bindTx.InBindingMode /\ ~bindTx'.InBindingMode)
       => bindTx.aired >= BindingSpamAmount]_bindVars

\* The transmitter does not stay in binding mode.
TxLeavesBinding == bindTx.InBindingMode ~> ~bindTx.InBindingMode
=============================================================================
