------------------------ MODULE ConfigSession_proofs ------------------------
(***************************************************************************)
(* Theorems about ConfigSession, for every set of configurations, every    *)
(* sequence of sessions and every bound: the record in flash and the copy  *)
(* in RAM agree, a store that has succeeded is not repeated, and what the  *)
(* configurator reports as written is written.                             *)
(*                                                                         *)
(* The argument: a SET_MODE in flight carries the target of its session;   *)
(* the frames on their way are of ever later sessions; so once the device  *)
(* has reported the target of the host's session, nothing that can still   *)
(* reach it makes it store anything else before the next session.          *)
(***************************************************************************)
EXTENDS ConfigSession, SequenceTheorems, TLAPS

-----------------------------------------------------------------------------
(* The inductive invariant *)

\* TypeOK, with the two buffers as sequences and what a step needs to know to
\* stay within the types, a variable at a time.
DevTyped == dev \in DevStates /\ (dev.storing # "no" => dev.request \in Requests)
HostTyped == /\ host \in HostStates
             /\ host.step # "closed" => host.session \in Sessions
             /\ host.waiting => host.step \in Transacting
UpTyped == up \in Seq(Requests) /\ Len(up) <= 1
DownTyped == down \in Seq(Answers)
BoundsTyped == losses \in 0..MaxLoss /\ faults \in 0..MaxFaults /\ cycles \in 0..MaxCycles
Typed == /\ flash \in Configs \cup {Blank}
         /\ DevTyped /\ HostTyped /\ UpTyped /\ DownTyped /\ BoundsTyped

\* The requests that can still have an effect on the device.
InFlight(f) == \/ up # <<>> /\ f = up[1]
               \/ f = dev.pending
               \/ f = dev.request

\* A SET_MODE carries the target of its session.
Honest(f) == f \in Requests /\ f.cmd = "SET_MODE" =>
               Target[f.chal] # NoTarget /\ f.cfg = Target[f.chal]
RequestsHonest ==
  /\ host.step = "set" => Goal # NoTarget
  /\ up # <<>> => Honest(up[1])
  /\ Honest(dev.pending)

\* Where store_config is: it began because the record was another one, and the
\* record is gone once it has been erased.
StoreInProgress ==
  dev.storing # "no" =>
    /\ dev.phase = "SESSION"
    /\ dev.request.cmd = "SET_MODE" /\ dev.request.chal = dev.chal
    /\ Honest(dev.request)
    /\ IF dev.storing = "erase"
       THEN dev.valid => flash = dev.cfg /\ flash # dev.request.cfg
       ELSE flash = Blank

\* Sessions only grow along the way of a request: host, wire, mailbox, session.
InOrder ==
  /\ dev.chal <= host.session
  /\ dev.pending # NoFrame =>
       dev.chal <= dev.pending.chal /\ dev.pending.chal <= host.session
  /\ up # <<>> =>
       /\ dev.chal <= up[1].chal /\ up[1].chal <= host.session
       /\ dev.pending # NoFrame => dev.pending.chal <= up[1].chal

\* The host has been told, or is about to be, that the target is in flash.
Tells(a) == a.chal = host.session /\ a.cmd = "GET_CONFIG" /\ a.valid /\ a.cfg = Goal
Told ==
  \/ host.step \in {"reboot", "done"} /\ Goal # NoTarget
  \/ host.step # "closed" /\ \E i \in 1..Len(down) : Tells(down[i])

\* The target is in flash, and no request of another session is on its way.
Kept ==
  /\ flash = Goal
  /\ dev.valid /\ dev.cfg = Goal /\ dev.storing = "no"
  /\ dev.chal \in {0, host.session}
  /\ dev.pending # NoFrame => dev.pending.chal = host.session
  /\ up # <<>> => up[1].chal = host.session
ToldIsKept == Told => Kept

ConfigInv == StoredMatchesRam /\ RequestsHonest /\ StoreInProgress /\ InOrder /\ ToldIsKept

-----------------------------------------------------------------------------
(* Frames, configurations and the device's states *)

LEMMA NoFrameIsNone == NoFrame \notin Requests
BY DEF NoFrame, Requests, Commands

\* A request names its session and, if it is a SET_MODE, the host's target.
LEMMA RequestFacts ==
  ASSUME Typed, host.step \in {"hello"} \cup Transacting
  PROVE  /\ RequestOf(host) \in Requests
         /\ RequestOf(host).chal = host.session
         /\ RequestOf(host).cmd = "SET_MODE" =>
              host.step = "set" /\ (Goal # NoTarget => RequestOf(host).cfg = Goal)
<1>1. host.session \in Sessions /\ Target[host.session] \in Configs \cup {NoTarget}
  BY ConfigAssumption DEF Typed, HostTyped, Sessions, Transacting
<1>2. Default \in Configs
  BY ConfigAssumption
<1>3. /\ CommandOf[host.step] \in Commands
      /\ CommandOf[host.step] = "SET_MODE" => host.step = "set"
  BY DEF CommandOf, Commands, Transacting
<1>4. SequenceOf[host.step] \in 1..6
  BY DEF SequenceOf, Transacting
<1> QED BY <1>1, <1>2, <1>3, <1>4 DEF RequestOf, Requests, Goal

LEMMA BootedFacts ==
  ASSUME NEW f \in Configs \cup {Blank}
  PROVE  /\ Booted(f) \in DevStates
         /\ Booted(f).storing = "no" /\ Booted(f).chal = 0
         /\ Booted(f).pending = NoFrame
         /\ Booted(f).valid => f = Booted(f).cfg
         /\ f # Blank => Booted(f).valid /\ Booted(f).cfg = f
         /\ ~Booted(f).running
<1>1. (IF f = Blank THEN Default ELSE f) \in Configs /\ (f # Blank) \in BOOLEAN
  BY ConfigAssumption
<1> QED BY <1>1 DEF Booted, DevStates

\* What a step may do to the host's buffer: deliver one more answer, or lose it.
LEMMA DeliverFacts ==
  ASSUME Typed, NEW a \in Answers, Deliver(a)
  PROVE  /\ down' \in Seq(Answers) /\ losses' \in 0..MaxLoss
         /\ \A i \in 1..Len(down') : \/ i \in 1..Len(down) /\ down'[i] = down[i]
                                     \/ down'[i] = a
<1>1. down \in Seq(Answers) /\ losses \in 0..MaxLoss /\ MaxLoss \in Nat
  BY BoundAssumption DEF Typed, DownTyped, BoundsTyped
<1>2. CASE down' = Append(down, a) /\ UNCHANGED losses
  BY <1>1, <1>2
<1>3. CASE down' = down
  BY <1>1, <1>3 DEF Deliver
<1> QED BY <1>2, <1>3 DEF Deliver

LEMMA AnswerFacts ==
  ASSUME NEW cmd \in Replies, NEW f \in Requests, NEW d \in DevStates, NEW ok \in BOOLEAN
  PROVE  /\ Answer(cmd, f, d, ok) \in Answers
         /\ Answer(cmd, f, d, ok).cmd = cmd /\ Answer(cmd, f, d, ok).chal = f.chal
         /\ Answer(cmd, f, d, ok).cfg = d.cfg /\ Answer(cmd, f, d, ok).valid = d.valid
BY DEF Answer, Answers, Requests, DevStates

LEMMA StoredFacts ==
  ASSUME Typed, dev.storing # "no", NEW ok \in BOOLEAN
  PROVE  /\ Stored(ok) \in DevStates
         /\ Stored(ok).valid = ok /\ Stored(ok).storing = "no"
         /\ ok => Stored(ok).cfg = dev.request.cfg
         /\ Stored(ok).pending = dev.pending /\ Stored(ok).chal = dev.chal
<1>1. dev \in DevStates /\ dev.request.cfg \in Configs /\ Default \in Configs
  BY ConfigAssumption DEF Typed, DevTyped, Requests
<1> QED BY <1>1 DEF Stored, DevStates

-----------------------------------------------------------------------------
(* Type correctness *)

LEMMA TypedImpliesTypeOK == Typed => TypeOK
BY DEF Typed, DevTyped, HostTyped, UpTyped, DownTyped, BoundsTyped, TypeOK

LEMMA TypedInit == Init => Typed
<1> SUFFICES ASSUME Init PROVE Typed
  OBVIOUS
<1>1. DevTyped
  BY BootedFacts, ConfigAssumption DEF Init, DevTyped
<1>2. HostTyped
  BY BoundAssumption DEF Init, HostTyped, HostStates, Closed
<1>3. UpTyped /\ DownTyped /\ BoundsTyped
  BY BoundAssumption DEF Init, UpTyped, DownTyped, BoundsTyped
<1> QED BY <1>1, <1>2, <1>3, ConfigAssumption DEF Init, Typed

\* The request in the mailbox is a request.
LEMMA PendingFacts ==
  ASSUME Typed
  PROVE  /\ dev.pending # NoFrame => dev.pending \in Requests
         /\ up # <<>> => up[1] \in Requests /\ Len(up) = 1
<1>1. dev.pending # NoFrame => dev.pending \in Requests
  BY DEF Typed, DevTyped, DevStates
<1>2. up # <<>> => up[1] \in Requests /\ Len(up) = 1
  BY EmptySeq DEF Typed, UpTyped
<1> QED BY <1>1, <1>2

\* A frame of the session is handled.
LEMMA HandleTyped ==
  ASSUME Typed, NEW f \in Requests, NEW d \in DevStates, d.storing = "no",
         HandleSessionFrame(f, d)
  PROVE  DevTyped' /\ DownTyped' /\ losses' \in 0..MaxLoss /\ faults' \in 0..MaxFaults
<1>1. losses \in 0..MaxLoss /\ faults \in 0..MaxFaults /\ down \in Seq(Answers)
  BY DEF Typed, BoundsTyped, DownTyped
<1>2. (Sent \/ Refused) => faults' \in 0..MaxFaults
  BY <1>1, BoundAssumption DEF Sent, Refused
<1>3. Silent => down' \in Seq(Answers) /\ losses' \in 0..MaxLoss
  BY <1>1 DEF Silent
<1>4. CASE f.cmd \in {"GET_INFO", "GET_CONFIG"} /\ dev' = d
           /\ Deliver(Answer(f.cmd, f, d, TRUE)) /\ Sent
  BY <1>2, <1>4, DeliverFacts, AnswerFacts DEF DevTyped, DownTyped, Replies
<1>5. CASE /\ f.cmd = "SET_MODE"
           /\ IF SameConfig(d, f)
              THEN dev' = d /\ Deliver(Answer("SET_MODE", f, d, TRUE))
              ELSE dev' = [d EXCEPT !.storing = "erase", !.request = f] /\ Silent
           /\ Sent
  <2>1. [d EXCEPT !.storing = "erase", !.request = f] \in DevStates
    BY DEF DevStates
  <2>2. CASE SameConfig(d, f)
    BY <1>2, <1>5, <2>2, DeliverFacts, AnswerFacts DEF DevTyped, DownTyped, Replies
  <2>3. CASE ~SameConfig(d, f)
    BY <1>2, <1>3, <1>5, <2>1, <2>3 DEF DevTyped, DownTyped, DevStates
  <2> QED BY <2>2, <2>3
<1>6. CASE f.cmd = "REBOOT" /\ dev' = [d EXCEPT !.reboot = TRUE]
           /\ Deliver(Answer("REBOOT", f, d, TRUE)) /\ Sent
  <2>1. dev' \in DevStates /\ dev'.storing = "no"
    BY <1>6 DEF DevStates
  <2> QED BY <1>2, <1>6, <2>1, DeliverFacts, AnswerFacts DEF DevTyped, DownTyped, Replies
<1>7. CASE f.cmd = "REBOOT" /\ dev' = d /\ Silent /\ Refused
  BY <1>2, <1>3, <1>7 DEF DevTyped, DownTyped
<1>8. CASE f.cmd = "HELLO" /\ dev' = d
           /\ Deliver(Answer("ERROR", f, d, FALSE)) /\ Sent
  BY <1>2, <1>8, DeliverFacts, AnswerFacts DEF DevTyped, DownTyped, Replies
<1> QED BY <1>4, <1>5, <1>6, <1>7, <1>8 DEF HandleSessionFrame

LEMMA UpdateHelloTyped == Typed /\ UpdateHello => Typed'
<1> SUFFICES ASSUME Typed, UpdateHello PROVE Typed'
  OBVIOUS
<1> USE DEF Typed
<1> DEFINE f == dev.pending
           d == [dev EXCEPT !.pending = NoFrame]
           ack == Answer("HELLO_ACK", f, dev, TRUE)
<1>1. f \in Requests /\ f.chal \in Sessions
  BY PendingFacts DEF UpdateHello, Requests
<1>2. ack \in Answers
  BY <1>1, AnswerFacts DEF DevTyped, Replies
<1>3. /\ d \in DevStates
      /\ [d EXCEPT !.phase = "SESSION", !.chal = f.chal] \in DevStates
      /\ [d EXCEPT !.phase = "SWITCH_PENDING", !.chal = f.chal, !.running = FALSE] \in DevStates
  BY <1>1 DEF DevTyped, DevStates
<1>4. /\ dev' \in {[d EXCEPT !.phase = "SESSION", !.chal = f.chal],
                   [d EXCEPT !.phase = "SWITCH_PENDING", !.chal = f.chal, !.running = FALSE], d}
      /\ Deliver(ack) \/ Silent
      /\ Sent \/ Refused
  BY DEF UpdateHello
<1>5. faults' \in 0..MaxFaults
  BY <1>4, BoundAssumption DEF Sent, Refused, BoundsTyped
<1>6. DevTyped'
  <2>1. dev'.storing = dev.storing /\ dev'.request = dev.request
    BY <1>4 DEF DevTyped, DevStates
  <2> QED BY <1>3, <1>4, <2>1 DEF DevTyped
<1>7. DownTyped' /\ losses' \in 0..MaxLoss
  BY <1>2, <1>4, DeliverFacts DEF Silent, DownTyped, BoundsTyped
<1>8. UNCHANGED <<flash, host, up, cycles>>
  BY DEF UpdateHello
<1> QED
  BY <1>5, <1>6, <1>7, <1>8 DEF HostTyped, UpTyped, BoundsTyped

LEMMA UpdateSessionTyped == Typed /\ UpdateSession => Typed'
<1> SUFFICES ASSUME Typed, UpdateSession PROVE Typed'
  OBVIOUS
<1> DEFINE d == [dev EXCEPT !.pending = NoFrame]
<1>1. dev.pending \in Requests
  BY PendingFacts DEF UpdateSession
<1>2. d \in DevStates /\ d.storing = "no"
  BY DEF Typed, DevTyped, DevStates, UpdateSession
<1>3. UNCHANGED <<flash, host, up, cycles>>
  BY DEF UpdateSession
<1>4. DevTyped' /\ DownTyped' /\ losses' \in 0..MaxLoss /\ faults' \in 0..MaxFaults
  <2>1. CASE dev.pending.chal = dev.chal
    <3>1. HandleSessionFrame(dev.pending, d)
      BY <2>1 DEF UpdateSession
    <3> QED BY <1>1, <1>2, <3>1, HandleTyped
  <2>2. CASE dev.pending.chal # dev.chal
    <3>1. dev' = d /\ Silent /\ Sent
      BY <2>2 DEF UpdateSession
    <3> QED BY <1>2, <3>1 DEF Silent, Sent, Typed, DevTyped, DownTyped, BoundsTyped
  <2> QED BY <2>1, <2>2
<1> QED BY <1>3, <1>4 DEF Typed, HostTyped, UpTyped, BoundsTyped

\* store_config: the answer to a store that has ended.
LEMMA AnswerStoreTyped ==
  ASSUME Typed, dev.storing # "no", NEW ok \in BOOLEAN, AnswerStore(ok)
  PROVE  /\ dev' = Stored(ok) /\ DevTyped'
         /\ DownTyped' /\ losses' \in 0..MaxLoss
<1>1. Stored(ok) \in DevStates /\ Stored(ok).storing = "no"
  BY StoredFacts
<1>2. Answer("SET_MODE", dev.request, Stored(ok), ok) \in Answers
  BY <1>1, AnswerFacts DEF Typed, DevTyped, Replies
<1> QED BY <1>1, <1>2, DeliverFacts DEF AnswerStore, DevTyped, DownTyped

LEMMA WriteFlashTyped == Typed /\ WriteFlash => Typed'
<1> SUFFICES ASSUME Typed, WriteFlash PROVE Typed'
  OBVIOUS
<1>1. dev.request.cfg \in Configs
  BY DEF Typed, DevTyped, WriteFlash, Requests
<1>2. DevTyped' /\ DownTyped' /\ losses' \in 0..MaxLoss
  BY AnswerStoreTyped DEF WriteFlash
<1> QED BY <1>1, <1>2 DEF WriteFlash, Typed, HostTyped, UpTyped, BoundsTyped

LEMMA FlashFaultTyped == Typed /\ FlashFault => Typed'
<1> SUFFICES ASSUME Typed, FlashFault PROVE Typed'
  OBVIOUS
<1>1. flash' \in Configs \cup {Blank}
  BY DEF Typed, DevTyped, FlashFault, FaultyFlash, Requests
<1>2. DevTyped' /\ DownTyped' /\ losses' \in 0..MaxLoss
  BY AnswerStoreTyped DEF FlashFault
<1>3. faults' \in 0..MaxFaults
  BY BoundAssumption DEF FlashFault, Refused, Typed, BoundsTyped
<1> QED BY <1>1, <1>2, <1>3 DEF FlashFault, Typed, HostTyped, UpTyped, BoundsTyped

\* The other steps of the device, and those of the wire.
LEMMA DeviceTyped ==
  ASSUME Typed,
         EraseFlash \/ EndBootProbe \/ SwitchToSession \/ SessionExpires \/ FrameArrives
  PROVE  Typed'
<1>1. dev' \in DevStates /\ dev'.request = dev.request /\ (dev.storing = "no" => dev'.storing = "no")
  BY PendingFacts DEF EraseFlash, EndBootProbe, SwitchToSession, SessionExpires, FrameArrives,
     Typed, DevTyped, DevStates
<1>2. up' \in Seq(Requests) /\ Len(up') <= 1
  <2>1. up' = up \/ up' = <<>>
    BY DEF EraseFlash, EndBootProbe, SwitchToSession, SessionExpires, FrameArrives
  <2>2. <<>> \in Seq(Requests) /\ Len(<<>>) <= 1
    OBVIOUS
  <2>3. up \in Seq(Requests) /\ Len(up) <= 1
    BY DEF Typed, UpTyped
  <2> QED BY <2>1, <2>2, <2>3, Zenon
<1>3. flash' \in {flash, Blank} /\ UNCHANGED <<host, down, bounds>>
  BY DEF EraseFlash, EndBootProbe, SwitchToSession, SessionExpires, FrameArrives
<1> QED BY <1>1, <1>2, <1>3 DEF Typed, DevTyped, HostTyped, UpTyped, DownTyped, BoundsTyped, bounds

LEMMA RebootTyped == Typed /\ (Reboot \/ PowerCycle) => Typed'
<1> SUFFICES ASSUME Typed, Reboot \/ PowerCycle PROVE Typed'
  OBVIOUS
<1>1. dev' = Booted(flash) /\ UNCHANGED <<flash, host, up, down, losses, faults>>
  BY DEF Reboot, PowerCycle, bounds
<1>2. cycles' \in 0..MaxCycles
  BY BoundAssumption DEF Typed, BoundsTyped, Reboot, PowerCycle, bounds
<1>3. DevTyped'
  BY <1>1, BootedFacts DEF Typed, DevTyped
<1> QED BY <1>1, <1>2, <1>3 DEF Typed, HostTyped, UpTyped, DownTyped, BoundsTyped

LEMMA FrameLostTyped == Typed /\ FrameLost => Typed'
<1> SUFFICES ASSUME Typed, FrameLost PROVE Typed'
  OBVIOUS
<1>1. UpTyped'
  BY EmptySeq DEF FrameLost, UpTyped
<1>2. BoundsTyped'
  BY BoundAssumption DEF FrameLost, Typed, BoundsTyped
<1> QED BY <1>1, <1>2 DEF FrameLost, Typed, DevTyped, HostTyped, DownTyped

LEMMA OpenPortTyped == Typed /\ OpenPort => Typed'
<1> SUFFICES ASSUME Typed, OpenPort PROVE Typed'
  OBVIOUS
<1>1. Len(Target) \in Nat
  BY ConfigAssumption
<1>2. host.session + 1 \in Sessions
  BY <1>1 DEF OpenPort, Typed, HostTyped, HostStates, Sessions
<1>3. HostTyped'
  BY <1>2, BoundAssumption DEF OpenPort, HostTyped, HostStates
<1>4. DevTyped'
  BY BootedFacts DEF OpenPort, Typed, DevTyped
<1>5. DownTyped'
  BY DEF OpenPort, DownTyped
<1> QED BY <1>3, <1>4, <1>5 DEF OpenPort, Typed, UpTyped, BoundsTyped, bounds

\* The host puts a request on the wire.
LEMMA RequestTyped ==
  ASSUME Typed, SayHello \/ SendRequest
  PROVE  Typed'
<1>1. up' = <<RequestOf(host)>> /\ RequestOf(host) \in Requests
  BY RequestFacts DEF SayHello, SendRequest
<1>2. UpTyped'
  BY <1>1 DEF UpTyped
<1>3. HostTyped'
  <2>1. CASE UNCHANGED host
    BY <2>1 DEF Typed, HostTyped
  <2>2. CASE SendRequest
    <3>1. host.tries + 1 \in 0..Attempts
      BY <2>2, BoundAssumption DEF SendRequest, Typed, HostTyped, HostStates
    <3>2. host' = [host EXCEPT !.waiting = TRUE, !.tries = host.tries + 1]
      BY <2>2 DEF SendRequest
    <3> QED BY <2>2, <3>1, <3>2 DEF SendRequest, Typed, HostTyped, HostStates
  <2> QED BY <2>1, <2>2 DEF SayHello
<1> QED
  BY <1>2, <1>3 DEF SayHello, SendRequest, Typed, DevTyped, DownTyped, BoundsTyped, bounds

\* Where an answer leads is a step of the host.
LEMMA AfterAnswerFacts ==
  ASSUME host.step \in {"hello"} \cup Transacting, NEW a
  PROVE  AfterAnswer(a) \in Transacting \cup {"done", "failed"}
BY DEF AfterAnswer, Transacting

LEMMA HostTypedStep ==
  ASSUME Typed, Cancel \/ GiveUp \/ ReadFrame
  PROVE  Typed'
<1>1. CASE Cancel
  <2>1. host.session \in Sessions
    BY <1>1 DEF Typed, HostTyped, Cancel, AsksUser, Transacting
  <2>2. HostTyped'
    BY <1>1, <2>1 DEF Typed, HostTyped, HostStates, Cancel, Closed, Transacting
  <2> QED
    BY <1>1, <2>2 DEF Cancel, Typed, DevTyped, UpTyped, DownTyped, BoundsTyped, bounds
<1>2. CASE GiveUp
  <2>1. HostTyped'
    BY <1>2 DEF Typed, HostTyped, HostStates, GiveUp, Closed, Transacting
  <2> QED
    BY <1>2, <2>1 DEF GiveUp, Typed, DevTyped, UpTyped, DownTyped, BoundsTyped, bounds
<1>3. CASE ReadFrame
  <2>1. host.step \in {"hello"} \cup Transacting /\ host.session \in Sessions
    BY <1>3 DEF Typed, HostTyped, HostStates, ReadFrame, Closed
  <2>2. AfterAnswer(down[1]) \in Transacting \cup Closed
    BY <2>1, AfterAnswerFacts DEF Closed
  <2>3. HostTyped'
    <3>1. host' = host
          \/ host' = [host EXCEPT !.step = AfterAnswer(down[1]), !.tries = 0, !.waiting = FALSE]
      BY <1>3 DEF ReadFrame
    <3>2. CASE host' = [host EXCEPT !.step = AfterAnswer(down[1]), !.tries = 0, !.waiting = FALSE]
      <4>1. 0 \in 0..Attempts
        BY BoundAssumption
      <4>2. host' \in HostStates /\ host'.session = host.session /\ ~host'.waiting
        BY <2>2, <3>2, <4>1 DEF Typed, HostTyped, HostStates
      <4> QED BY <2>1, <4>2 DEF HostTyped
    <3> QED BY <3>1, <3>2 DEF Typed, HostTyped
  <2>4. DownTyped'
    <3>1. down' = <<>> \/ down' = Tail(down)
      BY <1>3 DEF ReadFrame
    <3>2. Tail(down) \in Seq(Answers)
      BY <1>3, HeadTailProperties DEF ReadFrame, Typed, DownTyped
    <3> QED BY <3>1, <3>2, EmptySeq DEF DownTyped
  <2> QED
    BY <1>3, <2>3, <2>4 DEF ReadFrame, Typed, DevTyped, UpTyped, BoundsTyped, bounds
<1> QED BY <1>1, <1>2, <1>3

LEMMA TypedStep == Typed /\ [Next]_vars => Typed'
<1> SUFFICES ASSUME Typed, [Next]_vars PROVE Typed'
  OBVIOUS
<1>1. CASE UNCHANGED vars
  BY <1>1 DEF vars, bounds, Typed, DevTyped, HostTyped, UpTyped, DownTyped, BoundsTyped
<1>2. CASE Next
  BY <1>2, UpdateHelloTyped, UpdateSessionTyped, WriteFlashTyped, FlashFaultTyped, DeviceTyped,
     RebootTyped, FrameLostTyped, OpenPortTyped, RequestTyped, HostTypedStep
     DEF Next, Device, Host
<1> QED BY <1>1, <1>2

\* Every variable has its type: whatever the flash held when the device booted,
\* the configuration in RAM is one it can run.
THEOREM TypeCorrect == Spec => []TypeOK
<1>1. Init => Typed
  BY TypedInit
<1>2. Typed /\ [Next]_vars => Typed'
  BY TypedStep
<1>3. Typed => TypeOK
  BY TypedImpliesTypeOK
<1> QED BY <1>1, <1>2, <1>3, PTL DEF Spec

-----------------------------------------------------------------------------
(* The device's steps keep the invariant *)

LEMMA SessionFacts ==
  ASSUME Typed
  PROVE  /\ dev.chal \in Nat /\ host.session \in Nat
         /\ dev.pending # NoFrame => dev.pending.chal \in Nat /\ dev.pending.chal # 0
         /\ up # <<>> => up[1].chal \in Nat /\ up[1].chal # 0
         /\ dev \in DevStates /\ host \in HostStates /\ down \in Seq(Answers)
<1>1. Len(Target) \in Nat
  BY ConfigAssumption
<1> QED
  BY <1>1, PendingFacts DEF Typed, DevTyped, HostTyped, DownTyped, DevStates, HostStates,
     Sessions, Requests

\* An answer that does not report the target tells the host nothing.
LEMMA ToldStep ==
  ASSUME Typed, UNCHANGED host, Told', NEW a,
         \A i \in 1..Len(down') : \/ i \in 1..Len(down) /\ down'[i] = down[i]
                                  \/ down'[i] = a
  PROVE  Told \/ (host.step # "closed" /\ Tells(a))
<1>1. Goal' = Goal
  BY DEF Goal
<1>2. CASE host.step \in {"reboot", "done"} /\ Goal # NoTarget
  BY <1>2 DEF Told
<1>3. CASE host.step # "closed" /\ \E i \in 1..Len(down') : Tells(down[i])'
  <2>1. PICK i \in 1..Len(down') : Tells(down[i])'
    BY <1>3
  <2>2. Tells(down'[i])
    BY <1>1, <2>1 DEF Tells
  <2> QED BY <1>3, <2>2 DEF Told
<1> QED BY <1>1, <1>2, <1>3 DEF Told

\* Steps that change only the device's phase and flags.
LEMMA QuietStep ==
  ASSUME Typed, ConfigInv, EndBootProbe \/ SwitchToSession \/ SessionExpires
  PROVE  ConfigInv'
<1>1. /\ UNCHANGED <<flash, host, up, down>>
      /\ dev' \in DevStates /\ dev'.cfg = dev.cfg /\ dev'.valid = dev.valid
      /\ dev'.pending = dev.pending /\ dev'.chal = dev.chal
      /\ dev'.storing = dev.storing /\ dev'.request = dev.request
      /\ dev.phase = "SESSION" => dev'.phase = "SESSION"
  BY SessionFacts DEF EndBootProbe, SwitchToSession, SessionExpires, DevStates
<1>2. StoredMatchesRam' /\ RequestsHonest' /\ StoreInProgress' /\ InOrder'
  BY <1>1 DEF ConfigInv, StoredMatchesRam, RequestsHonest, StoreInProgress, InOrder, Honest, Goal
<1>3. ToldIsKept'
  BY <1>1 DEF ConfigInv, ToldIsKept, Told, Kept, Tells, Goal
<1> QED BY <1>2, <1>3 DEF ConfigInv

LEMMA WireStep ==
  ASSUME Typed, ConfigInv, FrameArrives \/ FrameLost
  PROVE  ConfigInv'
<1>1. /\ UNCHANGED <<flash, host, down>> /\ up # <<>> /\ up' = <<>>
      /\ dev' \in {dev, [dev EXCEPT !.pending = up[1]]}
  BY DEF FrameArrives, FrameLost
<1>2. /\ dev'.cfg = dev.cfg /\ dev'.valid = dev.valid /\ dev'.chal = dev.chal
      /\ dev'.storing = dev.storing /\ dev'.request = dev.request /\ dev'.phase = dev.phase
      /\ dev'.pending \in {dev.pending, up[1]}
  BY <1>1, SessionFacts DEF DevStates
<1>3. StoredMatchesRam' /\ RequestsHonest' /\ StoreInProgress' /\ InOrder'
  BY <1>1, <1>2 DEF ConfigInv, StoredMatchesRam, RequestsHonest, StoreInProgress, InOrder,
     Honest, Goal
<1>4. ToldIsKept'
  BY <1>1, <1>2 DEF ConfigInv, ToldIsKept, Told, Kept, Tells, Goal
<1> QED BY <1>3, <1>4 DEF ConfigInv

LEMMA RestartStep ==
  ASSUME Typed, ConfigInv, Reboot \/ PowerCycle
  PROVE  ConfigInv'
<1>1. dev' = Booted(flash) /\ UNCHANGED <<flash, host, up, down>>
  BY DEF Reboot, PowerCycle
<1>2. /\ dev'.storing = "no" /\ dev'.chal = 0 /\ dev'.pending = NoFrame
      /\ dev'.valid => flash = dev'.cfg
      /\ flash # Blank => dev'.valid /\ dev'.cfg = flash
  BY <1>1, BootedFacts DEF Typed
<1>3. StoredMatchesRam' /\ StoreInProgress'
  BY <1>1, <1>2 DEF StoredMatchesRam, StoreInProgress
<1>4. RequestsHonest'
  BY <1>1, <1>2, NoFrameIsNone DEF ConfigInv, RequestsHonest, Honest, Goal
<1>5. InOrder'
  BY <1>1, <1>2, SessionFacts DEF ConfigInv, InOrder
<1>6. ToldIsKept'
  <2>1. SUFFICES ASSUME Told' PROVE Kept'
    BY DEF ToldIsKept
  <2>2. Told
    BY <1>1, <2>1 DEF Told, Tells, Goal
  <2>3. Kept
    BY <2>2 DEF ConfigInv, ToldIsKept
  <2>4. flash # Blank
    BY <2>3, ConfigAssumption, SessionFacts DEF Kept, DevStates
  <2> QED BY <1>1, <1>2, <2>3, <2>4 DEF Kept, Goal
<1> QED BY <1>3, <1>4, <1>5, <1>6 DEF ConfigInv

LEMMA EraseStep ==
  ASSUME Typed, ConfigInv, EraseFlash
  PROVE  ConfigInv'
<1>1. /\ flash' = Blank /\ UNCHANGED <<host, up, down>> /\ dev.storing = "erase"
      /\ dev' = [dev EXCEPT !.storing = "write"]
  BY DEF EraseFlash
<1>2. /\ dev'.cfg = dev.cfg /\ dev'.valid = dev.valid /\ dev'.chal = dev.chal
      /\ dev'.storing = "write" /\ dev'.request = dev.request /\ dev'.phase = dev.phase
      /\ dev'.pending = dev.pending
  BY <1>1, SessionFacts DEF DevStates
<1>3. StoredMatchesRam' /\ RequestsHonest' /\ StoreInProgress' /\ InOrder'
  BY <1>1, <1>2 DEF ConfigInv, StoredMatchesRam, RequestsHonest, StoreInProgress, InOrder,
     Honest, Goal
<1>4. ToldIsKept'
  BY <1>1 DEF ConfigInv, ToldIsKept, Told, Kept, Tells, Goal
<1> QED BY <1>3, <1>4 DEF ConfigInv

\* While the device stores, the host has been told nothing of the record.
LEMMA StoringUntold == ConfigInv /\ dev.storing # "no" => ~Told
BY DEF ConfigInv, ToldIsKept, Kept

\* store_config ends, one way or the other.
LEMMA StoreEndStep ==
  ASSUME Typed, ConfigInv, WriteFlash \/ FlashFault
  PROVE  ConfigInv'
<1>1. PICK ok \in BOOLEAN :
        /\ AnswerStore(ok) /\ UNCHANGED <<host, up>>
        /\ ok => flash' = dev.request.cfg
  BY DEF WriteFlash, FlashFault
<1>2. dev.storing # "no"
  BY DEF WriteFlash, FlashFault
<1>3. /\ dev' = Stored(ok) /\ dev'.valid = ok /\ dev'.storing = "no"
      /\ ok => dev'.cfg = dev.request.cfg
      /\ dev'.pending = dev.pending /\ dev'.chal = dev.chal
  BY <1>1, <1>2, AnswerStoreTyped, StoredFacts
<1>4. StoredMatchesRam' /\ StoreInProgress'
  BY <1>1, <1>3 DEF StoredMatchesRam, StoreInProgress
<1>5. RequestsHonest' /\ InOrder'
  BY <1>1, <1>3 DEF ConfigInv, RequestsHonest, InOrder, Honest, Goal
<1>6. ToldIsKept'
  <2> DEFINE a == Answer("SET_MODE", dev.request, Stored(ok), ok)
  <2>1. a \in Answers /\ a.cmd = "SET_MODE" /\ Deliver(a)
    BY <1>1, <1>2, StoredFacts, AnswerFacts DEF AnswerStore, Typed, DevTyped, Replies
  <2>2. ~Tells(a)
    BY <2>1 DEF Tells
  <2> HIDE DEF a
  <2>3. \A i \in 1..Len(down') : \/ i \in 1..Len(down) /\ down'[i] = down[i]
                                 \/ down'[i] = a
    BY <2>1, DeliverFacts
  <2>4. ~Told'
    BY <1>1, <1>2, <2>2, <2>3, ToldStep, StoringUntold
  <2> QED BY <2>4 DEF ToldIsKept
<1> QED BY <1>4, <1>5, <1>6 DEF ConfigInv

LEMMA HelloStep ==
  ASSUME Typed, ConfigInv, UpdateHello
  PROVE  ConfigInv'
<1> DEFINE f == dev.pending
           d == [dev EXCEPT !.pending = NoFrame]
           ack == Answer("HELLO_ACK", f, dev, TRUE)
<1>1. /\ dev.phase = "DISCOVERY" /\ f # NoFrame /\ f \in Requests
      /\ UNCHANGED <<flash, host, up>>
      /\ dev' \in {[d EXCEPT !.phase = "SESSION", !.chal = f.chal],
                   [d EXCEPT !.phase = "SWITCH_PENDING", !.chal = f.chal, !.running = FALSE], d}
      /\ Deliver(ack) \/ Silent
  BY PendingFacts DEF UpdateHello
<1>2. /\ dev'.cfg = dev.cfg /\ dev'.valid = dev.valid /\ dev'.pending = NoFrame
      /\ dev'.storing = dev.storing /\ dev'.request = dev.request
      /\ dev'.chal \in {dev.chal, f.chal}
  BY <1>1, SessionFacts DEF DevStates
<1>3. dev.storing = "no"
  BY <1>1 DEF ConfigInv, StoreInProgress
<1>4. StoredMatchesRam' /\ StoreInProgress'
  BY <1>1, <1>2, <1>3 DEF ConfigInv, StoredMatchesRam, StoreInProgress
<1>5. RequestsHonest'
  BY <1>1, <1>2, NoFrameIsNone DEF ConfigInv, RequestsHonest, Honest, Goal
<1>6. InOrder'
  BY <1>1, <1>2, SessionFacts DEF ConfigInv, InOrder
<1>7. ToldIsKept'
  <2>1. SUFFICES ASSUME Told' PROVE Kept'
    BY DEF ToldIsKept
  <2>2. ack \in Answers /\ ~Tells(ack)
    BY <1>1, AnswerFacts, SessionFacts DEF Tells, Replies
  <2> HIDE DEF ack
  <2>3. \A i \in 1..Len(down') : \/ i \in 1..Len(down) /\ down'[i] = down[i]
                                 \/ down'[i] = ack
    BY <1>1, <2>2, DeliverFacts DEF Silent
  <2>4. Told
    BY <1>1, <2>1, <2>2, <2>3, ToldStep
  <2>5. Kept
    BY <2>4 DEF ConfigInv, ToldIsKept
  <2> QED BY <1>1, <1>2, <2>5 DEF Kept, Goal
<1> QED BY <1>4, <1>5, <1>6, <1>7 DEF ConfigInv

\* What a session frame changes: the mailbox is empty after it, and either a
\* store of another record begins or the record is as it was. If the host is
\* told the target, it is of the device's session and the device's record.
LEMMA HandleFacts ==
  ASSUME Typed, UpdateSession
  PROVE  LET f == dev.pending IN
         /\ f \in Requests /\ f # NoFrame
         /\ dev.storing = "no" /\ dev.phase = "SESSION"
         /\ UNCHANGED <<flash, host, up>>
         /\ dev'.cfg = dev.cfg /\ dev'.valid = dev.valid /\ dev'.chal = dev.chal
         /\ dev'.phase = dev.phase /\ dev'.pending = NoFrame
         /\ \/ dev'.storing = "no"
            \/ /\ f.cmd = "SET_MODE" /\ f.chal = dev.chal /\ ~SameConfig(dev, f)
               /\ dev'.storing = "erase" /\ dev'.request = f
         /\ \E a \in Answers :
              /\ \A i \in 1..Len(down') : \/ i \in 1..Len(down) /\ down'[i] = down[i]
                                          \/ down'[i] = a
              /\ Tells(a) => /\ f.chal = dev.chal /\ dev'.storing = "no"
                             /\ host.session = dev.chal
                             /\ dev.valid /\ dev.cfg = Goal
<1> DEFINE f == dev.pending
           d == [dev EXCEPT !.pending = NoFrame]
           Unsaid == \E a \in Answers :
             /\ \A i \in 1..Len(down') : \/ i \in 1..Len(down) /\ down'[i] = down[i]
                                         \/ down'[i] = a
             /\ ~Tells(a)
           Said == \E a \in Answers :
             /\ \A i \in 1..Len(down') : \/ i \in 1..Len(down) /\ down'[i] = down[i]
                                         \/ down'[i] = a
             /\ Tells(a) => /\ f.chal = dev.chal /\ dev'.storing = "no"
                            /\ host.session = dev.chal
                            /\ dev.valid /\ dev.cfg = Goal
<1>1. /\ f \in Requests /\ f # NoFrame
      /\ dev.storing = "no" /\ dev.phase = "SESSION"
      /\ UNCHANGED <<flash, host, up>>
  BY PendingFacts DEF UpdateSession
<1>2. /\ d \in DevStates /\ d.storing = "no" /\ d.pending = NoFrame
      /\ d.cfg = dev.cfg /\ d.valid = dev.valid /\ d.chal = dev.chal /\ d.phase = dev.phase
  BY <1>1, SessionFacts DEF DevStates
<1>3. SameConfig(d, f) <=> SameConfig(dev, f)
  BY <1>2 DEF SameConfig
\* An answer that is not to a GET_CONFIG, or none at all.
<1>4. ASSUME NEW cmd \in Replies \ {"GET_CONFIG"}, NEW ok \in BOOLEAN,
             Deliver(Answer(cmd, f, d, ok))
      PROVE  Unsaid
  <2>1. Answer(cmd, f, d, ok) \in Answers /\ ~Tells(Answer(cmd, f, d, ok))
    BY <1>1, <1>2, AnswerFacts DEF Tells
  <2> QED BY <1>4, <2>1, DeliverFacts
<1>5. ASSUME Silent PROVE Unsaid
  <2>1. Answer("ERROR", f, d, FALSE) \in Answers /\ ~Tells(Answer("ERROR", f, d, FALSE))
    BY <1>1, <1>2, AnswerFacts DEF Tells, Replies
  <2> QED BY <1>5, <2>1 DEF Silent
<1>6. CASE f.chal # dev.chal
  BY <1>1, <1>2, <1>5, <1>6 DEF UpdateSession
<1>7. CASE f.chal = dev.chal /\ dev' = d
  <2>1. HandleSessionFrame(f, d)
    BY <1>7 DEF UpdateSession
  <2>2. \/ Deliver(Answer(f.cmd, f, d, TRUE)) /\ f.cmd \in Commands \cap Replies
        \/ Deliver(Answer("ERROR", f, d, FALSE)) \/ Silent
    BY <2>1 DEF HandleSessionFrame, Commands, Replies
  <2>3. Said
    <3>1. CASE Deliver(Answer(f.cmd, f, d, TRUE)) /\ f.cmd \in Commands \cap Replies
      <4> HIDE DEF f, d
      <4>1. /\ Answer(f.cmd, f, d, TRUE) \in Answers
            /\ Answer(f.cmd, f, d, TRUE).chal = f.chal
            /\ Answer(f.cmd, f, d, TRUE).cfg = d.cfg
            /\ Answer(f.cmd, f, d, TRUE).valid = d.valid
        BY <1>1, <1>2, <3>1, AnswerFacts
      <4>2. Tells(Answer(f.cmd, f, d, TRUE)) =>
              f.chal = host.session /\ dev.valid /\ dev.cfg = Goal
        BY <1>2, <4>1 DEF Tells
      <4> QED BY <1>2, <1>7, <3>1, <4>1, <4>2, DeliverFacts
    <3>2. CASE Deliver(Answer("ERROR", f, d, FALSE))
      BY <1>4, <3>2 DEF Replies
    <3>3. CASE Silent
      BY <1>5, <3>3
    <3> QED BY <2>2, <3>1, <3>2, <3>3
  <2> QED BY <1>1, <1>2, <1>7, <2>3
<1>8. CASE f.chal = dev.chal /\ dev' # d
  <2>1. HandleSessionFrame(f, d)
    BY <1>8 DEF UpdateSession
  <2>2. CASE /\ f.cmd = "SET_MODE" /\ ~SameConfig(d, f) /\ Silent
             /\ dev' = [d EXCEPT !.storing = "erase", !.request = f]
    <3>1. /\ dev'.storing = "erase" /\ dev'.request = f /\ dev'.pending = NoFrame
          /\ dev'.cfg = dev.cfg /\ dev'.valid = dev.valid /\ dev'.chal = dev.chal
          /\ dev'.phase = dev.phase
      BY <1>2, <2>2 DEF DevStates
    <3> QED BY <1>1, <1>3, <1>5, <1>8, <2>2, <3>1
  <2>3. CASE /\ dev' = [d EXCEPT !.reboot = TRUE]
             /\ Deliver(Answer("REBOOT", f, d, TRUE))
    <3>1. /\ dev'.storing = "no" /\ dev'.pending = NoFrame
          /\ dev'.cfg = dev.cfg /\ dev'.valid = dev.valid /\ dev'.chal = dev.chal
          /\ dev'.phase = dev.phase
      BY <1>2, <2>3 DEF DevStates
    <3>2. Unsaid
      BY <1>4, <2>3 DEF Replies
    <3> QED BY <1>1, <3>1, <3>2
  <2> QED BY <1>8, <2>1, <2>2, <2>3 DEF HandleSessionFrame
<1> QED BY <1>6, <1>7, <1>8

LEMMA SessionStep ==
  ASSUME Typed, ConfigInv, UpdateSession
  PROVE  ConfigInv'
<1> DEFINE f == dev.pending
<1>1. /\ f \in Requests /\ f # NoFrame
      /\ dev.storing = "no" /\ dev.phase = "SESSION"
      /\ UNCHANGED <<flash, host, up>>
      /\ dev'.cfg = dev.cfg /\ dev'.valid = dev.valid /\ dev'.chal = dev.chal
      /\ dev'.phase = dev.phase /\ dev'.pending = NoFrame
      /\ \/ dev'.storing = "no"
         \/ /\ f.cmd = "SET_MODE" /\ f.chal = dev.chal /\ ~SameConfig(dev, f)
            /\ dev'.storing = "erase" /\ dev'.request = f
  BY HandleFacts
<1>2. StoredMatchesRam'
  BY <1>1 DEF ConfigInv, StoredMatchesRam
<1>3. RequestsHonest'
  BY <1>1, NoFrameIsNone DEF ConfigInv, RequestsHonest, Honest, Goal
<1>4. StoreInProgress'
  BY <1>1 DEF ConfigInv, StoreInProgress, RequestsHonest, StoredMatchesRam, Honest, SameConfig
<1>5. InOrder'
  BY <1>1 DEF ConfigInv, InOrder
<1>6. ToldIsKept'
  <2>1. SUFFICES ASSUME Told' PROVE Kept'
    BY DEF ToldIsKept
  <2>2. PICK a \in Answers :
          /\ \A i \in 1..Len(down') : \/ i \in 1..Len(down) /\ down'[i] = down[i]
                                      \/ down'[i] = a
          /\ Tells(a) => /\ f.chal = dev.chal /\ dev'.storing = "no"
                         /\ host.session = dev.chal
                         /\ dev.valid /\ dev.cfg = Goal
    BY HandleFacts
  <2>3. Told \/ Tells(a)
    BY <1>1, <2>1, <2>2, ToldStep
  <2>4. CASE Told
    <3>1. Kept
      BY <2>4 DEF ConfigInv, ToldIsKept
    <3>2. dev'.storing = "no"
      \* A SET_MODE of this session asks for the record that is there.
      BY <1>1, <3>1 DEF Kept, ConfigInv, RequestsHonest, Honest, SameConfig, Goal
    <3> QED BY <1>1, <3>1, <3>2 DEF Kept, Goal
  <2>5. CASE Tells(a)
    <3>1. flash = Goal
      BY <1>1, <2>2, <2>5 DEF ConfigInv, StoredMatchesRam
    <3>2. up # <<>> => up[1].chal = host.session
      BY <1>1, <2>2, <2>5, SessionFacts DEF ConfigInv, InOrder
    <3> QED BY <1>1, <2>2, <2>5, <3>1, <3>2 DEF Kept, Goal
  <2> QED BY <2>3, <2>4, <2>5
<1> QED BY <1>2, <1>3, <1>4, <1>5, <1>6 DEF ConfigInv

-----------------------------------------------------------------------------
(* The host's steps keep the invariant *)

LEMMA RequestStep ==
  ASSUME Typed, ConfigInv, SayHello \/ SendRequest
  PROVE  ConfigInv'
<1> DEFINE r == RequestOf(host)
<1>1. /\ UNCHANGED <<flash, dev, down>> /\ up' = <<r>>
      /\ host'.step = host.step /\ host'.session = host.session
      /\ host.step \in {"hello"} \cup Transacting
  BY SessionFacts DEF SayHello, SendRequest, HostStates
<1>2. r \in Requests /\ r.chal = host.session /\ Honest(r)
  BY <1>1, RequestFacts DEF ConfigInv, RequestsHonest, Honest, Goal
<1> HIDE DEF r
<1>3. up'[1] = r /\ up' # <<>>
  BY <1>1
<1>4. StoredMatchesRam' /\ StoreInProgress'
  BY <1>1 DEF ConfigInv, StoredMatchesRam, StoreInProgress, Honest
<1>5. RequestsHonest'
  BY <1>1, <1>2, <1>3 DEF ConfigInv, RequestsHonest, Honest, Goal
<1>6. InOrder'
  BY <1>1, <1>2, <1>3, SessionFacts DEF ConfigInv, InOrder
<1>7. ToldIsKept'
  BY <1>1, <1>2, <1>3 DEF ConfigInv, ToldIsKept, Told, Kept, Tells, Goal
<1> QED BY <1>4, <1>5, <1>6, <1>7 DEF ConfigInv

LEMMA StopStep ==
  ASSUME Typed, ConfigInv, Cancel \/ GiveUp
  PROVE  ConfigInv'
<1>1. /\ UNCHANGED <<flash, dev, up, down>> /\ host'.session = host.session
      /\ host'.step \in {host.step, "failed", "decline"} /\ host.step # "closed"
  BY SessionFacts DEF Cancel, GiveUp, AsksUser, HostStates, Typed, HostTyped, Transacting
<1>2. StoredMatchesRam' /\ RequestsHonest' /\ StoreInProgress' /\ InOrder'
  BY <1>1 DEF ConfigInv, StoredMatchesRam, RequestsHonest, StoreInProgress, InOrder, Honest, Goal
<1>3. ToldIsKept'
  BY <1>1 DEF ConfigInv, ToldIsKept, Told, Kept, Tells, Goal
<1> QED BY <1>2, <1>3 DEF ConfigInv

\* The host goes on to REBOOT only on an answer that reports the target, unless
\* it had nothing to write, and to SET_MODE only if it has something to write.
LEMMA AnswerTells ==
  ASSUME host.step \in {"hello"} \cup Transacting, NEW a, Awaited(a)
  PROVE  /\ AfterAnswer(a) \in {"reboot", "done"} /\ Goal # NoTarget => Told \/ Tells(a)
         /\ AfterAnswer(a) = "set" => Goal # NoTarget
         /\ AfterAnswer(a) # "closed"
<1>1. CASE host.step \in {"config", "verify"}
  <2>1. a.cmd = "GET_CONFIG" /\ a.chal = host.session
    BY <1>1 DEF Awaited, CommandOf
  <2> QED BY <1>1, <2>1 DEF AfterAnswer, Tells
<1>2. CASE host.step = "reboot"
  BY <1>2 DEF AfterAnswer, Told
<1>3. CASE host.step \in {"hello", "info", "set", "decline"}
  BY <1>3 DEF AfterAnswer
<1> QED BY <1>1, <1>2, <1>3 DEF Transacting

LEMMA ReadStep ==
  ASSUME Typed, ConfigInv, ReadFrame
  PROVE  ConfigInv'
<1> DEFINE a == down[1]
<1>1. /\ UNCHANGED <<flash, dev, up>> /\ host'.session = host.session
      /\ host.step \in {"hello"} \cup Transacting /\ host.step # "closed"
      /\ down # <<>> /\ down' \in {<<>>, Tail(down)}
      /\ host' = host \/ (Awaited(a) /\ host'.step = AfterAnswer(a))
  BY SessionFacts DEF ReadFrame, HostStates, Closed
<1>2. /\ \A i \in 1..Len(down') : i + 1 \in 1..Len(down) /\ down'[i] = down[i + 1]
      /\ 1 \in 1..Len(down)
  <2>1. CASE down' = <<>>
    BY <1>1, <2>1, SessionFacts, EmptySeq
  <2>2. CASE down' = Tail(down)
    BY <1>1, <2>2, SessionFacts, HeadTailProperties, EmptySeq
  <2> QED BY <1>1, <2>1, <2>2
<1>3. /\ host'.step \in {"reboot", "done"} /\ Goal # NoTarget => Told \/ Tells(a)
      /\ host'.step = "set" => Goal # NoTarget
  <2>1. CASE host' = host
    BY <2>1 DEF Told, ConfigInv, RequestsHonest
  <2>2. CASE Awaited(a) /\ host'.step = AfterAnswer(a)
    BY <1>1, <2>2, AnswerTells
  <2> QED BY <1>1, <2>1, <2>2
<1>4. StoredMatchesRam' /\ RequestsHonest' /\ StoreInProgress' /\ InOrder'
  BY <1>1, <1>3 DEF ConfigInv, StoredMatchesRam, RequestsHonest, StoreInProgress, InOrder,
     Honest, Goal
<1>5. ToldIsKept'
  <2>1. SUFFICES ASSUME Told' PROVE Kept'
    BY DEF ToldIsKept
  <2>2. Goal' = Goal /\ (\A b : Tells(b)' <=> Tells(b'))
    BY <1>1 DEF Goal, Tells
  <2>3. Told
    <3>1. CASE host'.step \in {"reboot", "done"} /\ Goal # NoTarget
      BY <1>1, <1>2, <1>3, <3>1 DEF Told
    <3>2. CASE \E i \in 1..Len(down') : Tells(down[i])'
      <4>1. PICK i \in 1..Len(down') : Tells(down[i])'
        BY <3>2
      <4>2. Tells(down[i + 1])
        BY <1>1, <1>2, <2>2, <4>1 DEF Tells
      <4> QED BY <1>1, <1>2, <4>2 DEF Told
    <3> QED BY <2>1, <2>2, <3>1, <3>2 DEF Told
  <2> QED BY <1>1, <2>2, <2>3 DEF ConfigInv, ToldIsKept, Kept
<1> QED BY <1>4, <1>5 DEF ConfigInv

LEMMA OpenStep ==
  ASSUME Typed, ConfigInv, OpenPort
  PROVE  ConfigInv'
<1>1. /\ UNCHANGED <<flash, up>> /\ down' = <<>>
      /\ host'.session = host.session + 1 /\ host'.step = "hello"
      /\ dev' = dev \/ dev' = Booted(flash)
  BY DEF OpenPort
<1>2. /\ Booted(flash).storing = "no" /\ Booted(flash).chal = 0
      /\ Booted(flash).pending = NoFrame
      /\ Booted(flash).valid => flash = Booted(flash).cfg
  BY BootedFacts DEF Typed
<1>3. StoredMatchesRam' /\ StoreInProgress'
  BY <1>1, <1>2 DEF ConfigInv, StoredMatchesRam, StoreInProgress, Honest
<1>4. RequestsHonest'
  BY <1>1, <1>2, NoFrameIsNone DEF ConfigInv, RequestsHonest, Honest
<1>5. InOrder'
  BY <1>1, <1>2, SessionFacts DEF ConfigInv, InOrder
<1>6. ToldIsKept'
  <2>1. ~Told'
    BY <1>1 DEF Told
  <2> QED BY <2>1 DEF ToldIsKept
<1> QED BY <1>3, <1>4, <1>5, <1>6 DEF ConfigInv

-----------------------------------------------------------------------------
(* The invariant and the three safety properties *)

LEMMA ConfigInvInit == Init => ConfigInv
<1> SUFFICES ASSUME Init PROVE ConfigInv
  OBVIOUS
<1>1. /\ dev.storing = "no" /\ dev.chal = 0 /\ dev.pending = NoFrame
      /\ dev.valid => flash = dev.cfg
      /\ up = <<>> /\ down = <<>> /\ host.step = "closed" /\ host.session = 0
  BY BootedFacts, ConfigAssumption DEF Init
<1>2. StoredMatchesRam /\ RequestsHonest /\ StoreInProgress /\ InOrder
  BY <1>1, NoFrameIsNone DEF StoredMatchesRam, RequestsHonest, StoreInProgress, InOrder, Honest
<1>3. ToldIsKept
  BY <1>1 DEF ToldIsKept, Told
<1> QED BY <1>2, <1>3 DEF ConfigInv

LEMMA ConfigInvStep == Typed /\ ConfigInv /\ [Next]_vars => ConfigInv'
<1> SUFFICES ASSUME Typed, ConfigInv, [Next]_vars PROVE ConfigInv'
  OBVIOUS
<1>1. CASE UNCHANGED vars
  BY <1>1 DEF vars, bounds, ConfigInv, StoredMatchesRam, RequestsHonest, StoreInProgress,
     InOrder, ToldIsKept, Honest, Told, Kept, Tells, Goal
<1>2. CASE Next
  BY <1>2, QuietStep, WireStep, RestartStep, EraseStep, StoreEndStep, HelloStep, SessionStep,
     RequestStep, StopStep, ReadStep, OpenStep DEF Next, Device, Host
<1> QED BY <1>1, <1>2

\* The inductive invariant holds in every reachable state.
THEOREM ConfigInvariant == Spec => [](Typed /\ ConfigInv)
<1>1. Init => Typed /\ ConfigInv
  BY TypedInit, ConfigInvInit
<1>2. Typed /\ ConfigInv /\ [Next]_vars => (Typed /\ ConfigInv)'
  BY TypedStep, ConfigInvStep
<1> QED BY <1>1, <1>2, PTL DEF Spec

\* The record the device reports as valid is the one it will boot with: the copy
\* in RAM and the record in flash agree outside store_config, whatever fails in it.
THEOREM RecordAgrees == Spec => []StoredMatchesRam
<1>1. Typed /\ ConfigInv => StoredMatchesRam
  BY DEF ConfigInv
<1> QED BY <1>1, ConfigInvariant, PTL

\* What configure_one reports as written and verified is in flash, and runs, until
\* the next session.
THEOREM SuccessIsReal == Spec => []SuccessIsStored
<1>1. Typed /\ ConfigInv => SuccessIsStored
  BY DEF ConfigInv, ToldIsKept, Told, Kept, SuccessIsStored
<1> QED BY <1>1, ConfigInvariant, PTL

\* A repeated SET_MODE leaves the flash alone once its target is stored: handling it
\* erases only a record other than the one it asks for.
THEOREM StoredIsKept == Spec => StoredOnce
<1> DEFINE Keeps == dev.valid /\ dev.chal # 0 /\ flash = Target[dev.chal] => flash' = flash
<1>1. ASSUME Typed, ConfigInv, [Next]_vars PROVE [Keeps]_vars
  <2>1. CASE EraseFlash
    BY <1>1, <2>1, SessionFacts DEF EraseFlash, ConfigInv, StoreInProgress, Honest, Typed,
       DevTyped
  <2>2. CASE WriteFlash
    <3>1. flash = Blank /\ Target[dev.chal] = dev.request.cfg
      BY <1>1, <2>2 DEF WriteFlash, ConfigInv, StoreInProgress, Honest, Typed, DevTyped
    <3>2. dev.request.cfg \in Configs
      BY <1>1, <2>2 DEF WriteFlash, Typed, DevTyped, Requests
    <3> QED BY <3>1, <3>2, ConfigAssumption
  <2>3. CASE FlashFault
    <3>1. CASE dev.storing = "erase"
      BY <2>3, <3>1 DEF FlashFault, FaultyFlash
    <3>2. CASE dev.storing # "erase"
      <4>1. flash = Blank /\ Target[dev.chal] = dev.request.cfg
        BY <1>1, <2>3, <3>2 DEF FlashFault, ConfigInv, StoreInProgress, Honest, Typed, DevTyped
      <4>2. dev.request.cfg \in Configs
        BY <1>1, <2>3 DEF FlashFault, Typed, DevTyped, Requests
      <4> QED BY <4>1, <4>2, ConfigAssumption
    <3> QED BY <3>1, <3>2
  <2>4. CASE ~(EraseFlash \/ WriteFlash \/ FlashFault)
    BY <1>1, <2>4 DEF Next, Device, Host, vars, UpdateHello, UpdateSession, EndBootProbe,
       SwitchToSession, SessionExpires, SayHello, SendRequest, GiveUp, ReadFrame, FrameArrives,
       FrameLost, Reboot, PowerCycle, OpenPort, Cancel
  <2> QED BY <2>1, <2>2, <2>3, <2>4
<1> QED BY <1>1, ConfigInvariant, PTL DEF Spec, StoredOnce
=============================================================================
