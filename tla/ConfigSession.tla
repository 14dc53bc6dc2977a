--------------------------- MODULE ConfigSession ---------------------------
(***************************************************************************)
(* The configurator on a PC and a device: the handshake while the device   *)
(* probes its UART after a boot, the session in which the mode record in   *)
(* flash is read and written, and the reboot into the new mode.            *)
(*                                                                         *)
(*   device  unified_config.c, with setup() and loop() of tx_main.c and    *)
(*           rx_main.c           host  tk8620_configurator.py              *)
(*                                                                         *)
(* A frame is in the UART's receive interrupt, in the one-frame mailbox of *)
(* the device, or in the PC's input buffer. A frame cut or altered on the  *)
(* wire fails its CRC and is lost. The 32-bit challenge of a session is    *)
(* the session's number; two sessions never share one.                     *)
(***************************************************************************)
EXTENDS Integers, Sequences

CONSTANTS
  Configs,      \* a mode with a baud rate, as the record holds them
  Default,      \* RC mode with the default baud rate
  Blank,        \* the flash holds no valid record
  NoTarget,     \* a session that only reads
  SameBaud,     \* the modes whose UART runs at the configurator's baud rate
  FirstFlash,   \* what the flash holds at first
  Target,       \* sequence: the configuration each session is to write
  Attempts,     \* transact: attempts
  MaxInbox,     \* bound: unread frames the host leaves when it says HELLO again
  MaxLoss,      \* bound: frames lost on the wire
  MaxFaults,    \* bound: flash operations that fail, frames the UART refuses
  MaxCycles     \* bound: power failures and resets by hand

Sessions == 1..Len(Target)

ASSUME ConfigAssumption == /\ Default \in Configs /\ Blank \notin Configs
                           /\ NoTarget \notin Configs
                           /\ SameBaud \subseteq Configs
                           /\ FirstFlash \in Configs \cup {Blank}
                           /\ Target \in Seq(Configs \cup {NoTarget})
ASSUME BoundAssumption == /\ Attempts \in Nat \ {0}
                          /\ MaxInbox \in Nat \ {0} /\ MaxLoss \in Nat
                          /\ MaxFaults \in Nat /\ MaxCycles \in Nat

VARIABLES
  flash,   \* the mode record
  dev,     \* the device's RAM
  host,    \* the configurator
  up,      \* the frame on its way to the device: a sequence of at most one
  down,    \* the host's input buffer
  losses, faults, cycles

bounds == <<losses, faults, cycles>>
vars == <<flash, dev, host, up, down, losses, faults, cycles>>

Commands == {"HELLO", "GET_INFO", "GET_CONFIG", "SET_MODE", "REBOOT"}
Replies  == {"HELLO_ACK", "GET_INFO", "GET_CONFIG", "SET_MODE", "REBOOT", "ERROR"}

\* cfg, valid and ok: the configuration a frame carries, s_recordValid, the status.
Requests == [cmd : Commands, seq : 1..6, chal : Sessions, cfg : Configs]
Answers  == [cmd : Replies, seq : 1..6, chal : Sessions, cfg : Configs,
             valid : BOOLEAN, ok : BOOLEAN]
NoFrame == [cmd |-> "NONE"]

DevStates == [phase : {"DISCOVERY", "SWITCH_PENDING", "SESSION"},
              probing : BOOLEAN,      \* s_bootProbeActive, s_discoveryEnabled
              running : BOOLEAN,      \* normal RF and UART operation
              cfg : Configs,          \* s_mode, s_airportBaud
              valid : BOOLEAN,        \* s_recordValid
              pending : Requests \cup {NoFrame},  \* s_pendingFrame, s_framePending
              chal : {0} \cup Sessions,           \* s_sessionChallenge
              storing : {"no", "erase", "write"}, \* where store_config is
              request : Requests \cup {NoFrame},  \* the SET_MODE it works on
              reboot : BOOLEAN]       \* s_rebootPending, txRebootRequested

Transacting == {"info", "config", "set", "verify", "reboot", "decline"}
Closed == {"closed", "done", "failed"}
HostStates == [step : {"hello"} \cup Transacting \cup Closed,
               session : {0} \cup Sessions,
               tries : 0..Attempts, waiting : BOOLEAN]
-----------------------------------------------------------------------------
(* The device *)

\* Mutant of Booted: the record is taken over without the check.
BootedUnchecked(f) == [phase |-> "DISCOVERY", probing |-> TRUE, running |-> FALSE,
              cfg |-> f, valid |-> f # Blank,
              pending |-> NoFrame, chal |-> 0, storing |-> "no",
              request |-> NoFrame, reboot |-> FALSE]

\* UnifiedConfig_Init with load_record, and UnifiedConfig_StartBootProbe.
Booted(f) == [phase |-> "DISCOVERY", probing |-> TRUE, running |-> FALSE,
              cfg |-> IF f = Blank THEN Default ELSE f, valid |-> f # Blank,
              pending |-> NoFrame, chal |-> 0, storing |-> "no",
              request |-> NoFrame, reboot |-> FALSE]

\* UnifiedConfig_FilterBytes: a whole, valid frame is put in the mailbox if the
\* phase allows it and the mailbox is free; any other is passed over.
Listens == dev.probing \/ dev.phase = "SESSION"
Allowed(f) == \/ dev.phase = "SESSION"
              \/ dev.phase = "DISCOVERY" /\ dev.probing /\ f.cmd = "HELLO"

FrameArrives ==
  /\ up # <<>>
  /\ up' = <<>>
  /\ dev' = IF Listens /\ Allowed(up[1]) /\ dev.pending = NoFrame
            THEN [dev EXCEPT !.pending = up[1]] ELSE dev
  /\ UNCHANGED <<flash, host, down, bounds>>

FrameLost ==
  /\ up # <<>>
  /\ losses < MaxLoss
  /\ losses' = losses + 1
  /\ up' = <<>>
  /\ UNCHANGED <<flash, dev, host, down, faults, cycles>>

\* frame_send: the answer reaches the host's buffer, if a port is open there.
Answer(cmd, f, d, ok) ==
  [cmd |-> cmd, seq |-> f.seq, chal |-> f.chal, cfg |-> d.cfg, valid |-> d.valid, ok |-> ok]
Deliver(a) ==
  \/ /\ down' = IF host.step \in Closed THEN down ELSE Append(down, a)
     /\ UNCHANGED losses
  \/ /\ losses < MaxLoss
     /\ losses' = losses + 1
     /\ UNCHANGED down
Silent == UNCHANGED <<down, losses>>

\* The UART takes the answer, or refuses it.
Sent == UNCHANGED faults
Refused == faults < MaxFaults /\ faults' = faults + 1

\* UnifiedConfig_Update, a HELLO in the mailbox. In the boot probe the session
\* begins at once. Later normal operation is stopped first, and the answer goes
\* out at that operation's baud rate.
UpdateHello ==
  /\ dev.phase = "DISCOVERY"
  /\ dev.pending # NoFrame
  /\ LET f == dev.pending
         d == [dev EXCEPT !.pending = NoFrame]
         ack == Answer("HELLO_ACK", f, dev, TRUE)
     IN \/ /\ dev.probing
           /\ dev' = [d EXCEPT !.phase = "SESSION", !.chal = f.chal]
           /\ Deliver(ack) /\ Sent
        \/ /\ ~dev.probing
           /\ dev' = [d EXCEPT !.phase = "SWITCH_PENDING", !.chal = f.chal, !.running = FALSE]
           /\ IF dev.cfg \in SameBaud THEN Deliver(ack) ELSE Silent
           /\ Sent
        \/ dev' = d /\ Silent /\ Refused
  /\ UNCHANGED <<flash, host, up, cycles>>

\* Mutant of SameConfig: any write of the stored configuration is redone.
SameConfigNever(d, f) == FALSE

\* handle_session_frame, CFG_CMD_SET_MODE: nothing to write.
SameConfig(d, f) == d.valid /\ f.cfg = d.cfg

\* handle_session_frame of a frame of this session; SET_MODE begins a store.
HandleSessionFrame(f, d) ==
  \/ /\ f.cmd \in {"GET_INFO", "GET_CONFIG"}
     /\ dev' = d
     /\ Deliver(Answer(f.cmd, f, d, TRUE)) /\ Sent
  \/ /\ f.cmd = "SET_MODE"
     /\ IF SameConfig(d, f)
        THEN dev' = d /\ Deliver(Answer("SET_MODE", f, d, TRUE))
        ELSE dev' = [d EXCEPT !.storing = "erase", !.request = f] /\ Silent
     /\ Sent
  \/ /\ f.cmd = "REBOOT"
     /\ \/ dev' = [d EXCEPT !.reboot = TRUE] /\ Deliver(Answer("REBOOT", f, d, TRUE)) /\ Sent
        \/ dev' = d /\ Silent /\ Refused
  \/ /\ f.cmd = "HELLO"
     /\ dev' = d
     /\ Deliver(Answer("ERROR", f, d, FALSE)) /\ Sent

\* UnifiedConfig_Update in a session: a frame of another session is dropped.
UpdateSession ==
  /\ dev.phase = "SESSION" /\ ~dev.probing
  /\ dev.storing = "no"
  /\ dev.pending # NoFrame
  /\ LET d == [dev EXCEPT !.pending = NoFrame]
     IN IF dev.pending.chal = dev.chal
        THEN HandleSessionFrame(dev.pending, d)
        ELSE dev' = d /\ Silent /\ Sent
  /\ UNCHANGED <<flash, host, up, cycles>>

\* store_config, the outcome: the RAM copy, and the answer with its status.
Stored(ok) ==
  [dev EXCEPT !.valid = ok, !.cfg = IF ok THEN dev.request.cfg ELSE Default,
              !.storing = "no", !.request = NoFrame]
AnswerStore(ok) ==
  /\ dev' = Stored(ok)
  /\ Deliver(Answer("SET_MODE", dev.request, Stored(ok), ok))

EraseFlash ==
  /\ dev.storing = "erase"
  /\ flash' = Blank
  /\ dev' = [dev EXCEPT !.storing = "write"]
  /\ UNCHANGED <<host, up, down, bounds>>

WriteFlash ==
  /\ dev.storing = "write"
  /\ flash' = dev.request.cfg
  /\ AnswerStore(TRUE)
  /\ UNCHANGED <<host, up, faults, cycles>>

\* An erase that fails leaves the old record; a write that fails, or whose
\* readback does, leaves the new one or none.
FaultyFlash == IF dev.storing = "erase" THEN {flash} ELSE {Blank, dev.request.cfg}

\* Mutant of FlashFault: what was written is not read back.
FlashFaultUnseen ==
  /\ dev.storing # "no"
  /\ Refused
  /\ flash' \in FaultyFlash
  /\ AnswerStore(dev.storing = "write")
  /\ UNCHANGED <<host, up, cycles>>

FlashFault ==
  /\ dev.storing # "no"
  /\ Refused
  /\ flash' \in FaultyFlash
  /\ AnswerStore(FALSE)
  /\ UNCHANGED <<host, up, cycles>>

\* setup, after the probe loop: a session has begun, or normal operation does.
\* EndBootProbe leaves the mailbox as it is.
EndBootProbe ==
  /\ dev.probing
  /\ dev' = [dev EXCEPT !.probing = FALSE, !.running = dev.phase = "DISCOVERY"]
  /\ UNCHANGED <<flash, host, up, down, bounds>>

\* UnifiedConfig_Update, the switch delay over.
SwitchToSession ==
  /\ dev.phase = "SWITCH_PENDING"
  /\ dev' = [dev EXCEPT !.phase = "SESSION"]
  /\ UNCHANGED <<flash, host, up, down, bounds>>

\* A session lasts while frames with its challenge come at least every 60 s. The
\* host sends them far more often, unless it waits for its user to say yes.
AsksUser == host.step = "set" /\ host.tries = 0
Speaks == host.step \notin Closed /\ host.session = dev.chal /\ ~AsksUser

\* Mutant of SessionExpires: a session ends by a REBOOT only.
SessionExpiresNever == FALSE /\ UNCHANGED vars

SessionExpires ==
  /\ dev.phase = "SESSION" /\ ~dev.probing
  /\ dev.storing = "no" /\ dev.pending = NoFrame
  /\ ~dev.reboot /\ ~Speaks
  /\ dev' = [dev EXCEPT !.reboot = TRUE]
  /\ UNCHANGED <<flash, host, up, down, bounds>>

\* UnifiedRequestReboot stops feeding the watchdog; until that resets the device,
\* loop still handles frames.
Reboot ==
  /\ dev.reboot
  /\ dev' = Booted(flash)
  /\ UNCHANGED <<flash, host, up, down, bounds>>

\* Power fails, or the device is reset by hand.
PowerCycle ==
  /\ cycles < MaxCycles
  /\ cycles' = cycles + 1
  /\ dev' = Booted(flash)
  /\ UNCHANGED <<flash, host, up, down, losses, faults>>
-----------------------------------------------------------------------------
(* The host *)

CommandOf == [hello |-> "HELLO", info |-> "GET_INFO", config |-> "GET_CONFIG",
              set |-> "SET_MODE", verify |-> "GET_CONFIG", reboot |-> "REBOOT",
              decline |-> "REBOOT"]
SequenceOf == [hello |-> 1, info |-> 2, config |-> 3, set |-> 4, verify |-> 5,
               reboot |-> 6, decline |-> 6]
Goal == Target[host.session]

RequestOf(h) ==
  [cmd |-> CommandOf[h.step], seq |-> SequenceOf[h.step], chal |-> h.session,
   cfg |-> IF Target[h.session] = NoTarget THEN Default ELSE Target[h.session]]

\* wait_for_device: open the port with an empty buffer, and pulse RTS, which
\* resets a device wired for it.
OpenPort ==
  /\ host.step \in Closed
  /\ host.session < Len(Target)
  /\ host' = [step |-> "hello", session |-> host.session + 1, tries |-> 0, waiting |-> FALSE]
  /\ down' = <<>>
  /\ dev' \in {dev, Booted(flash)}
  /\ UNCHANGED <<flash, up, bounds>>

\* A HELLO every 10 ms, until one is answered or the user presses Q.
SayHello ==
  /\ host.step = "hello"
  /\ up = <<>> /\ Len(down) < MaxInbox
  /\ up' = <<RequestOf(host)>>
  /\ UNCHANGED <<flash, dev, host, down, bounds>>

\* Q, or no to "Apply this configuration?".
Cancel ==
  /\ \/ /\ host.step = "hello" \/ host.waiting
        /\ host' = [host EXCEPT !.step = "failed", !.waiting = FALSE]
     \/ /\ AsksUser
        /\ host' = [host EXCEPT !.step = "decline"]
  /\ UNCHANGED <<flash, dev, up, down, bounds>>

\* transact: send, and wait for the answer.
SendRequest ==
  /\ host.step \in Transacting
  /\ ~host.waiting /\ host.tries < Attempts
  /\ up = <<>>
  /\ up' = <<RequestOf(host)>>
  /\ host' = [host EXCEPT !.waiting = TRUE, !.tries = @ + 1]
  /\ UNCHANGED <<flash, dev, down, bounds>>

\* Mutant of GiveUp: the last attempt is waited for like the others.
GiveUpNever ==
  /\ host.step \in Transacting
  /\ host.waiting
  /\ host.tries < Attempts
  /\ host' = [host EXCEPT !.waiting = FALSE]
  /\ UNCHANGED <<flash, dev, up, down, bounds>>

\* transact: no answer in time; send again, or close the port.
GiveUp ==
  /\ host.step \in Transacting
  /\ host.waiting
  /\ host' = IF host.tries < Attempts THEN [host EXCEPT !.waiting = FALSE]
             ELSE [host EXCEPT !.step = "failed", !.waiting = FALSE]
  /\ UNCHANGED <<flash, dev, up, down, bounds>>

\* configure_one: where the answer to each step leads.
AfterAnswer(a) ==
  CASE host.step = "hello"  -> "info"
    [] host.step = "info"   -> "config"
    [] host.step = "config" -> IF Goal = NoTarget \/ (a.valid /\ a.cfg = Goal)
                               THEN "reboot" ELSE "set"
    [] host.step = "set"    -> IF a.ok /\ a.valid /\ a.cfg = Goal THEN "verify" ELSE "failed"
    [] host.step = "verify" -> IF a.valid /\ a.cfg = Goal THEN "reboot" ELSE "failed"
    [] host.step = "reboot" -> "done"
    [] host.step = "decline" -> "failed"

Awaited(a) == /\ a.chal = host.session
              /\ a.seq = SequenceOf[host.step]
              /\ a.cmd = IF host.step = "hello" THEN "HELLO_ACK" ELSE CommandOf[host.step]

\* read_matching_frame: an answer to something else is passed over. After the
\* HELLO_ACK whatever else has come in is thrown away.
ReadFrame ==
  /\ host.step \notin Closed
  /\ host.step = "hello" \/ host.waiting
  /\ down # <<>>
  /\ IF Awaited(down[1])
     THEN /\ host' = [host EXCEPT !.step = AfterAnswer(down[1]), !.tries = 0, !.waiting = FALSE]
          /\ down' = IF host.step = "hello" THEN <<>> ELSE Tail(down)
     ELSE UNCHANGED host /\ down' = Tail(down)
  /\ UNCHANGED <<flash, dev, up, bounds>>
-----------------------------------------------------------------------------
Init ==
  /\ flash = FirstFlash
  /\ dev = Booted(FirstFlash)
  /\ host = [step |-> "closed", session |-> 0, tries |-> 0, waiting |-> FALSE]
  /\ up = <<>> /\ down = <<>>
  /\ losses = 0 /\ faults = 0 /\ cycles = 0

Device == UpdateHello \/ UpdateSession \/ EraseFlash \/ WriteFlash \/ EndBootProbe
          \/ SwitchToSession \/ SessionExpires
Host == SayHello \/ SendRequest \/ GiveUp \/ ReadFrame
Next == Device \/ Host \/ FrameArrives \/ FrameLost \/ FlashFault \/ Reboot \/ PowerCycle
        \/ OpenPort \/ Cancel

Spec == Init /\ [][Next]_vars

\* The device's loop, its clock and its watchdog run on, and so does the host's
\* loop; the wire delivers a frame or loses it.
Fairness == WF_vars(Device) /\ WF_vars(Reboot) /\ WF_vars(Host) /\ WF_vars(FrameArrives)
FairSpec == Spec /\ Fairness
-----------------------------------------------------------------------------
\* Every variable has its type: in particular the configuration in RAM is one
\* the device can run, whatever the flash held when it booted (load_record).
TypeOK ==
  /\ flash \in Configs \cup {Blank}
  /\ dev \in DevStates
  /\ host \in HostStates
  /\ Len(up) <= 1 /\ \A i \in 1..Len(up) : up[i] \in Requests
  /\ \A i \in 1..Len(down) : down[i] \in Answers
  /\ losses \in 0..MaxLoss /\ faults \in 0..MaxFaults /\ cycles \in 0..MaxCycles

\* Outside store_config the RAM copy the device answers from and the record in
\* flash agree: a record it reports as valid is the one it will boot with.
StoredMatchesRam == dev.valid /\ dev.storing = "no" => flash = dev.cfg

\* What the configurator tells its user is so. Once configure_one prints "Write
\* and independent readback verification succeeded" and until the next session
\* the flash holds the target, and the device, when it runs again, runs it: over
\* retried requests, late answers, flash faults, resets and power failures.
SuccessIsStored ==
  host.step \in {"reboot", "done"} /\ Goal # NoTarget =>
    flash = Goal /\ (dev.running => dev.cfg = Goal)

\* A repeated SET_MODE does not put at risk what the first one stored: the flash
\* is not touched again in a session that has its target in flash.
StoredOnce ==
  [][dev.valid /\ dev.chal # 0 /\ flash = Target[dev.chal] => flash' = flash]_vars

\* A device whose configurator has gone away, in whatever step, goes back to
\* normal operation, unless the configurator comes back.
DeviceReturns == host.step \in Closed ~> dev.running \/ host.step \notin Closed

\* A configurator that has been answered once comes to an end, done or failed.
SessionEnds == host.step \in Transacting ~> host.step \in Closed

\* The comment in UnifiedConfig_EndBootProbe: "Configuration discovery is
\* startup-only." A device in normal operation never enters a session.
StartupOnly == [][dev.running => dev'.phase = "DISCOVERY"]_vars
=============================================================================
