# Verification of the TK8620 ExpressLRS firmware

TLA+ models of the firmware under `src/applications` and of the PC tool that
configures it, the TLC runs that check them, and TLAPS proofs of their central
invariants. Paths below are relative to `src/`; `rx_main.c` and `tx_main.c` are
`applications/ELRS_Rx/rx_main.c` and `applications/ELRS_Tx/tx_main.c`, and *lib* is
`applications/ELRS_Common/ELRS/src/lib`.

`PROJECT.json` holds the machine-readable side: the lines each definition models,
the runs with their properties, a mutant of the code for every property (an
operator whose comment begins "Mutant of"), the hazards, the findings and the
theorems.

## 1. The system

A transmitter module (TX) takes channels from a handset and sends them over a
900 MHz TDMA link to a receiver (RX), which drives a flight controller. A TDMA frame
has `Denom` slots; every slot carries one packet up, but the last, which carries
telemetry down. The radio's TDMA and slot timing are a binary SDK library, outside
`src/applications`. Each module is one processor: a main loop, the UART and radio
interrupts (or callbacks), no operating system.

| Part | State it keeps | Operations | Talks to |
|---|---|---|---|
| Stubborn sender (*lib*/StubbornSender) | phase, offset, package index, expected confirm bit, missed confirms | SetDataToTransmit, GetCurrentPayload, ConfirmCurrentPayload, ResetState | telemetry queue (RX) or MSP queue (TX); radio callbacks |
| Stubborn receiver (*lib*/StubbornReceiver) | next index, offset, confirm bit, finished | ReceiveData, Unlock, ResetState | handset (TX) or flight controller (RX) |
| RX main (`rx_main.c`) | connection state, queued telemetry packet, ack guard, pending rate commit, pending switch mode, LQ window | RC/SYNC/MSP/bind packets, TX-done, LostConnection, loop | all of the RX |
| TX main (`tx_main.c`) | connection state, SYNC spam, commit window, queued payload, binding count | SendRCdataToRF, telemetry packets, TX-done, CheckConfigChangePending, loop | all of the TX |
| Telemetry queue (*lib*/Telemetry, FIFO) | byte FIFO of frames, prioritised counter, frame parser | AppendTelemetryPackage, GetNextPayload, RXhandleUARTin | serial port, parameter menu, sender |
| AirPort FIFO (*lib*/AirPort) | byte ring with free-running counters | PushBytes (interrupt), PopBytes, Reset (main loop) | UART, OTA packing |
| Unified configuration (*lib*/UnifiedConfig) | phase, one-frame mailbox, mode record in flash, session deadline | boot probe, FilterBytes (interrupt), Update (loop) | `tools/config/tk8620_configurator.py` |
| Stored settings (CONFIG, elrs_eeprom) | page in flash, modified flag | setters, Commit | parameter menu, rate change |
| Handset (CRSF, SBUS) | frame parser, output FIFO, half-duplex turn, MSP queue | UART input, FlushOutput | TX main |
| RX serial output (rx-serial) | receive ring, frame timer | interrupt, readBytes, send | flight controller |
| Binding | power-on counter, bind count, UID | Enter/ExitBindingMode | both mains, stored settings |
| RX OTA sender (RxOtaSender) | update state machine | start, poll, replies | TX main, boot loader of the RX |
| Frequency hopping, OTA layouts, CRC | sequence; switch rotation | build, pack, unpack | both mains |
| Devices and deferred functions | per-device timeouts, one deferred slot each | update, trigger, defer | all |
| Power, battery, LEDs, buttons, parameter menu | small local states | | |

Hard behaviours: packets lost in either direction with acknowledgements of one bit;
a TX-done and a received packet in either order around the main loop; a two-sided
change of rate coordinated by time only; UART interrupts inside unlocked code on
shared rings; flash written by erase and write; restarts of either side at any moment;
counters that wrap. `PROJECT.json` lists these as hazards at their lines, with the
properties that cover them; a hazard without a property says why it has none.

What makes each part correct:
- telemetry transport: whole frames, in order, once each; a sender that never wedges;
- rate change: both sides at one rate except in the guard time, the RX there first;
  both in one switch mode; RC flowing again after any loss;
- AirPort FIFO: a bounded byte queue, counts that match the bytes sent;
- configuration: what the tool reports as stored is stored; the device returns to the air;
- telemetry queue: newest value of each kind, whole frames, prioritised frames first;
- MSP uplink: each message acted upon once, whole; a transfer that always ends;
- binding: only when asked for, not left before the UID was on the air;
- receiver update: no packet of the image is left out;
- radio, serial and LED devices: what the program wants is what they do once they took
  their event;
- serial parsers: they never leave the frames by themselves, and find them again after damage;
- menus and settings: what is shown is what runs, and what a restart comes up with;
- LQ window, hopping, packing: the computed value is the specified one.

## 2. Modules

| Module | What it is |
|---|---|
| `Stubborn` | the state machines of StubbornSender and StubbornReceiver, as operators on their records |
| `StubbornLink` | both for telemetry, with the code that drives them on both sides, and the air between |
| `TelemetryChannel` | abstract: an ordered exactly-once channel that may break |
| `Stubborn_proofs` | what the operators of `Stubborn` return, for both their users |
| `StubbornLink_proofs` | type correctness; the link invariant, its consequences, the refinement |
| `RateSwitch` | announcement, commit window, countdown, switch mode, restarts |
| `RateSwitch_proofs` | type correctness; the rate invariant and its consequences |
| `AirportFifo` / `ByteQueue` | the lock-free ring / abstract: a bounded queue that can be emptied |
| `ConfigSession` | configurator, serial line, device, flash |
| `ConfigSession_proofs` | type correctness; the configuration invariant and its consequences |
| `TelemetryQueue` / `FrameQueue` | frames in the byte FIFO / abstract: a queue of frames with superseding and priority |
| `MspUplink` | the same pair for MSP messages on their way up, from the handset's queue to the receiver's handlers |
| `Binding` | binding mode on both sides, the count of quick starts, the stored UID |
| `LqWindow` | the two link quality windows |
| `Fhss` | the hop sequence and its shuffling |
| `Air_proofs` | the hop sequence, the link quality windows and AirPort's FIFO, that are gone round by a remainder; that neither side goes in or out of binding out of turn; MSP messages exactly once; the parts of `AirParts` together |
| `AirParts` | the five of the air that have no run of their own: `Binding`, `MspUplink`, `LqWindow`, `Fhss`, `AirportFifo` |
| `UartRing` | the ring between the UART interrupt and the main loop |
| `CrsfFrame` | a CRSF frame on a line that damages it |
| `CrsfHandset`, `SbusHandset` | the transmitter's two handset parsers, and CRSF's output |
| `TelemetryParser` | the receiver's CRSF input and its answers |
| `TxRadio` | the transmitter's radio device, dynamic power included |
| `RxDevices` | the receiver's loop with its radio, serial output and LED |
| `RxOtaSender` | the update of a receiver over the air, from the transmitter |
| `TxMenu`, `RxMenu` | settings and parameter menus of both sides |
| `Button` | debouncing, long presses, the binding they begin |
| `ChannelPacking` | RC channels in the ten-byte packet |
| `Radio_proofs` | that the devices of both sides follow; that restarts keep the settings and the menus show them |
| `Parser_proofs` | that the three serial parsers find their feet again after damage; that answers to the handset come out whole |
| `Device_proofs` | that channels come out as they went in, that an update leaves no packet out, that the ring keeps the order; the parts of `DeviceParts` together |
| `DeviceParts` | the eleven of one device: all from `UartRing` on, and `TelemetryQueue` |
| `MC...` | instances for TLC |

### StubbornLink

`snd` and `rcv` are the records of `stubborn_sender_t` and `stubborn_receiver_t`;
`ConfirmCurrentPayload`, `ReceiveData`, `AfterGetPayload`, `Unlock` in `Stubborn` are the
functions of those names, as operators on the record. `queued`, `valid`, `armed`,
`nextType`, `burst` are the RX's static variables. Actions: `LoadMessage` (the loop of
`rx_main.c`), `DownlinkSlot` (the radio sends what was queued; the TX may lose it;
`RxTxDone`), `UplinkSlot` (an RC packet, with the confirm bit it was queued with, is heard,
lost or missing), `QueueRcPacket`, `ForwardTelemetry` (the loop of `tx_main.c`),
`MspChunkReceived`, `RateChange` (`LostConnection` and `SetRFLinkRate`).

Data is abstracted to units: `LinkLen` and `DataLen` are what a packet with and without link
statistics carries. A byte is the message's body and an offset, so that two equal messages
look the same on the air. `MaxWait` stands for `maxWaitCount`, which UpdateTelemetryRate
computes. `gaveUp` is a history variable: the sender has entered RESYNC, or a rate change
dropped a chunk. The link promises nothing after that, and the properties say so.

### RateSwitch

`tx` and `rx` hold each side's configuration, what is in force, and its side of the
announcement. Time is in units: `tx.until` and `rx.in` are `rateCommitAtMs - now` on the
two sides, and `Pass` is a unit of time. It waits for what the code does at once (a loop
that is due, a packet older than `Latency`). `CheckConfigChangePending`, `FromSync`,
`SwitchModeFromOta`, `ApplyCommit`, `SyncPacket` are the handlers. `informed` and
`stranded` are history: whether the RX has heard a COMMIT of the open window (or only
of one dropped since), and whether the two sides may be apart for good. They are apart when
every COMMIT of a window was lost, when the user edited the rate again after the RX had
moved, or when a side restarted. The RX never times out a connection and
does not scan, so the code has no way back from there; that is why the properties except it.

Assumption: `Latency + Tick <= Guard`. In the code the tick is 10 ms and the guard 200 ms;
with the rates the port offers (25 Hz and up, slots of at most 40 ms) a queued packet is out
within two slots.

### AirportFifo

`head` and `tail` are the 16-bit counters (a smaller `2^w` in the instance, still a
multiple of the capacity); `UartByte` is the interrupt and may come between any two
accesses of the main loop: `StartPacket` (reads the size), `PopByte` / `ReleaseSlot`,
`SendPacket`, `ResetHead` / `ResetTail`.

### ConfigSession

The device is one record: phase, boot probe, normal operation, RAM configuration, mailbox,
challenge, the place store_config has reached, the reboot under way. `EraseFlash`,
`WriteFlash` and `FlashFault` split store_config where power can fail. A reboot is asked for
(`SessionExpires`, or a REBOOT frame) and happens when the watchdog, no longer fed, resets
the device: until then frames are still handled, as in the code. The host is the
configurator's `wait_for_device`, `transact`, `read_matching_frame` and `configure_one`. The
line holds one frame towards the device (a UART with an interrupt per byte) and the PC's
input buffer the other way. A damaged frame fails its CRC and is a lost one. A HELLO
answered after the boot probe goes out at the baud rate of normal operation: the host reads
it only if that is 115200 too (`SameBaud`).

### TelemetryQueue

`fifo` is the content of the byte FIFO from head to tail (`head`, `tail` and
`numElements` as a sequence), with the size byte and its deleted bit before each frame.
A frame is its length, its kind and its number repeated. The kind is the type together
with what the type's comparator compares. The code's loops walk from one size byte to the
next; `Starts` is the set of positions they come to, and the first match is the
least of those that match (`Live`). The head/tail arithmetic of the FIFO is left out; the
entry arithmetic is not.

### The compositions

`AirParts` and `DeviceParts` put parts together that share no state: what one does
cannot make a difference to another, so one of them runs at a time (`airPart`,
`devicePart`) while the others stay in one initial state. The state space is the sum of
the parts, not their product, and a run checks every part. Properties of the same
kind are conjoined there:

| Conjunction | Part: what it says |
|---|---|
| `SlotTablesRight` | `LqWindow`: the running count is that of the bits set and of the last slots, and the quality is a percentage; `Fhss`: every block has every channel once with the sync channel first, no channel twice in a row, and the last slot of the slot table differs from the first |
| `InputsTaken` | `HandsetResyncs`, `SbusResyncs`, `ParserResyncs`: a good frame is lost only where damage before it leaves bytes that look like the beginning of one (or, on the receiver, unless a pause frees the parser), and what is taken was sent, in order, once; `RequestsHandled`: nothing overtakes a request in the receiver's menu; `BindsByLongHold`: the third long press of one hold begins binding, once |
| `DevicesFollow` | `TxRadioFollows`, `RxRadioFollows`: a PHY whose device has taken its event runs what is wanted; `LedFollows`: the receiver's LED shows link and binding then; `FailsafeShown`: no SBUS frame without the failsafe mark while there is no link; `MenuShowsSettings`, `RxMenuShowsSettings` |
| `SettingsKept` | `RestartKeepsSettings`, `RxRestartKeepsSettings`: a restart comes up with the settings in use unless one is marked modified |

### Binding

The receiver is one record with what RAM holds; `flash` is its settings page and `zeros`
the power-on counter's sector, in which `CountedStarts` counts. `Commit` erases and writes
the page, `CommitCutOff` is the power failure between. A start adds one to the counter, and
`ClearPowerOnCounter` is deferred by two seconds. A receiver learns the UID
(`OnELRSBindMSP`) at once and its loop stores it and leaves (`ExitRxBindingMode`). The
transmitter's `restart` is the event that tells its radio of the mode; until it is taken the
radio works on the old channel, and may still report a packet of before. `quick`, `aired`
and `wasBound` are history.

### MspUplink

`queue` is MspWriteFIFO, `msnd` and `mrcv` the stubborn pair; `QueueUplink` is SendRCdataToRF
with its turn-taking between RC and MSP, `RecoverPending` the 500 ms after which a packet
that was never reported is given up. `MspSlot` goes through a frame, uplink slots and the
downlink. The confirm bit is that of the moment a LINK packet was built and `Acknowledged`
believes it whatever was last sent, as the code does. `quiet` chooses an environment for
the liveness property: every slot used, nothing else downlink.

### LqWindow, Fhss, ChannelPacking

`LqWindow` keeps a window as a set of positions of a ring of words, and beside it the history
of what was received (`upSeen`, `downSeen`). `Fhss` does one `Swap` per step with whatever the
generator gives; the receiver may build the sequence again for another UID.
`ChannelPacking` has operators only, and no state: everything about it is proved.

### UartRing and the parsers

In `UartRing` the interrupt (`UartByte`) comes between any two accesses of the reader: load
of one index, load of the other, one byte copied, store of the index. When the ring is full
the interrupt moves the reader's index, which the reader then overwrites with its own: those
histories are marked `raced`, and the property is about the others. The parsers take a
frame apart byte for byte, since what a damaged length does to the frames after it is
their question; a frame is a start byte, length, kind, number and CRC (a byte is less than
`ByteValues`, the CRC a value beyond, see section 4). What is between may look like a start
byte, a header or a footer: real channels and addresses do. The histories `hwire` and `swire`
keep all the bytes that arrived, `hstarts` and `sstarts` where in them each frame began, so
that the properties can tell what a parser is past and what stood across a frame's beginning.
`CrsfHandset` adds `HandleOutput`, which splits answers into periods, and `TelemetryParser`
the give-up after a pause in a frame and the FIFO of answers.

### TxRadio and RxDevices

`txWant` is what the program wants, `txFlags` what it has raised, `txPhy` what the PHY was
last told. The actions are the places that raise flags; `TxEvent` is the device's event
function and `UpdateTlmRatio` its timeout at the frame's end. A start of the PHY may fail:
then it is off. Dynamic power (`DynamicPowerHeard`, `DynamicPowerUnheard`) enters with
the classes it compares its readings with.

`RxDevices` runs the loop in passes: the event to serial, radio and LED, then the serial
device's timeout, then the radio's, then the rest of `loop`. `rxWrote` is the last thing the
serial output wrote; `silent` that the transmitter has been switched off for good.

### RxOtaSender

One action per thing the radio's status can report in each state, and `OtaTimedOut`. The
radio holds one packet (`slots.packet`), replaced by a resent one. The boot loader at the
other end is the environment: it asks for any packet it lacks, or for an index that does not
exist, or says it is finished. `burnt` is what it has, `offered` what the radio was given.

### TxMenu and RxMenu

`request` is the one place for a request, `ram` and `flash` the two copies of the settings,
`shown` the menu's lines. In `TxMenu` the handset's writes, the device's turns, the
announcement (`Announced`), the model change and the commit interleave at will; in `RxMenu`
the loop's pass is kept in order (`pass`) because what an edit meets depends on it. A
field's values and the encoding of menu lines are abstracted.

### Button

`button` is the debouncer's state with its last three samples, `hold` the history of this
hold. Samples may be late by up to `MaxGap`.

## 3. Runs

| Run | Checks | Instance and why it is enough |
|---|---|---|
| `link_safety` | exactly-once in order, done means received, no stale ack, the link invariant, refinement of `TelemetryChannel` | three messages, two identical one-chunk ones and one of three units, chunks of 1 and 2 units, 4 losses (`MaxWait` is 1, so the sender can give up twice), one rate change. Equal neighbours show a missed closing packet; both chunk sizes occur in one message. |
| `link_live` | the sender always comes to rest; every message is delivered or given up | two messages, 3 losses, a rate change, a downlink every third slot, bursts of two |
| `link_rechunk` | violation | see findings |
| `link_guarantee` | violation | see findings |
| `rate_safety` | splits are explained, the RX is ready before the beacon, the rate invariant | three rates, two rate edits, one mode edit, 2 losses, a restart; window 3, guard 3, tick 2, latency 1: the guard assumption holds with equality, and losing both COMMITs of a window strands the RX |
| `rate_live` | the configuration comes into force; the link recovers unless stranded | two rates and one edit of each kind |
| `rate_mode` | violation | see findings |
| `config_session` | RAM and flash agree, what the tool reports is so, a retry does not rewrite, the device returns, the tool ends | two sessions with different targets, three attempts each, 2 lost frames, one flash fault, one power failure, three configurations of which one has the tool's baud rate |
| `config_startup` | violation | see findings |
| `air_parts` | `BindOnlyOnRequest`, `BindPacketsGoOut`, `TxLeavesBinding`; `MspExactlyOnce`, `TransferEnds`; `SlotTablesRight`; the AirPort FIFO's refinement of `ByteQueue`, `CountIsCarried`, `BytesLeave` | binding: four starts (three make a quick series, one more follows), a power failure, an edit, one binding of the transmitter of three packets; MSP: two messages of one and two chunks, a queue of one, frames of four slots, two faults (lost packets, unreported TX-dones, sender resets), so a sender can give up; windows of 3 to 5 places over words of 3 bits, so the last word is partly used and sizes change both ways; hops: five channels, two blocks, slots that wrap inside one, every choice of the generator; FIFO: capacity 3 and counters modulo 6, so both wrap several times, from any first lap, two resets |
| `device_parts` | `InputsTaken`, `DevicesFollow`, `SettingsKept`; `AnswersWhole`, `RingKeepsOrder`, `OtaOffersAll`, `PowerCapped`; the telemetry queue's `NewestIsGiven` and refinement of `FrameQueue` | queue: four frames of four kinds (superseding, prioritised, both, neither) and two lengths in a FIFO of two of the longer or three of the shorter; ring: six bytes through four places with one reset, so it wraps and overflows; CRSF: three frames of two kinds, one of them the start byte's value, one damage that can leave a false start byte or a length that reaches into the next frame; SBUS: three frames with headers and footers among their contents, one damage; telemetry: three frames and a damage; radio devices: two rates, two ratios, three power levels; update: four packets; menus: two fields of which one redraws, two models, two edits and a power cycle (three edits on the receiver); button: holds of up to 17 ticks with long presses of 2, so that the count goes well past the third, and samples up to 2 ticks late |
| `rx_silence` | violation | see findings |

`config_session`, `air_parts` and `device_parts` are checked without deadlock: once the last
session is over, binding is done, or a line has fallen silent for good, nothing more
happens in the model. The liveness properties are checked under the fairness below; the
safety properties beside them do not need it.

### Fairness

- `StubbornLink`: the slot timer runs (`DownlinkSlot`, `UplinkSlot` weakly fair through the
  slot), both main loops run (`LoadMessage`, `ForwardTelemetry`), the handset sends. Losses are
  bounded by `MaxLoss`, which is the usual "not every packet is lost for ever".
- `RateSwitch`: weak fairness of loops, TX-done and time; strong fairness of `SendSync` and
  `SendRc`, because the handset's call and the periodic SYNC come again and again while
  a transmit buffer that is busy at the moment disables them.
- `AirParts`: the AirPort main loop's steps; for binding, the transmitter's own steps (its
  loop, its radio's event, its slot timer): nothing about the receiver or about what is
  heard; for MSP, each step of the two main loops and the slot.
- `RxDevices` (`rx_silence` only): the loop's pass.
- `ConfigSession`: the device's loop, clock and watchdog, the host's loop (a user
  asked "Apply?" answers in the end), the line. Nothing about power failures, losses or faults.

## 4. Proofs

TLAPS proves, for all values of the constants under the named assumptions:

| Theorem | Statement |
|---|---|
| `StubbornLink_proofs!TypeCorrect` | `Spec => []TypeOK` |
| `StubbornLink_proofs!LinkInvariant` | `Spec => [](TypeOK /\ LinkInv)` |
| `...!ExactlyOnce`, `DoneIsReceived`, `AcksAreFresh` | the three safety properties of `link_safety` |
| `...!Refinement` | `Spec => ImplementsChannel` |
| `RateSwitch_proofs!TypeCorrect` | `Spec => []TypeOK` |
| `RateSwitch_proofs!RateInvariant` | `Spec => [](TypeOK /\ RateInv /\ SplitExplained)` |
| `...!SplitsAreExplained`, `ReceiverIsReady` | the two rate properties |
| `ConfigSession_proofs!TypeCorrect` | `Spec => []TypeOK` |
| `...!ConfigInvariant` | `Spec => [](Typed /\ ConfigInv)` |
| `...!RecordAgrees`, `SuccessIsReal`, `StoredIsKept` | `StoredMatchesRam`, `SuccessIsStored`, `StoredOnce` of `config_session` |
| `Radio_proofs!TypeCorrect` | `TxRadioSpec => []TxRadioTypeOK` |
| `...!Follows`, `PowerIsCapped` | `TxRadioFollows`, `PowerCapped` of `device_parts` |
| `...!RxFollows` | `RxSpec => [](RxTypeOK /\ RxRadioFollows /\ LedFollows /\ FailsafeShown)` |
| `...!TxSettingsRight`, `RxSettingsRight` | a restart keeps the settings, the menus show them, no request is overtaken: the parts of `SettingsKept` |
| `Air_proofs!EveryChannelOnce`, `NoRepeat`, `HopsFair` | the hop sequence is even and never stays on a channel: `FhssSpec => [](FhssTypeOK /\ HopsRight)` |
| `...!LqCounts` | `LqSpec => [](LqTypeOK /\ LqCountsWindow)` |
| `...!PacketsCarryCount`, `FifoIsQueue` | `Spec => []TypeOK /\ CountIsCarried`, and `Spec => ImplementsQueue` of `AirportFifo` |
| `...!BindTyped`, `UidGoesOut`, `BindsForReason` | `BindTypeOK`, `BindPacketsGoOut`, `BindOnlyOnRequest` of `air_parts` |
| `...!MspTyped`, `MspDelivers` | `MspTypeOK`, `MspExactlyOnce` of `air_parts` |
| `...!AirPartsRun` | `AirSpec` implies the specification of each of its five parts |
| `...!AirTyped`, `AirTablesRight`, `AirSafe` | `AirTypeOK`, `SlotTablesRight` and the other safety properties of `air_parts`, of `AirSpec` |
| `Parser_proofs!HandsetResynced` | `HandsetSpec => []HandsetResyncs` |
| `...!SbusResynced`, `ParserResynced` | `SbusSpec => []SbusResyncs`, `ParserSpec => []ParserResyncs` |
| `...!AnswersAreWhole` | `HandsetSpec => []AnswersWhole`, of `device_parts` |
| `...!HandsetTyped`, `SbusTyped`, `ParserTyped` | type correctness of the three serial parsers |
| `Device_proofs!NoneLeftOut` | `OtaSpec => [](OtaTypeOK /\ OtaOffersAll)`, of `device_parts` |
| `...!RingOrder` | `RingSpec => [](RingTypeOK /\ RingKeepsOrder)` |
| `...!QueueIsFrameQueue` | `Spec => ImplementsQueue` of `TelemetryQueue`: the bytes implement `FrameQueue` |
| `...!NewestGiven`, `QueueTyped` | `Spec => NewestIsGiven` and `Spec => []TypeOK` of `TelemetryQueue` |
| `...!HoldBindsOnce` | `ButtonSpec => [](ButtonTypeOK /\ BindsByLongHold)` |
| `...!PacketRoundTrip`, `TwoPacketsCarryAll` | unpacking gives back the packed channels, less their lowest bit, and leaves the others alone; two packets that follow each other renew all channels of the mode, in every mode and whichever half comes first |
| `...!PartsRun` | `DeviceSpec` implies the specifications of its eleven parts |
| `...!DevicesTyped`, `AllFollow`, `AllSettingsKept` | `DeviceTypeOK`, `DevicesFollow`, `SettingsKept`, of `DeviceSpec` |
| `...!InputsAllTaken` | `DeviceSpec => []InputsTaken`: the three parsers, the requests to the receiver's menu, the button |
| `...!DevicesSafe` | `RingKeepsOrder`, `AnswersWhole`, `OtaOffersAll`, `ImplementsQueue`, `NewestIsGiven`, `PowerCapped`, of `DeviceSpec` |

*Link.* None of the three safety properties is inductive: what the confirm bit means depends
on where the sender is. `LinkInv` splits the states in which the sender has not given up into
phases, told apart by the sender's state and by whether the receiver's bit is the one
expected: *resting*, *starting*, *chunk missing* (the packet on offer is exactly the next
piece the receiver lacks), *chunk received* (the receiver has it and repeats are
recognised), *closing* (the blank packet 0 of a one-chunk message). Each phase fixes how the
sender's offset relates to the receiver's and what the receiver's buffer holds. A packet
heard moves *missing* to *received*; an ack heard moves *received* on; `FreshAck` rules
out an old bit doing so. `HeardStep`, `AckedStep`, `StartStep`, `RestStep` and
`QuietStep` are these moves, and the step lemma goes action by action. From the invariant the
refinement mapping (`accepted <- loaded`, `broken <- gaveUp`) maps each step to one of the
channel or to a stutter. Assumptions: messages fit the receiver's buffer and have fewer
chunks than the RESYNC index (`SizeAssumption`); in the code 64-byte frames and
`ELRS8_TELEMETRY_MAX_PACKAGES`.

*Rate.* `RateInv` bounds the RX's countdown by the TX's: a COMMIT `age` old promised
`until + age` rounded up to a tick, so the countdown exceeds the window's rest by at most
`Latency + Tick - 1`, which the guard covers. It also says what `informed` implies about who
is where. `ReceiverIsReady` follows: at the end of the guard `tx.until = -Guard`, so a
countdown still running would be negative.

*Configuration.* `SuccessIsStored` speaks of the host after its last answer, while requests
it has sent again may still be on the wire, in the mailbox or under way into flash.
`ConfigInv` rules each of them out. Every SET_MODE in flight carries the target of its own
session (`RequestsHonest`); along host, wire, mailbox and device the sessions never go
back (`InOrder`); a store begins only for a record other than the one in flash, which the
erase then blanks (`StoreInProgress`). Hence, once an answer in the host's buffer reports
the target (`Told`), all that can still reach the device is of this session and finds its
target already stored (`Kept`), over restarts too, since the device boots with what flash
holds. Assumptions: `ConfigAssumption` (the default is a configuration, an empty
flash is not) and `BoundAssumption`.

*Radio devices.* `TxRadioFollows` speaks of the states in which no event waits; it is not
inductive, because a flag may be raised and lowered on the way. `TxRadioInv` says of each
way in which a running PHY may differ from what is wanted which flag is up that leads to the
repair; `_doing` is the memory that the PHY was started for binding, without which the way
out of it could not be told. `PowerIsCapped` needs no invariant beyond the type but a look
into one update of dynamic power: `UnheardBelow` and `HeardBelow` show that it stays
at or below the cap: one of its two reasons to raise is heeded only if the other did nothing.
On the receiver `RxRadioInv` says the same of its four flags, and `RxSerialInv` why a frame
without a link is marked: what `devserial_ctx_t` remembers of the link is stale only while an
event waits, and the loop hands the event out before the serial output runs. `RxLedInv` says
the same of the LED: every step that changes the link or the binding raises the event.

*Settings.* `MenuInv` is the conjunction of the two properties and the types: that flash and
RAM agree unless marked modified is inductive as it stands. `RxMenuInv` needs more, because
what an edit meets depends on where the pass is: a request waits only within the pass that
took it, a reboot is asked for only just before the part that stores, and a page is never taken
for an empty one. Assumption: a page of settings is neither a blank sector nor one
of an older version (`PagesAssumption`; a page carries its version, config.c).

*Hopping.* `FhssInv` (in each block every channel once, sync first) holds at every moment of
the shuffling because `Swap` exchanges two places of one block (`SwapKeeps`) and `Advance`
keeps clear of the sync place. That no channel comes twice in a row follows, over the
block's end too. That the last slot's channel is not the first's (`FrameWraps`) needs its
entry to lie in a block that was built, at a place other than the first: quotient and
remainder of its number (`Division`, `DivMod`). `FhssAssumption` therefore says that the slots
that have entries fit into the blocks built: 128 into 240 (FHSS.h, FHSS.c:35).

*Link quality.* The properties count; the invariant says which bits they count.
`WindowInv`: with the current position the `c`-th of the ring, the bits set are exactly those
`d` places back (`Back`, round the window's end) for the slots `d` ago that brought a packet.
Marking adds the current place and advancing takes away the place reached, which is that of the
slot that falls out of the window (`MoveFacts`, `OneMore`, `SeenNext`): the rest moves back
by one. The running count is then the cardinality of that image, which `Back` maps one to one
(`CountIsRecent`). The places are words and bits, so that `PosFacts` has to show that the
division by the word width is undone, the partly used last word included. The transmitter's
count of slots starts at 1, so what it reports is a percentage only because it stays ahead of
the slots seen.

*AirPort's FIFO.* The counters run freely, so `Size` is their difference modulo `CounterMod`
and a slot is a counter modulo `Capacity`; that the two agree where a counter comes round is
why the one must be a multiple of the other (`CounterAssumption`; 2^16 and a power of two).
`FifoInv` bounds the size by the capacity except between the two stores of a reset, where
the interrupt counts from a tail that is out of date (`WhileResetting`), and says that what
a packet announced is covered by what was popped and what is still there, and that the byte
popped last still stands in its slot until that is released (`WhilePopping`).
`CountIsCarried` follows. The refinement maps the queue to what lies in the ring from the
oldest byte on, and `out` to what was released: a push appends (`UartByteArrives`), a
release moves the first to the end of `out` (`ReleaseLeaves`), the reset's two stores begin
and end the emptying, and every other step leaves both alone.

*MSP uplink.* `MspInv` has the phases of `LinkInv`, told apart in the same way, but a chunk
may wait in the radio's buffer while its acknowledgement comes by another way:
`ChunkWaiting` says that what waits is the sender's current chunk or one the receiver will
pass over (`PassedOver`). A chunk heard moves the receiver from *lacking* to *there*
(`ChunkHeard`, by way of `FirstTaken`, `LaterTaken` and `CloseTaken`), a confirmation moves
the sender on (`ConfirmedKeeps`), and all the other steps keep the phase (`QuietKeeps`). The
invariant is stated until a chunk is given up or the sender reset, as the property is.
Assumptions: those of the link, and that a chunk fits into the buffer (`MspAssumption`: 10
of 65 bytes).

*Binding.* On the transmitter the count runs ahead of the packets that really went out by at
most the one the radio still held when binding was entered (`BindTxInv`): its report is the
last before the radio is set up anew, and from then on every packet counted carries the UID.
The code leaves when the count is *greater* than the amount, and needs just that one. On the
receiver `BindRxInv` keeps the count in RAM equal to the one in flash and no more than the quick
starts there were, and says that RAM and flash differ in the UID only while marked modified:
so a UID missing at a start was never there or fell to a power failure. Assumption:
the transmitter's own UID is one (`BindAssumption`; it is made of the chip id). `CountsCapped`
adds that neither count of starts passes three.

*Update.* `OtaInv`: in the sending states all packets before `next` have been given to the
radio, and the end is awaited only with `next` behind the last. A resent packet moves the
state but not `next`, which is why it leaves none out.

*Serial ring.* The order of bytes in `delivered` and the ring together is not inductive while
a read is under way. `RingInv` adds that the indices the main loop has loaded are
still those of the ring, that it copies no more than was stored, and that what it has copied is
still in its places (until an overflow under the read, which is the history variable `raced`).
`StoredFacts` and `RoundTheRing` are the arithmetic of the ring.

*Answers to the handset.* `AnswersWhole` counts bytes of `written`; what is inductive is
`OutputInv`: what was written, followed by the rest of the packet under way, is a row of
blocks of `AnswerLen` equal bytes, one block for a number, and the packets still in the FIFO
are in order and newer than all of them. A turn of `handleOutput`'s loop cuts a packet at the end of
the period and moves the cut to the tail (`PieceKeeps`), so the row stays a row; that the
loop's result has it too is an induction over its turns (`Induction`, `Iterated`). An answer
pushed drops packets only from the FIFO (`QueueKeeps`), never one that was begun.
Assumption: an answer fits into the FIFO (`HandsetAssumption`).

*Telemetry queue.* `NewestIsGiven` compares a frame given out with the newest appended.
`QueueInv` says how the bytes stand for entries: every position the loops come to holds a
size, live or deleted, behind it a frame that was appended, and behind that the next
position or the end (`EntryHolds`, `StartsAre`); and of each superseding kind at most one
entry is live, with the newest number. Four things happen to the bytes, and for each it is
shown where the positions are afterwards: entries skipped at the front (`SkippedKeeps`), an
entry pushed at the end (`PushedKeeps`), a mark set (`MarkedKeeps`), and a frame written
over a longer one, of which the rest stays behind it as payload of the same entry
(`OverwrittenKeeps`). A frame too long for the place of the old one is pushed after the old
one is marked, and not before: with the mark left out there would be two live entries, and
the loops take the first. Assumption: the longest frame fits into the empty FIFO and a
length into seven bits (`SizeAssumption`; FIFO_SIZE, and SET_DEL's bit).

That the bytes implement `FrameQueue` needs the order too. `View` lists the positions of the
live entries upwards and the frames in them; `ViewIs` shows that the loops' recursion comes
to just that list (`Descends`: such a recursion has a value at each place, and
`EntryByEntry`: what is handed back from one entry to the one before holds of all). Each of
the four changes of the bytes is then one of the list: a front part cut off (`SkipView`), a
frame appended (`PushView`), one removed (`MarkView`), one replaced (`OverwriteView`).
`ViewInv` adds what the counter means: it counts no fewer frames than the prioritised ones
that wait, so that when it is zero the plain scan takes nothing out of turn. That holds while
eight bits count the frames appended (`MaxFrames`, which is also what a payload byte can
number); it is where a proof for longer runs would have to deal with the counter's wrap.

*Button.* `BindsByLongHold` looks at holds from the history. `ButtonInv` says what the
eight-bit count means: a hold in which `n` long presses were counted has lasted at least `n`
times as long as one takes and at most that with every sample late by `MaxGap`. So the third
long press is always of the same hold, comes once, and the count cannot wrap within
`MaxHold` (the bound of a hold's length; `ButtonAssumption`).

*Types of the parsers.* What a buffer may hold depends on the parser's state (`Shape` of the
receiver's parser: no byte, the start byte, or a start byte with a length in range and fewer
bytes than it claims), so that no buffer overflows, whatever length a damaged frame claims.
The buffer of the CRSF handset is bounded by what is read into it, SBUS's by two frames. A
damaged frame is a sequence of bytes like any other (`FrameTyped`), and `Crc` a number
(`CrcTyped`). The FIFOs of answers are bounded because room is made before a push
(`AnswersFit`, `RoutQueuedFits`).

*SBUS.* Nothing is assumed of the bytes between header and footer: neutral channels already
hold headers. Without a checksum the parser may then take a false frame, but only from bytes
across the beginning of a good one, and only if it is not with the frames already. That is what
`SbusResyncs` excepts, and the only thing: a parser that loses its place and stays away from the frames,
or leaves them by itself, violates it. What is inductive (`SbusStream`) has the bytes the
parser is not past as the end of all that arrived: a good frame that begins before them was
taken or is excused (`SbusMet`), and what was taken ends before them, no two frames sharing a
byte (`TookWell`). The parser drops a byte in front only if no frame begins there
(`SbusDrops`, `SbusAligns`); and when it takes a frame that reaches over the beginning of a
good one, that frame began before, not at the frame before the good one: so that one was
damaged, or passed over itself (`SbusTakesFront`). `SbusLoopKeeps` carries this through the
loop over the buffer, which ends with less than a frame in it: so every frame that was read is
decided.

*The CRC.* A frame's CRC is a byte of its own in the model and a sum without collisions
(`CrcSums`), in digits of `ByteValues`: one of eight bits would take one damaged frame in 256
for a good one, and what is proved of the CRSF parsers holds while that does not happen.
`Checked` is what both rest on: among the bytes on their way each frame has at most one CRC,
in the order of the frames, and none once it or a later one was taken. Hence bytes that pass
the check end in the CRC of a frame sent and begin five bytes before it (`CrcTells`), so that
what is taken was sent, with its kind, in order and once (`CheckedTake`), for whatever the
length byte claimed.

*The receiver's CRSF parser.* A good frame stands whole on the line until its first byte is
read (`Comes`); then its last bytes stand in front there (`RestOf`) while, if the parser met it
idle or after a pause, the parser has the others and nothing else (`Begun`); when it is over,
such a frame was taken. `FcStream` says so of every good frame; each byte moves one frame on
(`HandleBegins`, `HandleGoesOn`, `HandleEnds`), and the give-up after a pause brings the
parser to idle.

*The transmitter's CRSF parser.* It reads what there is, looks for a start byte and believes
the length behind it. The contents of frames may be start bytes too (every extended frame
carries the address 0xEE or 0xC8), so after a damage it can go from one false start to the
next; what bounds that is the bytes themselves, as there is no timeout. `HandsetResyncs`
therefore says exactly when a good frame may be passed over: when the one before was damaged
or passed over, and a start byte in front has a length behind it that reaches into the frame.
A good frame that no such bytes stand in front of is handled, whatever came before, and the
parser always comes past it, because no length it waits for is longer than its buffer
(`ParseLeavesRoom`). What is inductive is `HandsetStream`: the bytes the parser is not past
are the end of all that arrived, each good frame stands in those at its place, its CRC nowhere
else (`Stand`), and one that begins before what is left was handled or is excused (`Met`).
Aligning drops no start of a good frame (`HandsetAligns`); a length passes over one only if it
reaches into it (`HandsetSkips`, `ReachedExcused`), and the frame before cannot have been
handled, for what is handled ends where the next begins (`HandsetTakes`).

*Composition.* A step of `AirNext` or `DeviceNext` is a step of one part and leaves the
variables of the others alone, so each part's specification is implied (`AirPartsRun`,
`PartsRun`) and with it whatever is proved of the part.

*Packing.* Five bytes hold four ten-bit values: each value is split by `div` and `mod` at its
own bit, the parts are joined in the fifth byte, and the four leaves are arithmetic. A packet
carries two groups of channels, which depend on mode and half; `Crosses` says what it does to
each of the sixteen channels, and `TwoPacketsCarryAll` puts two of them together with the
alternation of halves (`SentHigh`, `HighAfter`).

Recursion over data is written as functions over numbers, and what such a function computes is
proved by the least number for which it fails (`LeastNumber`, from the library's theorem that
the naturals are well founded); the library's own induction theorems take an operator as
a parameter, which the provers cannot instantiate.

Model-checked only:

- everything under fairness, which is out of the prover's reach as ENABLED is:
  `TelemetryNeverWedges`, `DeliveredOrGivenUp`, `ConfigComesIntoForce`, `LinkRecovers`,
  `BytesLeave`, `TransferEnds`, `TxLeavesBinding`, `DeviceReturns`, `SessionEnds`.

Every other property of the passing runs, all the safety invariants among them, is stated by a
theorem above.

## 5. Findings

Each is a violation run with a counterexample; the quoted lines are in `PROJECT.json`.

1. `link_rechunk`: a rate change clears `queuedTelemetryValid` but not the sender, so the
   unacknowledged chunk is built anew with another length, against the comment that keeps
   it. An ack of the first transmission then skips the second's length.
2. `link_guarantee`: a message whose acks are lost for `maxWaitCount` is dropped with
   no sign of it, where a comment says the transport guarantees delivery.
3. `rate_mode`: after a commit the RX falls back to wide switches although the mode
   pending from the announcement was compared before; until two SYNCs, hybrid packets are
   unpacked as wide ones.
4. `config_startup`: a HELLO left in the mailbox when the boot probe ends is handled in
   normal operation.
5. `rx_silence`: a receiver whose transmitter is switched off stays connected: the LED stays
   steady, against the README's table (README.md:58-59), and SBUS frames go on without the
   failsafe mark. No timeout on received packets takes the receiver out of connected.

Observations no line of the repository contradicts: an RX stranded at a rate stays there
until restarted; a device whose HELLO_ACK was lost answers each further HELLO with an ERROR
and so never leaves the session while the tool keeps saying HELLO; `prioritizedCount` has
eight bits and wraps after 256 overwritten parameter frames.

## 6. Bounds

`MaxLoss`, `MaxRateChange`, `MaxRateEdits`, `MaxModeEdits`, `MaxReboots` (link and rate);
`MaxFaults`, `MaxCycles`, `MaxInbox` (configuration); `MaxFrames` (queue); `MaxStarts`,
`MaxPowerCuts`, `MaxEdits`, `MaxBinds` (binding); `MaxFaults` (MSP); `MaxBytes`, `MaxResets`
(AirPort); `MaxUartBytes`, `MaxRingResets` (ring); `MaxHandsetFrames`, `MaxDamages`,
`MaxAnswers`, `MaxSbusFrames`, `MaxSbusDamages`, `MaxFcFrames`, `MaxFcDamages` (parsers);
`MaxMenuEdits`, `MaxMenuStarts`, `MaxRxEdits`, `MaxRxStarts` (menus); `MaxGap`, `MaxHold`
(button). Each appears as a guard of the action that counts it. The theorems hold for every
value of them.

## 7. Not modelled

- The SDK library (TDMA, PHY, flash driver), the flashing tool, the boot loader's side of the
  receiver update: binaries or outside `src/applications`. Their callbacks and answers are the
  environment of the models.
- The four-byte OTA layouts with their hybrid switches: compiled, but every air rate of this
  port has the long payload. The OTA CRC: a damaged packet is a lost one.
- The 32-bit millisecond clock under the device timeouts and its wrap (a hazard without a
  property): the models let a timeout come at any time, so that a missed one shows only as
  delay. The wrap of `prioritizedCount` after 256 overwritten parameter frames.
- The contents of frames and menu lines, battery averaging, LED patterns and colours,
  baud rate detection, logging and build options.
- `DuplexLink` of the first plan, both stubborn pairs on one slot sequence: the two meet
  only in what a slot carries, which `MspUplink` and `StubbornLink` each leave to choice.

Worth doing still: how many good frames a damage can cost a parser in a row, which depends on
the distribution of bytes in real frames and not on the code alone; the telemetry queue past
the wrap of `prioritizedCount`, which needs a statement of what it may do wrong there.
