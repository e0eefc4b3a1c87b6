# rcboard in TLA+

rcboard drives a model vehicle over IP. A daemon on the vehicle (`board/`, C) executes driving
commands that arrive as UDP datagrams, reports its state, and starts and stops the video
pipeline of `gstd`. A Windows program on the ground (`ground/v2r_player/`, C#) turns a joystick
or the keyboard into those datagrams, shows the video and the status. This directory models the
program, checks the models with TLC and proves the main properties of the core with TLAPS.

## Inventory

| component | state | operations | models |
|---|---|---|---|
| Command loop, lease, fail safe (`udpclient.c`, `commands.c`, `timers.c`, `rcboard.c`) | `aliveTimestamp`, `clienttype`, `videoneedstart`, `prev_remote_host`, receive buffer, `si_other` | `udp_loop`, `parseCommand`, `timer_handler`, `stopAll`, `CheckRemoteClient`, `ClientDisconnected`, the sends of `main` | `RcBoard` |
| PWM driver (`virt2real.c`) | static message of `setPPM`, the outputs | `setPPM`, `setPWM`, `setPin`, `virt2real_init_*` | `RcBoard`, `TankDrive`, `Servo` |
| Tracked drive (`Move`) | `lastspeed0/1`, static `save_speed1/2`, pins, duties | `Move`, `stopAll` | `TankDrive` |
| Video control (`video.c`) | gstd's pipeline: playing, target host, bitrate, MTU, port | `PlayStreamTo`, `PauseStream`, `SetBitrate`, `SetMTU`, `SetVideoPort`, `InitialPlayStreamTo` | `RcBoard` (running), `BoardStart` (start) |
| Datagram format (`commands.c`, `Joystick.cs`, `Network.cs`, `Telemetry.cs`) | the buffer's bytes | build, checksum, parse | `Wire` |
| Restart loop (`scripts/run.sh`) | - | pause the stream, start again | `RcBoard`, `TankDrive`, `BoardStart`, `GroundLink` |
| Board telemetry (`voltage.c`, `wlanstatus.c`) | `system_voltage`, `wlanstatus` | `adc_read_loop`, `wlanstatus_read_loop`, `SendVoltage`, `SendSignalStatus` | `Telemetry` |
| Board configuration (`config.c`, `cmdline.c`) | `config` | `parse_cmdline`, `load_config`, `load_remote_config`, `curlParser` | `BoardConfig`, `BoardStart` |
| Wireless information (`iwconfig/`) | `ifaceinfo` | `getwlaninfo`, `get_info`, `display_info`, the functions of `iwlib` they reach | `WlanInfo`, `Iwlib` |
| Keyboard (`Keyboard.cs`) | `keystate`, `currentspeed`, `save_forsage_speed`, `buttonstate` | `ParseKeys` | `Keyboard` |
| Ground link (`Network.cs`, `Telemetry.cs`) | socket, `Remote`, `connected` | `Send`, the alive timer; the 100 ms receive tick | `GroundLink` (sending) |
| Joystick (`Joystick.cs`, `JoystickSetup.xaml.cs`) | axes, listener | poll, save | only its datagrams, `Wire` |
| Video player, settings, port forwarding, windows | pipeline, port, rules | start, record, save, close | not modelled |

**Interaction.** On the board three threads of control share every global of `vars.h` without
any lock: the UDP thread, the main loop, and a SIGALRM handler that fires every `timer_interval`
on whichever thread the kernel picks (the wireless and ADC threads are two more, for the
telemetry). They meet in `aliveTimestamp` (the *lease*: non-zero while the ground may drive), in
`clienttype`, `videoneedstart`, in the static buffer inside `setPPM`, and in the outputs
themselves. Board and ground share nothing but datagrams over UDP; the pipeline is a separate
process, driven by `gst-client` calls, that survives a restart of the daemon.

**Hard behaviours.** Gate and effect of a command are separate steps; `stopAll` runs in three
contexts against a non-reentrant `setPPM`; the receive buffer is never cleared and the datagram
length never consulted; a failed `recvfrom` runs the fail safe *and then* parses the old
datagram; the UDP thread executes commands while main is still opening and scaling the outputs;
`parseCommand` does not ask what kind of vehicle it drives; `exit(2)` leaves the outputs as they
are; `Move` suppresses what it takes for repetitions. The full list, each at its line, is `hazards` in `PROJECT.json`.

**What makes each part correct.** Lease: control ends when renewals end, and nothing drives the
vehicle afterwards. Fail safe: every axis ends neutral. Video: the stream goes to the client
that asked for it, and to one that can show it. Tank: centred sticks stop both tracks, whatever
was suppressed. Wire: the board does what the ground meant. Servo: pulses stay in range, follow
the stick monotonically, and a stick at rest is the neutral pulse. Telemetry: nothing is sent
twice or after something newer was, a link that can be read is reported again and again, and the
voltage shown is one the board had (it need not be: `torn_voltage`). Configuration: a text is read
as it was meant, and a new process makes the surviving pipeline agree with it. Wireless information: what the driver said
of one cell is what the text says. Operator: the vehicle does what the keys say as soon as the
last datagrams are through. `connected` should tell the truth within its timeout; it is not
modelled.

## Modules

| module | what it is |
|---|---|
| `RcBoard` | the daemon with `devicetype = 0`: UDP thread, alarm handler, main, driver and pipeline |
| `MCRcBoard` | axis tables for TLC |
| `DriveLease` | the abstract promise: who may drive, and what may reach an output |
| `RcBoardProofs` | the inductive invariant of `RcBoard`, the four theorems it carries, and that `RcBoard` implements `DriveLease` |
| `TankDrive` | the tracked drive (`devicetype = 1`), one step per driver write |
| `TankDriveProofs` | the inductive invariant of `TankDrive` and its theorems |
| `Servo` | scaling from stick byte to pulse, as functions |
| `Wire` | the datagrams byte for byte and the one receive buffer; uses `Servo` |
| `MCWire` | axis and zero tables for TLC, and which states of the buttons pass for an axis |
| `WireProofs` | range, monotonicity and rest of the scaling; what each datagram is read as over any leftovers |
| `Telemetry` | the ADC thread, the wireless thread and the sends of the main loop, one step per field |
| `TelemetryProofs` | the inductive invariant of `Telemetry` and its three theorems |
| `BoardConfig` | command line and configuration text, as functions |
| `BoardStart` | from the start of the daemon to the next: configuration, stream settings, then `Telemetry` |
| `BoardStartProofs` | that its telemetry is `Telemetry`, that the pipeline agrees with the configuration, and the configuration with its text |
| `MCBoardStart` | configuration texts, server answers and command lines for TLC |
| `Iwlib` | the pure part of the wireless library: layouts, range translation, levels, frequencies |
| `IwlibProofs` | that the translation of the old range puts every field in its place |
| `WlanInfo` | one reading of the Wi-Fi link, request by request, and what is printed; uses `Iwlib` |
| `MCWlanInfo` | drivers and cells for TLC |
| `WlanInfoProofs` | what the text of a reading says, for every driver and cell |
| `Keyboard` | `ParseKeys` of the ground station |
| `GroundLink` | keyboard, lossy link and board composed; uses `Keyboard` |
| `GroundLinkProofs` | the inductive invariant of `GroundLink` and its five theorems |

A definition whose comment starts with "A mutant:" is a plausible mistake in the definition
below it. No behaviour uses one; each is put in the original's place to see that some property
notices.

### RcBoard

`pc[t]` says where each of the threads `udp`, `alarm`, `main` is; every access to a variable
that another thread also touches is a step.

* `Receive` is `recvfrom`: any legal datagram from any host, at any time. That is loss,
  duplication, delay and reordering at once. `buf` keeps its last datagram, as the static buffer
  does. `ReceiveFails` is the branch `udpclient.c:43` takes on -1: because of the misplaced
  parenthesis the thread continues at `parse`, with the old datagram.
* `ParseAlive`, `Stamp`, `CheckRemoteClient`, `PlayStreamTo`, `RunGstClient`, `SaveHost` are the
  handling of command 0, in the code's order. `ParseAxis` is the gate `if (!aliveTimestamp)` of
  the driving commands; `FillChannel`, `FillDuty`, `WriteCommand` the `setPPM` behind it.
  Commands 1 and, on channels 2 and 3, 2 share this code and are one `axis` frame.
* `ParseTrack`, `DriveSecond`, `DriveFirst` are command 2 on channels 0 and 1. `devicetype` is not
  asked, so an RC vehicle runs `Move` too, and its `setPWM` calls give the outputs of axes 1 and 0
  a track's duty (`Tracked`), each in a message of its own. Whether `Move` leaves because it would
  repeat itself is a part of the frame; the arithmetic of it is in `TankDrive`.
* `OpenPins` and then one `ScaleOutput` per output are `virt2real_init_pwm`. The UDP thread runs
  by then. What `setPPM` computes for an output that is not scaled yet is a message of zeroes
  (`Unscaled`); it computes before it stores, so a thread carries the `duty` from one to the other.
* `BeginStopAll`, then `FillChannel`, `FillDuty`, `WriteNeutral` per axis, then `FlagVideo`,
  `ClearClientType`, `PauseStream` are `stopAll`, run by any of the three threads.
* `AlarmExpires` and `AlarmDisarms` are the comparison and the assignment of `timer_handler`: an
  alive may be stamped between them and is then lost, as in the code.
* `ParseRestart` is `exit(2)`: all threads are gone, outputs keep their pulse, `run.sh` pauses
  the stream; `Boot` starts the next process from zeroed globals.

`aliveTimestamp` is two variables: `armed` (non-zero) and `age` (whole seconds since, counted up
to `MaxTimeout`, since the code only asks whether it exceeds the limit). The duty is four bytes
in C; a tear *within* it is not modelled, one between channel and duty is; nor is one between
the four values of one output that `ScaleOutput` computes, whose messages are as meaningless as
those without them. Until `OpenPins` driver writes go nowhere. The heap block
behind `prev_remote_host` is uninitialised, but `videoneedstart` is 1 then and decides alone. A
handler for SIGALRM is masked only in the thread that runs it, so a second one could start on
another thread while the first is stuck in `system`; that is not modelled: there is one alarm at
a time.

`DriveLease` says what all this amounts to. Control is granted and revoked; a command is
accepted only while it is granted, and only one is under way; the driver's buffer is filled with
the neutral position or that of the accepted command, and outputs receive the buffer or the
command and nothing else. Until the driver is `ready` the buffer may also be filled with a message
that says nothing. The refinement maps `aliveTimestamp` to the grant, the datagram that the UDP
thread is inside `setPPM` or `Move` with to the command, the static message of `setPPM` to the
buffer, and the end of the scaling, with no duty from before it still to be stored, to `ready`.
What the board cannot promise is left out on purpose: that a revocation catches the command under
way, that a message reaches the output it was meant for, and that the message that says nothing
has gone when the driver is ready.

History variables (`stray`, `disturbed`, `stopped`) are read by no guard. `stopped` says that a
`stopAll` has left every axis neutral and no datagram came since: what `FailSafeHolds` claims of
the time after, and `rcboard_failsafe_race` refutes by a command already past its gate. The datagram
that a failed `recvfrom` parses again is another way (the same instance with `RecvFails` and a
`MaxTimeout` of 12 shows it). An alive stamped between `AlarmExpires` and `AlarmDisarms` is lost:
control is then taken from a station that was heard just now, which no property forbids.

### TankDrive

`Move` and `stopAll` become lists of driver writes that `DriverCall` works off one at a time, in
any interleaving of the three threads. Numbers are the program's (`Period` 1190, `Centre` 127).
`OpenPins` is main's open of the device, after it has started the UDP thread: until then a write
reaches nothing (`DriverWrite`), but `Move` remembers it as made, and the history variable
`lost` says so. `ReceiveFails` and `SendFails` are the `stopAll` of a failed `recvfrom` and
`sendto`. `caught` records that the alarm fell in the middle of a `Move` whose writes to come
drive a track; such a `Move` is the one way past the fail safe. The two axes of `config.axis`
are taken to be different outputs. When the lease expires is `RcBoard`'s subject; here
`AlarmFires` may happen whenever it is armed. Without `caught` `FailSafeStopsTracks` is false: such
a `Move` drives the tracks after the `stopAll`, and no lease is left to revoke. The servo channels of a tank use the code modelled
in `RcBoard`.

### Servo and Wire

`Servo` computes with C's division and the 0.042 us clock. `Wire` builds each datagram as its C#
code does, lays it over the front of the seven bytes that `parseCommand` can read, and executes
it with the gate open. The board's processor has 32-bit `long`, so `Signed` wraps. Buttons go
out as command 2 (`Joystick.cs:358`), the tank axis command; `PassesForAxis` says of a state of
the buttons whether its bytes pass for one, and `MCWire` has TLC list those that do: of all sums
of the bits that `buttonstate` can have, 2 and 512. The exclusive or of a checksum is `Xor`, over
the eight bits of a byte: the library's `Bitwise` is recursive, which the prover does not take.

### Telemetry

The wireless thread stores `wlanstatus` field by field while the main loop copies it into a
datagram, sends it, and clears it with a `memset`, without a lock. A field holds the number of
the reading that stored it, so that a copy can be seen to mix readings. The hundred bytes of the
message are two fields, `head` and `tail`, which is enough for a copy of them to be overtaken and
for a text to be shorter than the one before. `Stores(type)` gives the orders in which one reading
stores: Wi-Fi stores type, connected, message; a Yota modem's answer stores `State` before the
type and may lack it; LAN and Ubiquity have no message; a failed request stores nothing. `sprintf`
writes no further than the end of its text, so every reading stores the head of the message and
any may leave the tail as it is; the ground station shows what it finds there. `told` records the
type that was sent last. `SendVoltage` looks at `system_voltage` twice; `ReadInteger` and
`SendVoltage` are the two looks, and `Sample` may come between.

The code has facts that the properties leave room for. A status may show "disconnected" when it
was sent in the middle of a store; a `memset` may swallow a reading; the `State` of a Yota modem is
what it last was, and the tail what the last long text left. `NothingStale` exempts those two from
what it says of the readings' numbers, but not from its other clause: nothing is sent that is
older than the status sent before. If the two looks of `SendVoltage` straddle a full volt, the
decimal part wraps (`Encoded`, `Decoded`): `VoltageIsOneSeen` says that it does not, and
`torn_voltage` refutes it.

### BoardConfig and BoardStart

`boot` walks through `main` of `rcboard.c`: command line, configuration, the four stream
settings, three threads, the devices, the loop. A configuration is a sequence of assignments,
with `SyntaxError` where libconfuse stops; the result of `cfg_parse` is not looked at. Five
defaults are strings given to `CFG_INT` (`config.c:20`), so the number is an address
(`Address`); `ReadAsMeant` speaks of texts that set them. `curlParser` returns 1, so only the
first chunk of a remote configuration counts; `ReadAsMeant` speaks of texts in one piece.

`gstd` outlives the daemon. `RestartReapplies` compares it, before the loop, with the
configuration and with what it was when the process started: a setting that is 0, and the
initial host 127.0.0.1, leave what the process before had set. With the bitrate configured,
`SetBitrate` plays to the old ground station again. From the creation of the UDP thread until the
main loop, through the open of the device and the wait behind it, commands may already change the
pipeline (`StreamCommand`); `touched` records which settings they did, and `RestartReapplies`
speaks of the others. `EndProcess` chooses what the commands of the running process did to the
pipeline (module `RcBoard`).

### Iwlib and WlanInfo

The board calls few functions of the wireless tools it carries. `Iwlib` has the two layouts of
the range structure as sequences of fields with the offsets a 32-bit ARM compiler gives them,
the block moves of `iw_get_range_info`, the decoding of the eight bits of a signal level, and
the conversions between channel and frequency. `WlanInfo` is the order of requests in
`get_info`: each may fail, and between two of them the station may roam. A driver has a layout,
a version, a unit of signal level and a way to state a frequency. `display_info` prints into
`ifaceinfo`, whose texts survive a reading that failed, through one buffer that is not
initialised; a name of more than 17 letters runs from `ssid[20]` into `freq`. Texts are records
of what was printed, not letters.

### Keyboard and GroundLink

`ParseKeys` is one operator: a key's effect on `keystate`, on the speed, on the saved speed and
on `buttonstate`, then the two decisions what to send. Windows repeats a key while it is held,
and a window may see a press without its release or the reverse, so `Key(key, state)` may come
in any order.

`GroundLink` sends what `ParseKeys` decides over a link that loses, duplicates and reorders
(`up` is a set; `Receive` may leave the datagram in it) to a board in the role of client or
server, with the lease, the fail safe and restarts of the process. A board in the role of server
has no peer until it received something: `si_other` is its own socket's address, so it reads its
own alive, voltage and status as commands (`ReceiveOwn`), and forgets that only when a ground
station speaks. Commands and alarms are one step here, since `RcBoard` has their interleavings.

`VehicleFollowsKeys` names all that can part the vehicle from the keys: a lost, early or refused
last position (`upset`), a speed that key repetition changed without sending (`unsent`), and a
datagram still on its way. Two states of the buttons make bytes that pass for a tank axis command
(`PassesAs`): UP alone, for channel 2, and ADD2 alone, for channel 0, which runs `Move` on the
outputs of both axes whatever the vehicle is. `ButtonsHarmless` says that there are no others: the
servo of channel 2 is moved so only after an additional key was released with UP alone held, and
the outputs of the two axes only after ADD2 alone was pressed.

## Runs

| run | instance | shows |
|---|---|---|
| `rcboard_safety` | 2 axes through the swapped table of `rcboard.conf`, 2 stations and the loopback, timeout 1, restarts | `AtMostOneStray`, `NeutralAfterStopAll`, `StreamFollowsViewer` and the refinement `ImplementsDriveLease` over every interleaving of the UDP thread, the alarm and main's start-up |
| `rcboard_live` | 1 axis, 1 station, failing sends and receives | `LeaseExpires` and `AlarmNeutralises` under `FairSpec`, with three threads that may be inside a `stopAll` |
| `rcboard_failsafe_race` | 1 axis | violates `FailSafeHolds`: a command already past its gate drives the vehicle after the fail safe, and nothing stops it again |
| `rcboard_video_flag` | 1 axis | violates `VideoFlagHonest`: the flag is taken down without a stream having been started |
| `tank_drive` | sticks 0, 127, 255 | `CentredSticksStop`, `FailSafeStopsTracks`, `AheadWithinPeriod` over every interleaving of driver writes |
| `tank_reversal` | sticks 0, 127, 254 | violates `OnlyRepeatsSuppressed`: reversing at equal magnitude is dropped as a repetition |
| `wire` | boundary bytes, rates of every sign and byte pattern, default zeroes | `ExecutesWhatWasMeant` over every leftover in the buffer; `PulseInRange` |
| `wire_buttons` | the keys value 512 | violates `ExecutesWhatWasMeant`: this value of the buttons passes the checksum of the tank command, for channel 0 |
| `wlan_info` | 5 drivers: both layouts, every unit, channels and frequencies; 2 cells at the edges; all or some values silent | `RangeTranslated`, `LinkDecodes`, `FreqShown`, `LinkIsStatistics` over every failing request and every roam between two requests |
| `board_telemetry` | 5 texts, 4 answers, 3 command lines, commands before the loop, restarts; no link, Wi-Fi, Yota and LAN (Ubiquiti stores what LAN does), readings counted to 3 | `ReadAsMeant` and `RestartReapplies` over starts and restarts; `SentAtMostOnce`, `NothingStale`, `StatusKeepsComing` over every interleaving of the stores with the copy and the memset |
| `torn_voltage` | 0, 7.99 and 8.00 V | violates `VoltageIsOneSeen`: a fall by a hundredth between the two looks is shown as 10.55 V |
| `ground_link` | two drivers' keys (throttle, boost and a speed key; throttle and the key ADD2), 2 datagrams in flight, both roles | `VehicleFollowsKeys`, `ButtonsHarmless`, `BoostEnds`, `LoopEnds` with loss, duplication, reordering, fail safes and restarts |

**Why the bounds are enough.** The lease is compared with its timeout only, so fresh and expired
(`MaxTimeout = 1`) are all it can be. Two axes are the least with which a `stopAll` has a first
and a last and a `setPPM` can mix channels; two hosts the least with which the client changes; two
positions tell neutral from driven. Values in `Wire` are the ends of a byte, the centre and
its neighbours. `rcboard_safety` leaves the failing sends and receives to `rcboard_live`: the
`stopAll` of the alarm is already concurrent with the UDP thread, and the theorems below allow for
all three at once. The passing run of `Wire` leaves the buttons value 512 to its own run, since one
such datagram is a disagreement already; what becomes of it and of 2 on an RC vehicle is
`ground_link`'s.

`wlan_info`: a driver is told apart by its layout, its version's side of each comparison in the
code (9, 10, 11, 15, 16, 19 and later) and its unit, and there is one for each; the cells are a
level of 0, a percentage of 0 and 100, a name that fits and one that does not.
`board_telemetry`: three readings are the least with which a field can be two readings old, the
depth at which `NothingStale` would fail; one voltage, since none of its properties looks at it
(`torn_voltage` has three). Its texts are the empty one, one that is complete, one that repeats
keys, one with an error in its middle, one with a role nobody knows. `ground_link`: two
datagrams in flight are the least that can overtake each other; a middle of 2 with steps of 1
has a speed that is none, one that is half and one that is boosted. One axis is followed, since
each is handled alone and they share no state but the keys; `InFlight` bounds the link in the
guards of the sends.

**Fairness.** `FairSpec` assumes that the clock ticks, that the interval timer keeps firing and
its handler runs to its end (`it_interval` is set, `gst-client` returns), and that main gets
through its start-up, which starts the timer. Nothing is assumed of the network, of the UDP
thread or of the sends of main. Weak fairness suffices: nothing disables the alarm once it can
step, except a renewal or a restart, which the properties allow for. `TelemetryFairness` assumes
that the wireless thread and the main loop go on: both sleep for a bounded time (`usleep`,
`sleep`) and wait for nobody. `StatusKeepsComing` needs no more, although each `memset` may
swallow part of a reading. A Yota modem is left out of it: its requests may all fail.
`GroundLink` and `WlanInfo` state no liveness: nothing obliges a datagram to arrive or a request
to succeed.

## Proofs

From `ConfigAssumption` alone (any number of axes, outputs and hosts, any axis table and
timeout, failing sends and receives allowed), `RcBoardProofs` proves

* `TypeCorrect` - `Spec => []TypeOK`, in particular that the stored client is never the board
  itself;
* `StrayBounded` - `Spec => []AtMostOneStray`;
* `StopAllNeutralises` - `Spec => []NeutralAfterStopAll`;
* `StreamSafety` - `Spec => StreamFollowsViewer`;
* `LeaseImplemented` - `Spec => ImplementsDriveLease`, every step being one of `DriveLease` or a
  stutter.

None of the properties is inductive: `AtMostOneStray` says nothing of a command that has passed
its gate and not yet reached the driver, `NeutralAfterStopAll` nothing of a loop half done.
`IInv` adds: where each thread can be and what its loop variable says about it (`ControlInv`),
that the datagram stays the alive it was while an alive is handled (`ViewerInv`), which outputs are
scaled and what duty a thread carries (`DutyInv`), that a command inside `setPPM` or `Move` was
let in under a lease (`StrayInv`), that nobody hands the driver an unfilled
message (`MessageInv`), and that as long as nobody disturbs a `stopAll` the shared buffer holds
what it put there and the axes it has passed are neutral (`DisturbInv`). The alarm revokes the
lease at most once per stamp and the UDP thread has at most one command past its gate: so one
stray at most. The proof shows for every action and every conjunct it can disturb that it is
kept (`TypeStep`, `ControlStep`, `ViewerStep`, `DutyStep`, `MessageStep`, `StrayStep`,
`DisturbStep`).

From `SticksAssumption` alone (any set of stick bytes), `TankDriveProofs` proves

* `TypeCorrect` - `Spec => []TypeOK`;
* `CentreStops` - `Spec => []CentredSticksStop`;
* `FailSafeStops` - `Spec => []FailSafeStopsTracks`;
* `AheadLimited` - `Spec => []AheadWithinPeriod`.

Again none of the properties is inductive: they speak of outputs at rest, and what decides is the
writes still to come. `StopInv` says that those of the alarm and of main are a tail of a
`stopAll`, and what the alarm's tail has passed; `CentreInv` that with centred sticks the UDP
thread has made the first n of the one list of writes `Move` makes then (`CentreCalls`), or is
inside a `stopAll` behind it, and which outputs are zero after n; `SaveInv` that `save_speed`
belongs to the sticks. The heart is `OffCentre`: one stick off its centre asks for a duty, so
the last stick to be centred is never taken for a repetition. `StopStep`, `SaveStep` and
`CentreStep` go through the actions. For `AheadLimited`, `AheadInv` says of each track that, of the
writes to come and the output as it is, either the forward pin ends low or every duty is within
the period: `Move` writes the pin low when the mixed speed is negative, and a duty it limits when
it is not; a `stopAll` between two of its writes only lowers the duty.

From `WireAssumption` (any stick bytes, any 32-bit rates, any table of axes, any zeroes and
ranges), `WireProofs` proves of the scaling that a servo with its zero at 90 stays within its
range (`CentredServoInRange`), that steering is monotone (`PulseMonotone`), and that a stick at
rest is the fail-safe pulse (`RestIsNeutral`); and of the datagrams

* `ExecutedAsMeant` - `Spec => []ExecutesWhatWasMeant`, if no state of the buttons passes for an
  axis command. The run `wire_buttons` shows that the hypothesis is needed, `ButtonsThatPass`
  which two states it leaves out;
* `PulsesInRange` - `Spec => []PulseInRange`, if every zero is 90. `ShippedZeroTooFar` shows that
  this hypothesis is needed too: with `ppm1_zero=105`, as `rcboard.conf` has it, a stick byte of 235
  asks for a pulse beyond `ppm1_max`, and nothing limits it.

Both are inductive as they stand, since a step overwrites all they speak of. The work is in one
lemma per datagram: whatever the buffer held, laid over it (`AliveLaid`, `AxisLaid`, ...) the
datagram's own bytes are all that its command's checksum and arguments look at, and the checksum
matches; and `SignedOfLittleEndian`, that the four bytes of a 32-bit number give it back. Of `Xor`
the proofs use nothing: they hold for any checksum.

From `TelemetryAssumption` alone (any number of readings, any set of voltages below 256 V that
has 0), `TelemetryProofs` proves

* `TelemetryTypes` - `TelemetrySpec => []TelemetryTypeOK`;
* `SentOnce` - `TelemetrySpec => []SentAtMostOnce`;
* `NothingStaleSent` - `TelemetrySpec => []NothingStale`.

`SentInv` says that a field with a value is yet to be sent or was copied and not yet cleared:
the copy and the memset both go from the first field to the last, and a store in between makes
the field unsent again, or is itself erased. `FreshInv` says that a field holds the current
reading's number, or the one before if the current reading has still to store it: that is so of the
fields that every reading of the link stores (`Written`), not of the tail and of a Yota's `State`
(`Optional`). `BufferInv` carries it into the copy. `ToldInv` holds of every field: what the memset
behind a status has passed was stored by that status' reading or a later one, because readings do
not overlap.

From the assumptions of its parts and `TextsAssumption` (every text that may be loaded is a
sequence of lines and names one of the five kinds of link), `BoardStartProofs` proves

* `TelemetryImplemented` - `BoardSpec => TelemetrySpec`;
* `BoardTelemetry` - hence the three properties above for the whole life of the board;
* `StartReapplies` - `BoardSpec => []RestartReapplies`;
* `ConfigurationRead` - `BoardSpec => []ReadAsMeant`.

`PipelineInv` says stage by stage which settings a living pipeline has from the configuration and
which still from before, except for those that a command has touched, that nothing is touched
before the UDP thread runs, and that the stream does not play when the daemon starts.

What a text means is the last assignment of each key; what the board does is a fold of its lines
over the defaults. `AssignedLast` says that they agree for a text of any length: of the lengths
at which the fold and its closed form differ there would be a least, and one line before it they
agree. From that, `TextAsMeant` reads one text, role and `verbose` included, and `LoadedText`
and `StillLoaded` say that `load_config` sets `config` from the text and that nothing changes it
before the first setting is applied.

From `KeyboardAssumption` and `LinkAssumption` alone (any middle and step, any drivers, any number
of datagrams in flight, any timeout), `GroundLinkProofs` proves

* `GroundTypes` - `Spec => []TypeOK`;
* `VehicleFollows` - `Spec => []VehicleFollowsKeys`;
* `BoostGivesBack` - `Spec => BoostEnds`;
* `LoopsEnd` - `Spec => LoopEnds`;
* `ButtonsAreHarmless` - `Spec => []ButtonsHarmless`.

`VehicleFollowsKeys` says nothing of the values in flight; `LastInv` does: the last position of an
axis is the one the keys ask for, and nothing is in flight before there is somebody to send to. A
change of `keystate` sends every axis and makes all older positions old (`KeySupersedes`); a key
that does not change it leaves the axes in flight alone (`KeyLeavesAxes`) and, unless it is one of
the speed keys, the speed too. `BoostInv` says that what is saved during a boost is the speed it
began with, `PeerInv` that a client knows its peer from the start, `SlipInv` that only a slip puts
a buttons datagram that passes for an axis into the link.

From the assumptions of `WlanInfo` (a driver's version fits its layout, a level is one eight bits
can say, a table of channels has numbers or the right frequencies), `WlanInfoProofs` proves for
any set of drivers, cells and silences

* `ReadingTypes` - `Spec => []TypeOK`;
* `LinkTextHonest` - `Spec => []LinkIsStatistics`;
* `LevelsTrue` - `Spec => []LinkDecodes`;
* `FrequencyTrue` - `Spec => []FreqShown`;
* `RangeUnderstood` - `Spec => []RangeTranslated`.

The last three rest on `IwlibProofs`, which assumes nothing:

* `LayoutsDoAgree` - `LayoutsAgree`: the block moves of `iw_get_range_info` put every field of the
  old layout where the new one has it and nothing anywhere else, and the version is at the same
  place in both.

It is a statement about two fixed lists of fields, but their offsets are sums along the lists.
Two tables write the places and sizes down. A layout that spells a table is laid out as the table
says (`LaidOut`), because the recursion has one solution: take the least place where another one
differs, and the place before it already did. `SourceIs` then says of every byte of the new
structure where it comes from, and the rest is arithmetic on the tables.

The properties speak of texts, and what decides is what `info` holds before they are printed. The
inductive invariant is `ReadInv`: of every answer `info` claims to have, it holds the one that the
driver gave of the cell `of` names, and the statistics were asked for in the way that the range
still says, because no range comes after them. The rest is about single answers. `EncodedBytes`
says which bytes a driver sends, `UnitShown` in what unit they are shown, driver by driver,
`LinkOf` that the number shown is then the true one, `TextParts` that a text says nothing only if
every flag tells it to. `ChannelKept` says that a channel survives the normal form of frequencies,
`FreqOf` that the table corrects it to the frequency of the cell or leaves it a channel.

Only model-checked: liveness (`LeaseExpires`, `AlarmNeutralises`, `StatusKeepsComing`), which is
beyond the prover, and the closed fact `ButtonsThatPass`.

## Plan

The modules are written and what they promise is proved, but for the list above. Next would be
the joystick's polling (below) and the ground station's `connected` with its lag, each as a
module beside `Keyboard`.

## Not modelled

* Joystick polling: what an axis is comes from DirectInput; what becomes of a position once it
  is sent is in `GroundLink` and `Wire`.
* `ReceiveTimer`, `connected` and the lag: what the ground displays. Nothing it sends depends on
  them.
* Sockets' set-up, UPnP, settings, dialogs, the video player and windows: calls into Windows and
  GStreamer in a fixed order, whose results are not looked at, and layout.
* The rest of `iwlib`: printing and parsing for command-line tools that the board never calls.
  Its lines are most of the C code, which is why so many of them stand for nothing here.
* `setEXTPWM`, `StopStream`, `PlayStream`: never called.
* The lengths of texts, but for the ESSID's and for whether a text leaves an older tail: they are
  the driver's and the modem's.
* The set-up part of `run.sh`, and the C library's locks that the signal handler may interrupt.
