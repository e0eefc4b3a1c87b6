------------------------------ MODULE RcBoard ------------------------------
(***************************************************************************)
(* The command and fail-safe core of the board daemon `rcboard' for an RC  *)
(* vehicle (config.devicetype = 0): the UDP thread that executes commands  *)
(* (udpclient.c, commands.c), the SIGALRM handler that revokes control     *)
(* when the ground station falls silent (timers.c), the main loop whose    *)
(* failing sends also stop the vehicle (rcboard.c), the PPM driver calls   *)
(* (virt2real.c) and the video stream they start and pause (video.c).      *)
(*                                                                         *)
(* The three share every global of vars.h without a lock, so each access   *)
(* of a shared variable is a step.  The handler of a process-wide timer    *)
(* signal runs on whichever thread the kernel picks, at any instruction;   *)
(* it is modelled as a thread of its own, "alarm".                         *)
(*                                                                         *)
(* The network is the environment: any legal datagram may arrive whenever  *)
(* the UDP thread waits, which covers loss, duplication and reordering.    *)
(***************************************************************************)
EXTENDS Naturals

CONSTANTS
  NumAxes,      \* length of config.axis
  Servos,       \* the PPM outputs, indices of config.ppm
  axis,         \* config.axis: which output a logical axis drives
  Positions,    \* pulse widths the commands of this vehicle can ask for
  Neutral,      \* the one of config.ppm[].zero
  Off,          \* an output that was never driven
  Unscaled,     \* what setPPM makes for an output main has not scaled yet
  Tracked,      \* the duty and period that Move gives an output
  Hosts,        \* addresses a ground station may send from
  Loopback,     \* 127.0.0.1
  NoHost,       \* prev_remote_host before the first client
  InitialHost,  \* config.initialhost, where the stream is sent at start
  InitialPeer,  \* si_other before the first datagram: server_host or 0.0.0.0
  MaxTimeout,   \* config.alive_maxtimeout, in seconds of the monotonic clock
  RecvFails,    \* recvfrom may return -1
  SendFails     \* sendto may return -1

AxisIndex == 0 .. NumAxes - 1

ASSUME ConfigAssumption ==
  /\ NumAxes \in Nat \ {0}
  /\ MaxTimeout \in Nat \ {0}
  /\ Servos \subseteq Nat
  /\ axis \in [AxisIndex -> Servos]
  /\ Neutral \in Positions
  /\ Off \notin Positions \cup {Unscaled, Tracked}
  /\ Unscaled \notin Positions \cup {Tracked}
  /\ Tracked \notin Positions
  /\ InitialPeer \in Hosts
  /\ InitialHost \in Hosts \cup {Loopback}
  /\ Loopback \notin Hosts
  /\ NoHost \notin Hosts \cup {Loopback}
  /\ RecvFails \in BOOLEAN
  /\ SendFails \in BOOLEAN

VARIABLES
  armed,             \* aliveTimestamp # 0
  age,               \* now - aliveTimestamp, counted up to MaxTimeout
  clienttype,        \* 1 iff the last client said it can show video
  videoneedstart,
  prev_remote_host,
  buf,               \* the datagram in the receive buffer, never cleared
  si_other,          \* sender of the last datagram; remote_host is its text
  scaled,            \* the outputs whose ppm_min, ppm_delta, ... are computed
  duty,              \* ppm_duty, while a thread is about to store it
  ppm,               \* the static buffer of setPPM: channel and duty
  servo,             \* what each output last received from the driver
  playing,           \* gstd: the pipeline is in the playing state
  videoHost,         \* gstd: the host property of udpsink0
  pc,                \* where each thread is
  i,                 \* the loop variable of stopAll in each thread
  (* history, read by no guard *)
  stray,             \* commands executed since control was revoked
  disturbed,         \* another thread used setPPM during this thread's stopAll
  stopped            \* a stopAll left every axis neutral, no datagram since

lease == <<armed, age>>
client == <<clienttype, videoneedstart, prev_remote_host>>
datagram == <<buf, si_other>>
actuators == <<scaled, duty, ppm, servo>>
gstd == <<playing, videoHost>>
history == <<stray, disturbed, stopped>>
vars == <<lease, client, datagram, actuators, gstd, pc, i, history>>

Threads == {"udp", "alarm", "main"}
InSetPPM == {"fill", "duty", "write"}
InMove == {"second", "first"}
Driving == InSetPPM \cup InMove
Opening == {"open", "scale"}
Disconnecting == {"flag", "type", "pause"}
Labels == Driving \cup Disconnecting \cup Opening \cup
  {"recv", "parse", "stamp", "check", "play", "gst", "save",
   "idle", "disarm", "timer", "send", "down"}

(* Datagrams by what parseCommand makes of them.  An "axis" frame stands    *)
(* for command 1 and for channels 2 and 3 of command 2, which share their   *)
(* code; a "track" frame for channels 0 and 1 of command 2, which run Move  *)
(* whatever devicetype is: the ground station sends one to an RC vehicle    *)
(* when the buttons' bytes pass the checksum.  It repeats if its sticks mix *)
(* to the duties Move has saved (TankDrive has the arithmetic).  "other" is *)
(* every datagram that changes no state of this module: a wrong checksum,   *)
(* most buttons, the MTU command, an unknown command.                       *)
AliveFrames == [cmd : {"alive"}, type : {0, 1}]
AxisFrames == [cmd : {"axis"}, channel : AxisIndex, pos : Positions]
TrackFrames == [cmd : {"track"}, repeats : BOOLEAN]
Frames == AliveFrames \cup AxisFrames \cup TrackFrames \cup
          [cmd : {"bitrate", "restart", "other"}]

\* The buffer is static: before the first datagram it holds zeroes, which
\* parse as the alive of a client that shows no video, checksum included.
ZeroFrame == [cmd |-> "alive", type |-> 0]

TypeOK ==
  /\ armed \in BOOLEAN
  /\ age \in 0 .. MaxTimeout
  /\ clienttype \in {0, 1}
  /\ videoneedstart \in BOOLEAN
  /\ prev_remote_host \in Hosts \cup {NoHost}
  /\ buf \in Frames
  /\ si_other \in Hosts \cup {Loopback}
  /\ scaled \subseteq Servos
  /\ duty \in [Threads -> Positions \cup {Off, Unscaled}]
  /\ ppm \in [ch : Servos, pos : Positions \cup {Off, Unscaled}]
  /\ servo \in [Servos -> Positions \cup {Off, Unscaled, Tracked}]
  /\ playing \in BOOLEAN
  /\ videoHost \in Hosts \cup {Loopback}
  /\ pc \in [Threads -> Labels]
  /\ i \in [Threads -> 0 .. NumAxes]
  /\ stray \in Nat
  /\ disturbed \in [Threads -> BOOLEAN]
  /\ stopped \in BOOLEAN

-----------------------------------------------------------------------------
(* The process starts with zeroed globals.  The pipeline outlives it: at    *)
(* start SetBitrate leaves it playing to whatever host it was given last.   *)

BootLabels == [t \in Threads |-> CASE t = "udp" -> "recv"
                                   [] t = "alarm" -> "idle"
                                   [] t = "main" -> "open"]

Init ==
  /\ armed = FALSE /\ age = 0
  /\ clienttype = 0 /\ videoneedstart = TRUE /\ prev_remote_host = NoHost
  /\ buf = ZeroFrame /\ si_other = InitialPeer
  /\ scaled = {} /\ duty = [t \in Threads |-> Off]
  /\ ppm = [ch |-> axis[0], pos |-> Off]
  /\ servo = [s \in Servos |-> Off]
  /\ playing = TRUE /\ videoHost = InitialHost
  /\ pc = BootLabels
  /\ i = [t \in Threads |-> NumAxes]
  /\ stray = 0
  /\ disturbed = [t \in Threads |-> FALSE]
  /\ stopped = FALSE

Goto(t, label) == pc' = [pc EXCEPT ![t] = label]

\* Inside stopAll: in its loop or in the ClientDisconnected that follows.
Stopping(t) == i[t] < NumAxes \/ pc[t] \in Disconnecting

\* A thread begins to drive: every stopAll under way in another is disturbed.
Disturb(t) == [u \in Threads |->
                 IF u # t /\ Stopping(u) THEN TRUE ELSE disturbed[u]]

-----------------------------------------------------------------------------
(* setPPM(channel, value): compute the duty, fill the static buffer, hand   *)
(* it to the driver.  A thread inside stopAll passes the neutral position   *)
(* of axis i, the UDP thread inside parseCommand what the datagram asks     *)
(* for.  The duty of an output that main has not scaled yet comes out as 0, *)
(* or as the least pulse, and its period as 0.                              *)

ArgChannel(t) == IF i[t] < NumAxes THEN axis[i[t]] ELSE axis[buf.channel]
ArgPos(t) == IF i[t] < NumAxes THEN Neutral ELSE buf.pos

FillChannel(t) ==
  /\ pc[t] = "fill"
  /\ duty' = [duty EXCEPT ![t] =
                 IF ArgChannel(t) \in scaled THEN ArgPos(t) ELSE Unscaled]
  /\ ppm' = [ppm EXCEPT !.ch = ArgChannel(t)]
  /\ Goto(t, "duty")
  /\ UNCHANGED <<lease, client, datagram, scaled, servo, gstd, i, history>>

FillDuty(t) ==
  /\ pc[t] = "duty"
  /\ ppm' = [ppm EXCEPT !.pos = duty[t]]
  /\ duty' = [duty EXCEPT ![t] = Off]
  /\ Goto(t, "write")
  /\ UNCHANGED <<lease, client, datagram, scaled, servo, gstd, i, history>>

\* write(fd_pwm): nothing reaches an output before main has opened the device.
Write(s, pos) ==
  servo' = IF pc["main"] = "open" THEN servo ELSE [servo EXCEPT ![s] = pos]

DriverWrite == Write(ppm.ch, ppm.pos)

\* The write that ends setPPM in parseCommand.
WriteCommand ==
  /\ pc["udp"] = "write" /\ i["udp"] = NumAxes
  /\ DriverWrite
  /\ stray' = IF armed THEN stray ELSE stray + 1
  /\ Goto("udp", "recv")
  /\ UNCHANGED <<lease, client, datagram, scaled, duty, ppm, gstd, i,
                 disturbed, stopped>>

Neutralised == \A a \in AxisIndex : servo[axis[a]] = Neutral

\* A mutant: the loop of stopAll never advances.
WriteNeutralForever(t) ==
  /\ pc[t] = "write" /\ i[t] < NumAxes
  /\ DriverWrite
  /\ Goto(t, "fill")
  /\ UNCHANGED <<lease, client, datagram, scaled, duty, ppm, gstd, i, history>>

\* The write that ends setPPM in stopAll, and the step of its loop.
WriteNeutral(t) ==
  /\ pc[t] = "write" /\ i[t] < NumAxes
  /\ DriverWrite
  /\ i' = [i EXCEPT ![t] = @ + 1]
  /\ Goto(t, IF i[t] + 1 < NumAxes THEN "fill" ELSE "flag")
  /\ stopped' = (stopped \/ (i[t] + 1 = NumAxes /\ Neutralised'))
  /\ UNCHANGED <<lease, client, datagram, scaled, duty, ppm, gstd, stray,
                 disturbed>>

-----------------------------------------------------------------------------
(* stopAll and the ClientDisconnected it ends with.                         *)

\* A mutant: the loop starts at the second axis.
BeginStopAllFromOne(t) ==
  /\ i' = [i EXCEPT ![t] = IF NumAxes > 1 THEN 1 ELSE 0]
  /\ Goto(t, "fill")
  /\ disturbed' = [Disturb(t) EXCEPT ![t] =
       pc["main"] \in Opening \/ \E u \in Threads \ {t} : pc[u] \in Driving]

BeginStopAll(t) ==
  /\ i' = [i EXCEPT ![t] = 0]
  /\ Goto(t, "fill")
  /\ disturbed' = [Disturb(t) EXCEPT ![t] =
       pc["main"] \in Opening \/ \E u \in Threads \ {t} : pc[u] \in Driving]

FlagVideo(t) ==
  /\ pc[t] = "flag"
  /\ videoneedstart' = TRUE
  /\ Goto(t, "type")
  /\ UNCHANGED <<lease, clienttype, prev_remote_host, datagram, actuators,
                 gstd, i, history>>

ClearClientType(t) ==
  /\ pc[t] = "type"
  /\ clienttype' = 0
  /\ Goto(t, "pause")
  /\ UNCHANGED <<lease, videoneedstart, prev_remote_host, datagram, actuators,
                 gstd, i, history>>

AfterStopAll == [t \in Threads |-> CASE t = "udp" -> "parse"
                                     [] t = "alarm" -> "idle"
                                     [] t = "main" -> "send"]

PauseStream(t) ==
  /\ pc[t] = "pause"
  /\ playing' = FALSE
  /\ Goto(t, AfterStopAll[t])
  /\ disturbed' = [disturbed EXCEPT ![t] = FALSE]
  /\ UNCHANGED <<lease, client, datagram, actuators, videoHost, i, stray,
                 stopped>>

StopAll(t) == FillChannel(t) \/ FillDuty(t) \/ WriteNeutral(t)
              \/ FlagVideo(t) \/ ClearClientType(t) \/ PauseStream(t)

-----------------------------------------------------------------------------
(* The UDP thread.                                                          *)

Receive(frame, host) ==
  /\ pc["udp"] = "recv"
  /\ buf' = frame /\ si_other' = host
  /\ Goto("udp", "parse")
  /\ stopped' = FALSE
  /\ UNCHANGED <<lease, client, actuators, gstd, i, stray, disturbed>>

\* The result of the comparison, 1, is what lands in recv_len: after the
\* fail safe the thread goes on to parse the datagram it still has.
ReceiveFails ==
  /\ RecvFails /\ pc["udp"] = "recv"
  /\ BeginStopAll("udp")
  /\ UNCHANGED <<lease, client, datagram, actuators, gstd, stray, stopped>>

ParseAlive ==
  /\ pc["udp"] = "parse" /\ buf.cmd = "alive"
  /\ clienttype' = buf.type
  /\ Goto("udp", "stamp")
  /\ UNCHANGED <<lease, videoneedstart, prev_remote_host, datagram, actuators,
                 gstd, i, history>>

Stamp ==
  /\ pc["udp"] = "stamp"
  /\ armed' = TRUE /\ age' = 0
  /\ stray' = 0
  /\ Goto("udp", "check")
  /\ UNCHANGED <<client, datagram, actuators, gstd, i, disturbed, stopped>>

\* A mutant: the comparison with 127.0.0.1 is missing.
CheckRemoteClientWithLoopback ==
  /\ pc["udp"] = "check"
  /\ LET sameClient == si_other = prev_remote_host /\ ~videoneedstart
     IN Goto("udp", IF sameClient THEN "recv" ELSE "play")
  /\ UNCHANGED <<lease, client, datagram, actuators, gstd, i, history>>

CheckRemoteClient ==
  /\ pc["udp"] = "check"
  /\ LET sameClient == si_other = prev_remote_host /\ ~videoneedstart
     IN Goto("udp", IF si_other = Loopback \/ sameClient THEN "recv" ELSE "play")
  /\ UNCHANGED <<lease, client, datagram, actuators, gstd, i, history>>

\* A mutant: the stream is started whatever the client said.
PlayStreamToAnyone ==
  /\ pc["udp"] = "play"
  /\ Goto("udp", "gst")
  /\ UNCHANGED <<lease, client, datagram, actuators, gstd, i, history>>

PlayStreamTo ==
  /\ pc["udp"] = "play"
  /\ Goto("udp", IF clienttype = 0 THEN "save" ELSE "gst")
  /\ UNCHANGED <<lease, client, datagram, actuators, gstd, i, history>>

\* system("gst-client set udpsink0 host && gst-client play")
RunGstClient ==
  /\ pc["udp"] = "gst"
  /\ videoHost' = si_other /\ playing' = TRUE
  /\ Goto("udp", "save")
  /\ UNCHANGED <<lease, client, datagram, actuators, i, history>>

SaveHost ==
  /\ pc["udp"] = "save"
  /\ prev_remote_host' = si_other /\ videoneedstart' = FALSE
  /\ Goto("udp", "recv")
  /\ UNCHANGED <<lease, clienttype, datagram, actuators, gstd, i, history>>

\* A mutant: commands are not gated.
ParseAxisUngated ==
  /\ pc["udp"] = "parse" /\ buf.cmd = "axis"
  /\ Goto("udp", "fill")
  /\ disturbed' = Disturb("udp")
  /\ UNCHANGED <<lease, client, datagram, actuators, gstd, i, stray, stopped>>

\* `if (!aliveTimestamp) break', the gate of every driving command.
ParseAxis ==
  /\ pc["udp"] = "parse" /\ buf.cmd = "axis"
  /\ Goto("udp", IF armed THEN "fill" ELSE "recv")
  /\ disturbed' = IF armed THEN Disturb("udp") ELSE disturbed
  /\ UNCHANGED <<lease, client, datagram, actuators, gstd, i, stray, stopped>>

(* Channels 0 and 1 of command 2: behind the gate, Move, which leaves if it  *)
(* would repeat itself and otherwise hands the driver a message of its own  *)
(* for the output of axis 1 and then one for that of axis 0.  Its setPin    *)
(* calls go to pins that are no output of this module.  The same datagram   *)
(* parsed again would be a repetition.                                      *)

ParseTrack ==
  /\ pc["udp"] = "parse" /\ buf.cmd = "track"
  /\ LET drives == armed /\ ~buf.repeats
     IN /\ Goto("udp", IF ~drives THEN "recv"
                       ELSE IF NumAxes > 1 THEN "second" ELSE "first")
        /\ disturbed' = IF drives THEN Disturb("udp") ELSE disturbed
  /\ buf' = IF armed THEN [buf EXCEPT !.repeats = TRUE] ELSE buf
  /\ UNCHANGED <<lease, client, si_other, actuators, gstd, i, stray, stopped>>

DriveSecond ==
  /\ pc["udp"] = "second"
  /\ Write(axis[1], Tracked)
  /\ Goto("udp", "first")
  /\ UNCHANGED <<lease, client, datagram, scaled, duty, ppm, gstd, i, history>>

DriveFirst ==
  /\ pc["udp"] = "first"
  /\ Write(axis[0], Tracked)
  /\ stray' = IF armed THEN stray ELSE stray + 1
  /\ Goto("udp", "recv")
  /\ UNCHANGED <<lease, client, datagram, scaled, duty, ppm, gstd, i,
                 disturbed, stopped>>

\* SetBitrate: null, set, play; neither the lease nor clienttype is asked.
ParseBitrate ==
  /\ pc["udp"] = "parse" /\ buf.cmd = "bitrate"
  /\ playing' = TRUE
  /\ Goto("udp", "recv")
  /\ UNCHANGED <<lease, client, datagram, actuators, videoHost, i, history>>

ParseOther ==
  /\ pc["udp"] = "parse" /\ buf.cmd = "other"
  /\ Goto("udp", "recv")
  /\ UNCHANGED <<lease, client, datagram, actuators, gstd, i, history>>

\* exit(2): the process dies with its globals, wherever its other threads
\* are; the outputs keep their last pulse and run.sh pauses the pipeline.
ParseRestart ==
  /\ pc["udp"] = "parse" /\ buf.cmd = "restart"
  /\ armed' = FALSE /\ age' = 0
  /\ clienttype' = 0 /\ videoneedstart' = TRUE /\ prev_remote_host' = NoHost
  /\ buf' = ZeroFrame /\ si_other' = InitialPeer
  /\ scaled' = {} /\ duty' = [t \in Threads |-> Off]
  /\ ppm' = [ch |-> axis[0], pos |-> Off]
  /\ playing' = FALSE
  /\ pc' = [t \in Threads |-> "down"]
  /\ i' = [t \in Threads |-> NumAxes]
  /\ stray' = 0 /\ stopped' = FALSE
  /\ disturbed' = [t \in Threads |-> FALSE]
  /\ UNCHANGED <<servo, videoHost>>

Udp ==
  \/ ReceiveFails \/ ParseAlive \/ Stamp \/ CheckRemoteClient \/ PlayStreamTo
  \/ RunGstClient \/ SaveHost \/ ParseAxis \/ WriteCommand
  \/ ParseTrack \/ DriveSecond \/ DriveFirst
  \/ ParseBitrate \/ ParseOther \/ ParseRestart \/ StopAll("udp")

-----------------------------------------------------------------------------
(* The alarm handler, once main has started the timer.  A run that finds    *)
(* nothing expired only arms the next one.                                  *)

AlarmExpires ==
  /\ pc["alarm"] = "idle" /\ pc["main"] \notin Opening \cup {"timer", "down"}
  /\ armed /\ age >= MaxTimeout
  /\ Goto("alarm", "disarm")
  /\ UNCHANGED <<lease, client, datagram, actuators, gstd, i, history>>

\* A mutant: the handler stops the vehicle but leaves aliveTimestamp set.
AlarmStopsOnly ==
  /\ pc["alarm"] = "disarm"
  /\ BeginStopAll("alarm")
  /\ UNCHANGED <<lease, client, datagram, actuators, gstd, stray, stopped>>

AlarmDisarms ==
  /\ pc["alarm"] = "disarm"
  /\ armed' = FALSE /\ age' = 0
  /\ BeginStopAll("alarm")
  /\ UNCHANGED <<client, datagram, actuators, gstd, stray, stopped>>

Alarm == AlarmExpires \/ AlarmDisarms \/ StopAll("alarm")

-----------------------------------------------------------------------------
(* The main thread: its start-up, then a loop of sends, each of which may   *)
(* fail.  A send that succeeds changes nothing here.                        *)

\* A mutant: the outputs are not scaled.
OpenPinsOnly ==
  /\ pc["main"] = "open"
  /\ Goto("main", "timer")
  /\ UNCHANGED <<lease, client, datagram, actuators, gstd, i, history>>

OpenPins ==
  /\ pc["main"] = "open"
  /\ Goto("main", "scale")
  /\ UNCHANGED <<lease, client, datagram, actuators, gstd, i, history>>

\* One pass of the loop behind the open, in the order of the outputs.  The
\* UDP thread is running already and may be in setPPM.
ScaleOutput ==
  /\ pc["main"] = "scale"
  /\ \E s \in Servos \ scaled :
       /\ \A r \in Servos \ scaled : s <= r
       /\ scaled' = scaled \cup {s}
  /\ Goto("main", IF scaled' = Servos THEN "timer" ELSE "scale")
  /\ UNCHANGED <<lease, client, datagram, duty, ppm, servo, gstd, i, history>>

StartTimer ==
  /\ pc["main"] = "timer"
  /\ Goto("main", "send")
  /\ UNCHANGED <<lease, client, datagram, actuators, gstd, i, history>>

SendFailsafe ==
  /\ SendFails /\ pc["main"] = "send"
  /\ BeginStopAll("main")
  /\ UNCHANGED <<lease, client, datagram, actuators, gstd, stray, stopped>>

Main == OpenPins \/ ScaleOutput \/ StartTimer \/ SendFailsafe \/ StopAll("main")

-----------------------------------------------------------------------------
(* The clock, and the loop of run.sh that starts a new process.             *)

Tick ==
  /\ armed /\ age < MaxTimeout
  /\ age' = age + 1
  /\ UNCHANGED <<armed, client, datagram, actuators, gstd, pc, i, history>>

Boot ==
  /\ pc["main"] = "down"
  /\ pc' = BootLabels
  /\ playing' = TRUE
  /\ videoHost' = IF InitialHost = Loopback THEN videoHost ELSE InitialHost
  /\ UNCHANGED <<lease, client, datagram, actuators, i, history>>

Next ==
  \/ \E frame \in Frames, host \in Hosts \cup {Loopback} : Receive(frame, host)
  \/ Udp \/ Alarm \/ Main \/ Tick \/ Boot

Spec == Init /\ [][Next]_vars

(* The clock runs; the timer keeps firing and its handler is scheduled; the  *)
(* gst-client it calls returns; main gets through its start-up.  Nothing is *)
(* assumed of the network, of the UDP thread or of the sends of main.       *)
Fairness ==
  /\ WF_vars(Tick)
  /\ WF_vars(Alarm)
  /\ WF_vars(OpenPins \/ ScaleOutput \/ StartTimer)

FairSpec == Spec /\ Fairness

-----------------------------------------------------------------------------
(* What the fail safe promises.                                             *)

\* At most one driving command is executed after control was revoked, until
\* an alive grants it again: the one whose gate (commands.c:50) was passed
\* before the alarm cleared aliveTimestamp.  Later ones meet the gate.
AtMostOneStray == stray <= 1

\* stopAll (commands.c:163) does what it is for: when its loop is over, main
\* had scaled the outputs before it began and no other thread was driving
\* meanwhile, every axis is at its neutral position.  Without the proviso it
\* is false: setPPM's buffer is static.
NeutralAfterStopAll ==
  \A t \in Threads :
    pc[t] \in Disconnecting /\ ~disturbed[t] => Neutralised

\* The stream is redirected by nobody but a client that said, in the very
\* datagram being handled, that it can show video, and to its own address;
\* the fail safe of the other threads may clear clienttype in between.
StreamFollowsViewer ==
  [][videoHost' # videoHost =>
       \/ pc["main"] = "down"
       \/ buf = [cmd |-> "alive", type |-> 1] /\ videoHost' = si_other]_vars

\* Control never outlives its renewal: if alives stop being stamped, the
\* alarm revokes control (or the process is restarted without it).
LeaseExpires == armed ~> (~armed \/ pc["udp"] = "stamp")

\* A fail safe the alarm has begun gets through all its axes, whatever the
\* other threads do in between.
AlarmNeutralises == pc["alarm"] = "disarm" ~> pc["alarm"] \in {"flag", "down"}

(* The daemon implements DriveLease: its lease is the grant, the command it  *)
(* accepted is the datagram the UDP thread drives with, the buffer is the   *)
(* static message of setPPM, and the driver is ready when the outputs are   *)
(* scaled and no duty from before is about to be stored.                    *)

Commanding == pc["udp"] \in InSetPPM /\ i["udp"] = NumAxes

AcceptedCommand == IF pc["udp"] \in InMove THEN Tracked
                   ELSE IF Commanding THEN buf.pos ELSE Off

DriverReady ==
  pc["main"] \notin Opening \cup {"down"} /\ duty["udp"] # Unscaled

Lease == INSTANCE DriveLease WITH
  Outputs <- Servos,
  Positions <- Positions \cup {Tracked},
  None <- Off,
  ready <- DriverReady,
  granted <- armed,
  command <- AcceptedCommand,
  message <- ppm.pos,
  output <- servo

\* No datagram received after a revocation moves an output before the next
\* alive, and no stopAll hands an output anything but the neutral position or
\* that of the command accepted under the lease, whichever thread's message
\* is in setPPM's static buffer (virt2real.c:81) when it is written.  Only
\* while main is still scaling the outputs (virt2real.c:32) can the buffer be
\* filled with a message made of zeroes.
ImplementsDriveLease == Lease!Spec

(* What the source says and the code does not do.                           *)

\* "* Fail safe" (commands.c:168): once a stopAll has neutralised the axes,
\* they stay neutral until another datagram comes.
FailSafeHolds == stopped => Neutralised

\* videoneedstart is the "video need start flag" (vars.h:100): when nothing is
\* in progress and it is down, a client that can show video is being served.
VideoFlagHonest ==
  /\ pc["udp"] = "recv" /\ pc["alarm"] = "idle" /\ pc["main"] = "send"
  /\ ~videoneedstart /\ clienttype = 1
  => playing /\ videoHost = prev_remote_host

-----------------------------------------------------------------------------
(* The inductive invariant behind the safety properties (RcBoardProofs).    *)

\* Where the threads can be, what their loop variables say about it, and
\* that they all die together.
ControlInv ==
  /\ pc["udp"] \in Driving \cup Disconnecting \cup
       {"recv", "parse", "stamp", "check", "play", "gst", "save", "down"}
  /\ pc["alarm"] \in InSetPPM \cup Disconnecting \cup {"idle", "disarm", "down"}
  /\ pc["main"] \in InSetPPM \cup Disconnecting \cup Opening \cup
       {"timer", "send", "down"}
  /\ \A t \in Threads : pc[t] = "down" <=> pc["main"] = "down"
  /\ \A t \in Threads : i[t] < NumAxes => pc[t] \in InSetPPM
  /\ \A t \in {"alarm", "main"} : pc[t] \in InSetPPM => i[t] < NumAxes
  /\ pc["udp"] \in InSetPPM /\ i["udp"] = NumAxes => buf.cmd = "axis"
  /\ pc["udp"] = "second" => NumAxes > 1

\* While parseCommand handles an alive, the datagram is that alive, its
\* clienttype stands unless a fail safe cleared it, and the stream is only
\* touched for a client that is not this machine.
ViewerInv ==
  /\ pc["udp"] \in {"stamp", "check", "play", "gst", "save"} => buf.cmd = "alive"
  /\ pc["udp"] \in {"stamp", "check", "play"} => clienttype \in {0, buf.type}
  /\ pc["udp"] = "gst" => buf.type = 1
  /\ pc["udp"] \in {"play", "gst", "save"} => si_other # Loopback

\* Only main's start-up leaves outputs unscaled, and the alarm is not running
\* by then.  A thread about to store its duty has the one its output asks
\* for, unless it computed it during that start-up.
DutyInv ==
  /\ pc["main"] \notin Opening \cup {"down"} => scaled = Servos
  /\ pc["alarm"] \notin {"idle", "down"} =>
       pc["main"] \notin Opening \cup {"timer", "down"}
  /\ \A t \in Threads :
       /\ pc[t] = "duty" => duty[t] \in {ArgPos(t), Unscaled}
       /\ pc[t] # "duty" => duty[t] = Off
  /\ \A t \in {"alarm", "main"} : duty[t] # Unscaled

\* A thread about to hand setPPM's buffer to the driver has filled it.
MessageInv == \A t \in Threads : pc[t] = "write" => ppm.pos # Off

\* A command that passed its gate did so under a lease, so nothing has
\* strayed yet when it reaches the driver.
StrayInv ==
  /\ armed => stray = 0
  /\ pc["udp"] \in InSetPPM /\ i["udp"] = NumAxes => stray = 0
  /\ pc["udp"] \in InMove => stray = 0
  /\ stray <= 1

\* As long as a stopAll is undisturbed, setPPM's static buffer holds what
\* its own thread put there and the axes it has passed are neutral.
Undisturbed(t) ==
  /\ pc["main"] \notin Opening
  /\ \A u \in Threads \ {t} : pc[u] \notin Driving
  /\ pc[t] \in {"duty", "write"} => ppm.ch = axis[i[t]]
  /\ pc[t] = "duty" => duty[t] = Neutral
  /\ pc[t] = "write" => ppm.pos = Neutral
  /\ \A a \in AxisIndex : a < i[t] => servo[axis[a]] = Neutral

DisturbInv ==
  \A t \in Threads : Stopping(t) /\ ~disturbed[t] => Undisturbed(t)

IInv ==
  /\ TypeOK /\ ControlInv /\ ViewerInv /\ DutyInv /\ MessageInv
  /\ StrayInv /\ DisturbInv

=============================================================================
