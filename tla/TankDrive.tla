----------------------------- MODULE TankDrive -----------------------------
(***************************************************************************)
(* The drive of a tracked vehicle (config.devicetype = 1): how parseCommand *)
(* and Move (commands.c) mix two sticks into two tracks, and the stopAll    *)
(* that the alarm or a failing send runs against them.                      *)
(*                                                                         *)
(* Every call of setPin and setPWM is one write to the driver and a step    *)
(* of its own: Move and stopAll become the list of writes their thread has  *)
(* still to make.  Numbers are the program's own.  When the lease expires   *)
(* is RcBoard's subject; here the alarm may revoke control at any time.     *)
(***************************************************************************)
EXTENDS Integers, Sequences

CONSTANT
  Sticks         \* the stick values the ground station sends

ASSUME SticksAssumption == Sticks \subseteq 0 .. 255

VARIABLES
  armed,         \* aliveTimestamp # 0
  lastspeed,     \* lastspeed0 and lastspeed1
  save_speed,    \* Move's static save_speed1 and save_speed2
  opened,        \* main has opened the pins device
  pin,           \* level of each direction pin
  pwm,           \* duty of the two PWM outputs, by index of config.axis
  todo,          \* the driver writes each thread has still to make
  (* history, read by no guard *)
  lost,          \* writes since the last Move began went nowhere
  caught,        \* the alarm fell in the middle of a Move that drives
  stopped        \* the alarm's stopAll is through, no alive since

outputs == <<pin, pwm>>
vars == <<armed, lastspeed, save_speed, opened, outputs, todo,
          lost, caught, stopped>>

Threads == {"udp", "alarm", "main"}
Pins == {41, 40, 39, 37}
Period == 1190
Centre == 127

\* Track 1 turns by pins 41 and 40 and the PWM of axis 1, track 2 by pins 39
\* and 37 and the PWM of axis 0.
Forward == <<41, 39>>
Backward == <<40, 37>>

SetPin(p, v) == [call |-> "pin", out |-> p, value |-> v]
SetPWM(a, d) == [call |-> "pwm", out |-> a, value |-> d]

Abs(n) == IF n < 0 THEN -n ELSE n

-----------------------------------------------------------------------------
(* Move.                                                                    *)

\* A mutant: the sign of the first stick is wrong.
MixWrongSign(val) == LET dx == 127 + val[1]
                         dy == 127 - val[2]
                     IN <<dy - dx, dy + dx>>

\* val1 - val2 and 254 - val1 - val2, one per track.
Mix(val) == LET dx == 127 - val[1]
                dy == 127 - val[2]
            IN <<dy - dx, dy + dx>>

\* A mutant: no limit on either side.
DutyUnlimited(speed) == (Abs(speed) * Period) \div 127

\* Only the positive side is limited to full speed.
Duty(speed) == (Abs(IF speed > 127 THEN 127 ELSE speed) * Period) \div 127

Duties(val) == [k \in 1 .. 2 |-> Duty(Mix(val)[k])]

Level(b) == IF b THEN 1 ELSE 0

Direct(val, k) == <<SetPin(Forward[k], Level(Mix(val)[k] >= 0)),
                    SetPin(Backward[k], Level(Mix(val)[k] < 0))>>

Release(val, k) == IF Duties(val)[k] = 0
                   THEN <<SetPin(Forward[k], 0), SetPin(Backward[k], 0)>>
                   ELSE <<>>

Drive(val) == <<SetPWM(1, Duties(val)[1]), SetPWM(0, Duties(val)[2])>>

\* Direction pins first, both of an idle track low afterwards, then the PWMs.
MoveCalls(val) ==
  Direct(val, 1) \o Direct(val, 2) \o Release(val, 1) \o Release(val, 2)
    \o Drive(val)

StopCalls == <<SetPWM(0, 0), SetPWM(1, 0)>>

Init ==
  /\ armed = FALSE
  /\ lastspeed = <<0, 0>> /\ save_speed = <<0, 0>>
  /\ opened = FALSE
  /\ pin = [p \in Pins |-> 0] /\ pwm = [a \in 0 .. 1 |-> 0]
  /\ todo = [t \in Threads |-> <<>>]
  /\ lost = FALSE /\ caught = FALSE /\ stopped = FALSE

\* Command 2 on channel 0 or 1: remember the stick, mix both, and leave if
\* neither duty changed.  Channel 0 is the second argument of Move.
TankCommand(channel, value) ==
  /\ todo["udp"] = <<>> /\ armed
  /\ LET last == [lastspeed EXCEPT ![2 - channel] = value]
     IN /\ lastspeed' = last
        /\ IF Duties(last) = save_speed
           THEN UNCHANGED <<save_speed, todo, lost>>
           ELSE /\ save_speed' = Duties(last)
                /\ todo' = [todo EXCEPT !["udp"] = MoveCalls(last)]
                /\ lost' = FALSE
  /\ UNCHANGED <<armed, opened, outputs, caught, stopped>>

\* Command 0.
Alive ==
  /\ todo["udp"] = <<>>
  /\ armed' = TRUE /\ stopped' = FALSE
  /\ UNCHANGED <<lastspeed, save_speed, opened, outputs, todo, lost, caught>>

\* recvfrom failed: stopAll.  That the old datagram is parsed again behind it
\* is a repetition of one of the other actions.
ReceiveFails ==
  /\ todo["udp"] = <<>>
  /\ todo' = [todo EXCEPT !["udp"] = StopCalls]
  /\ UNCHANGED <<armed, lastspeed, save_speed, opened, outputs, lost, caught,
                 stopped>>

\* A mutant: the sticks start centred.
RestartCentred ==
  /\ todo["udp"] = <<>>
  /\ armed' = FALSE /\ opened' = FALSE
  /\ lastspeed' = <<Centre, Centre>> /\ save_speed' = <<0, 0>>
  /\ todo' = [t \in Threads |-> <<>>]
  /\ caught' = FALSE /\ stopped' = FALSE
  /\ UNCHANGED <<outputs, lost>>

\* The process is replaced; pins and PWMs keep what they were given.
Restart ==
  /\ todo["udp"] = <<>>
  /\ armed' = FALSE /\ opened' = FALSE
  /\ lastspeed' = <<0, 0>> /\ save_speed' = <<0, 0>>
  /\ todo' = [t \in Threads |-> <<>>]
  /\ caught' = FALSE /\ stopped' = FALSE
  /\ UNCHANGED <<outputs, lost>>

\* main opens the device after it has started the UDP thread.
OpenPins ==
  /\ ~opened
  /\ opened' = TRUE
  /\ UNCHANGED <<armed, lastspeed, save_speed, outputs, todo, lost, caught,
                 stopped>>

\* Writes that drive a track are still to come.
Driving == \E k \in DOMAIN todo["udp"] :
             todo["udp"][k].call = "pwm" /\ todo["udp"][k].value # 0

\* A mutant: stopAll reaches one track only.
AlarmHalfStop ==
  /\ opened /\ armed /\ todo["alarm"] = <<>>
  /\ armed' = FALSE
  /\ todo' = [todo EXCEPT !["alarm"] = <<SetPWM(0, 0)>>]
  /\ caught' = Driving
  /\ UNCHANGED <<lastspeed, save_speed, opened, outputs, lost, stopped>>

\* The alarm, started after the device is open, found the last alive too old:
\* disarm, then stopAll.
AlarmFires ==
  /\ opened /\ armed /\ todo["alarm"] = <<>>
  /\ armed' = FALSE
  /\ todo' = [todo EXCEPT !["alarm"] = StopCalls]
  /\ caught' = Driving
  /\ UNCHANGED <<lastspeed, save_speed, opened, outputs, lost, stopped>>

\* sendto failed in the main loop: stopAll, the lease is left alone.
SendFails ==
  /\ opened /\ todo["main"] = <<>>
  /\ todo' = [todo EXCEPT !["main"] = StopCalls]
  /\ UNCHANGED <<armed, lastspeed, save_speed, opened, outputs, lost, caught,
                 stopped>>

\* write(fd_pwm): nothing reaches an output before the device is open.
DriverWrite(c) ==
  CASE ~opened -> UNCHANGED outputs
    [] opened /\ c.call = "pin" ->
         pin' = [pin EXCEPT ![c.out] = c.value] /\ UNCHANGED pwm
    [] opened /\ c.call = "pwm" ->
         pwm' = [pwm EXCEPT ![c.out] = c.value] /\ UNCHANGED pin

\* The next setPin or setPWM of thread t.
DriverCall(t) ==
  /\ todo[t] # <<>>
  /\ DriverWrite(Head(todo[t]))
  /\ todo' = [todo EXCEPT ![t] = Tail(@)]
  /\ lost' = (lost \/ ~opened)
  /\ stopped' = (stopped \/ (t = "alarm" /\ Len(todo[t]) = 1 /\ ~armed))
  /\ UNCHANGED <<armed, lastspeed, save_speed, opened, caught>>

Next ==
  \/ \E channel \in 0 .. 1, value \in Sticks : TankCommand(channel, value)
  \/ Alive \/ ReceiveFails \/ Restart \/ OpenPins \/ AlarmFires \/ SendFails
  \/ \E t \in Threads : DriverCall(t)

Spec == Init /\ [][Next]_vars

-----------------------------------------------------------------------------
(* Properties.                                                              *)

MaxDuty == Duty(-256)

Calls == [call : {"pin"}, out : Pins, value : 0 .. 1] \cup
         [call : {"pwm"}, out : 0 .. 1, value : 0 .. MaxDuty]

TypeOK ==
  /\ armed \in BOOLEAN /\ opened \in BOOLEAN
  /\ lastspeed \in [1 .. 2 -> Sticks \cup {0}]
  /\ save_speed \in [1 .. 2 -> 0 .. MaxDuty]
  /\ pin \in [Pins -> 0 .. 1]
  /\ pwm \in [0 .. 1 -> 0 .. MaxDuty]
  /\ todo \in [Threads -> Seq(Calls)]
  /\ lost \in BOOLEAN /\ caught \in BOOLEAN /\ stopped \in BOOLEAN

\* Centring both sticks stops both tracks, whatever Move suppressed before
\* and across restarts that leave the outputs running: `prevent command
\* repeating' (commands.c:228) never swallows a stop.  Only a stop that came
\* before the device was open is remembered as made and lost.
CentredSticksStop ==
  todo["udp"] = <<>> /\ lastspeed = <<Centre, Centre>> /\ ~lost
    => pwm[0] = 0 /\ pwm[1] = 0 /\ \A p \in Pins : pin[p] = 0

\* Once the alarm's stopAll is through, and until the next alive, neither
\* track is driven, unless the alarm fell in the middle of a Move.
FailSafeStopsTracks ==
  stopped /\ ~caught => pwm[0] = 0 /\ pwm[1] = 0

\* A track driven ahead never gets more than the whole period: the limit of
\* commands.c:222 holds on that side, also where Move suppressed a reversal.
AheadWithinPeriod ==
  todo["udp"] = <<>> /\ ~lost =>
    /\ pin[Forward[1]] = 1 => pwm[1] <= Period
    /\ pin[Forward[2]] = 1 => pwm[0] <= Period

(* What the source says and the code does not do.                           *)

\* `prevent command repeating' (commands.c:228): what Move leaves out is a
\* repetition, so a track whose pins say ahead is not asked to go back.
OnlyRepeatsSuppressed ==
  [][lastspeed' # lastspeed /\ armed' /\ todo'["udp"] = <<>> =>
       \A k \in 1 .. 2 :
         pin[Forward[k]] = 1 => Mix(lastspeed')[k] >= 0]_vars

-----------------------------------------------------------------------------
(* The inductive invariant behind the first two (TankDriveProofs).          *)

\* What is left of a stopAll.
StopTails == {StopCalls, <<SetPWM(1, 0)>>, <<>>}

\* A stopAll of the alarm that nothing has re-armed finds no Move that would
\* drive, and what it has passed stays at rest.
StopInv ==
  /\ \A t \in {"alarm", "main"} :
       todo[t] \in StopTails /\ (todo[t] # <<>> => opened)
  /\ stopped => ~armed /\ todo["alarm"] = <<>>
  /\ ~armed /\ ~caught /\ (stopped \/ todo["alarm"] # <<>>) => ~Driving
  /\ ~armed /\ ~caught /\ todo["alarm"] = <<SetPWM(1, 0)>> => pwm[0] = 0
  /\ stopped /\ ~caught => pwm[0] = 0 /\ pwm[1] = 0

\* save_speed belongs to the sticks, but for a process that has heard none.
SaveInv == save_speed = Duties(lastspeed) \/ lastspeed = <<0, 0>>

\* What Move writes for two centred sticks.
CentreCalls ==
  <<SetPin(41, 1), SetPin(40, 0), SetPin(39, 1), SetPin(37, 0),
    SetPin(41, 0), SetPin(40, 0), SetPin(39, 0), SetPin(37, 0),
    SetPWM(1, 0), SetPWM(0, 0)>>

\* The first n of them have been made.
Settled(n) ==
  /\ n >= 5 => pin[41] = 0
  /\ n >= 6 => pin[40] = 0
  /\ n >= 7 => pin[39] = 0
  /\ n >= 8 => pin[37] = 0
  /\ n >= 9 => pwm[1] = 0
  /\ n >= 10 => pwm[0] = 0

CentreInv ==
  lastspeed = <<Centre, Centre>> /\ ~lost =>
    \/ \E n \in 0 .. 10 :
         todo["udp"] = SubSeq(CentreCalls, n + 1, 10) /\ Settled(n)
    \/ todo["udp"] \in StopTails /\ Settled(10)

IInv == TypeOK /\ StopInv /\ SaveInv /\ CentreInv

=============================================================================
