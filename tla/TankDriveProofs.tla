-------------------------- MODULE TankDriveProofs --------------------------
(***************************************************************************)
(* Proofs, for every set of stick values, that centred sticks stop the      *)
(* tracks and that the alarm's stopAll does.  The invariant follows the     *)
(* writes still to come: the tail of a stopAll, and for centred sticks the  *)
(* tail of the one list of writes Move can make then.                       *)
(***************************************************************************)
EXTENDS TankDrive, TLAPS, SequenceTheorems

Bytes == 0 .. 255

-----------------------------------------------------------------------------
(* Mixing.                                                                  *)

\* Two sticks mix to speeds a little over twice a byte's reach.
LEMMA MixRange ==
  ASSUME NEW val \in [1 .. 2 -> Bytes]
  PROVE  \A k \in 1 .. 2 : Mix(val)[k] \in -256 .. 256
<1>1. val[1] \in Bytes /\ val[2] \in Bytes
  OBVIOUS
<1>2. /\ Mix(val)[1] = (127 - val[2]) - (127 - val[1])
      /\ Mix(val)[2] = (127 - val[2]) + (127 - val[1])
  BY DEF Mix
<1>3. \A a, b \in Bytes : /\ (127 - b) - (127 - a) \in -256 .. 256
                          /\ (127 - b) + (127 - a) \in -256 .. 256
  BY DEF Bytes
<1>4. Mix(val)[1] \in -256 .. 256 /\ Mix(val)[2] \in -256 .. 256
  BY <1>1, <1>2, <1>3
<1> QED
  BY <1>4

\* Every duty is below that of the fastest reverse.
LEMMA DutyRange ==
  ASSUME NEW speed \in -256 .. 256
  PROVE  Duty(speed) \in 0 .. MaxDuty
BY DEF Duty, MaxDuty, Abs, Period

LEMMA DutiesRange ==
  ASSUME NEW val \in [1 .. 2 -> Bytes]
  PROVE  Duties(val) \in [1 .. 2 -> 0 .. MaxDuty]
BY MixRange, DutyRange DEF Duties

\* Centred sticks ask for nothing.
LEMMA CentreDuties ==
  Mix(<<127, 127>>) = <<0, 0>> /\ Duties(<<127, 127>>) = <<0, 0>>
<1>1. Mix(<<127, 127>>) = <<0, 0>>
  BY DEF Mix
<1>2. Duty(0) = 0
  BY DEF Duty, Abs, Period
<1>3. Duties(<<127, 127>>) = [k \in 1 .. 2 |-> 0]
  BY <1>1, <1>2 DEF Duties
<1> QED
  BY <1>1, <1>3

\* A single stick off its centre asks for something: so the last stick to be
\* centred is never taken for a repetition.
LEMMA OffCentre ==
  ASSUME NEW v \in Bytes, v # 127,
         NEW val \in {<<v, 127>>, <<127, v>>}
  PROVE  Duties(val) # <<0, 0>>
<1>1. Mix(val)[1] \in {127 - v, v - 127}
  BY DEF Mix, Bytes
<1>2. Duty(127 - v) # 0 /\ Duty(v - 127) # 0
  BY DEF Duty, Abs, Period, Bytes
<1>3. Duties(val)[1] = Duty(Mix(val)[1])
  BY DEF Duties
<1> QED
  BY <1>1, <1>2, <1>3

-----------------------------------------------------------------------------
(* Lists of writes.                                                         *)

LEMMA CallTypes ==
  /\ \A p \in Pins, v \in 0 .. 1 : SetPin(p, v) \in Calls
  /\ \A a \in 0 .. 1, d \in 0 .. MaxDuty : SetPWM(a, d) \in Calls
BY DEF Calls, SetPin, SetPWM

\* Both kinds of lists are lists of writes.
LEMMA StopCallsType == StopCalls \in Seq(Calls)
<1>1. 0 \in 0 .. MaxDuty
  BY DEF MaxDuty, Duty, Abs, Period
<1> QED
  BY <1>1, CallTypes DEF StopCalls

LEMMA MoveCallsType ==
  ASSUME NEW val \in [1 .. 2 -> Bytes]
  PROVE  MoveCalls(val) \in Seq(Calls)
<1>1. \A k \in 1 .. 2 : Direct(val, k) \in Seq(Calls)
  BY CallTypes DEF Direct, Level, Forward, Backward, Pins
<1>2. \A k \in 1 .. 2 : Release(val, k) \in Seq(Calls)
  BY CallTypes DEF Release, Forward, Backward, Pins
<1>3. Drive(val) \in Seq(Calls)
  BY CallTypes, DutiesRange DEF Drive
<1> QED
  BY <1>1, <1>2, <1>3, ConcatProperties DEF MoveCalls

\* Five pairs of writes are ten.
LEMMA TenCalls ==
  ASSUME NEW a1 \in Calls, NEW a2 \in Calls, NEW a3 \in Calls,
         NEW a4 \in Calls, NEW a5 \in Calls, NEW a6 \in Calls,
         NEW a7 \in Calls, NEW a8 \in Calls, NEW a9 \in Calls,
         NEW a10 \in Calls
  PROVE  <<a1, a2>> \o <<a3, a4>> \o <<a5, a6>> \o <<a7, a8>> \o <<a9, a10>>
           = <<a1, a2, a3, a4, a5, a6, a7, a8, a9, a10>>
<1>1. <<a1, a2>> \o <<a3, a4>> = <<a1, a2, a3, a4>>
  <2> DEFINE lhs == <<a1, a2>> \o <<a3, a4>>
             rhs == <<a1, a2, a3, a4>>
  <2>1. <<a1, a2>> \in Seq(Calls) /\ <<a3, a4>> \in Seq(Calls)
    OBVIOUS
  <2>2. lhs \in Seq(Calls) /\ Len(lhs) = 4
    BY <2>1, ConcatProperties
  <2>3. \A k \in 1 .. 4 : lhs[k] = IF k <= 2 THEN <<a1, a2>>[k] ELSE <<a3, a4>>[k - 2]
    BY <2>1, ConcatProperties
  <2>4. rhs \in Seq(Calls) /\ Len(rhs) = 4
    OBVIOUS
  <2>5. \A k \in 1 .. 4 : lhs[k] = rhs[k]
    BY <2>3
  <2> QED
    BY <2>2, <2>4, <2>5, SeqEqual
<1>2. <<a1, a2, a3, a4>> \o <<a5, a6>> = <<a1, a2, a3, a4, a5, a6>>
  <2> DEFINE lhs == <<a1, a2, a3, a4>> \o <<a5, a6>>
             rhs == <<a1, a2, a3, a4, a5, a6>>
  <2>1. <<a1, a2, a3, a4>> \in Seq(Calls) /\ <<a5, a6>> \in Seq(Calls)
    OBVIOUS
  <2>2. lhs \in Seq(Calls) /\ Len(lhs) = 6
    BY <2>1, ConcatProperties
  <2>3. \A k \in 1 .. 6 : lhs[k] = IF k <= 4 THEN <<a1, a2, a3, a4>>[k] ELSE <<a5, a6>>[k - 4]
    BY <2>1, ConcatProperties
  <2>4. rhs \in Seq(Calls) /\ Len(rhs) = 6
    OBVIOUS
  <2>5. \A k \in 1 .. 6 : lhs[k] = rhs[k]
    BY <2>3
  <2> QED
    BY <2>2, <2>4, <2>5, SeqEqual
<1>3. <<a1, a2, a3, a4, a5, a6>> \o <<a7, a8>> = <<a1, a2, a3, a4, a5, a6, a7, a8>>
  <2> DEFINE lhs == <<a1, a2, a3, a4, a5, a6>> \o <<a7, a8>>
             rhs == <<a1, a2, a3, a4, a5, a6, a7, a8>>
  <2>1. <<a1, a2, a3, a4, a5, a6>> \in Seq(Calls) /\ <<a7, a8>> \in Seq(Calls)
    OBVIOUS
  <2>2. lhs \in Seq(Calls) /\ Len(lhs) = 8
    BY <2>1, ConcatProperties
  <2>3. \A k \in 1 .. 8 : lhs[k] = IF k <= 6 THEN <<a1, a2, a3, a4, a5, a6>>[k] ELSE <<a7, a8>>[k - 6]
    BY <2>1, ConcatProperties
  <2>4. rhs \in Seq(Calls) /\ Len(rhs) = 8
    OBVIOUS
  <2>5. \A k \in 1 .. 8 : lhs[k] = rhs[k]
    BY <2>3
  <2> QED
    BY <2>2, <2>4, <2>5, SeqEqual
<1>4. <<a1, a2, a3, a4, a5, a6, a7, a8>> \o <<a9, a10>> = <<a1, a2, a3, a4, a5, a6, a7, a8, a9, a10>>
  <2> DEFINE lhs == <<a1, a2, a3, a4, a5, a6, a7, a8>> \o <<a9, a10>>
             rhs == <<a1, a2, a3, a4, a5, a6, a7, a8, a9, a10>>
  <2>1. <<a1, a2, a3, a4, a5, a6, a7, a8>> \in Seq(Calls) /\ <<a9, a10>> \in Seq(Calls)
    OBVIOUS
  <2>2. lhs \in Seq(Calls) /\ Len(lhs) = 10
    BY <2>1, ConcatProperties
  <2>3. \A k \in 1 .. 10 : lhs[k] = IF k <= 8 THEN <<a1, a2, a3, a4, a5, a6, a7, a8>>[k] ELSE <<a9, a10>>[k - 8]
    BY <2>1, ConcatProperties
  <2>4. rhs \in Seq(Calls) /\ Len(rhs) = 10
    OBVIOUS
  <2>5. \A k \in 1 .. 10 : lhs[k] = rhs[k]
    BY <2>3
  <2> QED
    BY <2>2, <2>4, <2>5, SeqEqual
<1> QED
  BY <1>1, <1>2, <1>3, <1>4

\* With both sticks centred Move makes exactly CentreCalls.
LEMMA CentreMove == MoveCalls(<<127, 127>>) = CentreCalls
<1> DEFINE c == <<127, 127>>
<1>1. /\ Direct(c, 1) = <<SetPin(41, 1), SetPin(40, 0)>>
      /\ Direct(c, 2) = <<SetPin(39, 1), SetPin(37, 0)>>
      /\ Release(c, 1) = <<SetPin(41, 0), SetPin(40, 0)>>
      /\ Release(c, 2) = <<SetPin(39, 0), SetPin(37, 0)>>
      /\ Drive(c) = <<SetPWM(1, 0), SetPWM(0, 0)>>
  BY CentreDuties DEF Direct, Release, Drive, Level, Forward, Backward
<1>2. /\ \A p \in {41, 40, 39, 37}, v \in {0, 1} : SetPin(p, v) \in Calls
      /\ \A a \in {0, 1} : SetPWM(a, 0) \in Calls
  BY CallTypes DEF MaxDuty, Duty, Abs, Period, Pins
<1>3. /\ SetPin(41, 1) \in Calls /\ SetPin(40, 0) \in Calls
      /\ SetPin(39, 1) \in Calls /\ SetPin(37, 0) \in Calls
      /\ SetPin(41, 0) \in Calls /\ SetPin(39, 0) \in Calls
      /\ SetPWM(1, 0) \in Calls /\ SetPWM(0, 0) \in Calls
  BY <1>2
<1>4. MoveCalls(c) = <<SetPin(41, 1), SetPin(40, 0)>>
                       \o <<SetPin(39, 1), SetPin(37, 0)>>
                       \o <<SetPin(41, 0), SetPin(40, 0)>>
                       \o <<SetPin(39, 0), SetPin(37, 0)>>
                       \o <<SetPWM(1, 0), SetPWM(0, 0)>>
  BY <1>1, Zenon DEF MoveCalls
<1>5. <<SetPin(41, 1), SetPin(40, 0)>>
        \o <<SetPin(39, 1), SetPin(37, 0)>>
        \o <<SetPin(41, 0), SetPin(40, 0)>>
        \o <<SetPin(39, 0), SetPin(37, 0)>>
        \o <<SetPWM(1, 0), SetPWM(0, 0)>>
      = CentreCalls
  BY <1>3, TenCalls, SMTT(30) DEF CentreCalls
<1> QED
  BY <1>4, <1>5

\* What one step takes off a list of writes.
LEMMA TailIs ==
  ASSUME NEW s \in Seq(Calls), s # <<>>
  PROVE  /\ Head(s) \in Calls /\ Head(s) = s[1] /\ Len(s) >= 1
         /\ Tail(s) \in Seq(Calls)
         /\ Len(Tail(s)) = Len(s) - 1
         /\ \A k \in 1 .. Len(s) - 1 : Tail(s)[k] = s[k + 1]
BY HeadTailProperties

\* A list of writes that drives no track: its head does not, nor its tail.
Idle(s) == ~ \E k \in DOMAIN s : s[k].call = "pwm" /\ s[k].value # 0

LEMMA IdleTail ==
  ASSUME NEW s \in Seq(Calls), s # <<>>, Idle(s)
  PROVE  /\ Idle(Tail(s))
         /\ Head(s).call = "pwm" => Head(s).value = 0
BY TailIs DEF Idle

\* A stopAll drives none, and what follows its writes is again such a list.
LEMMA StopTailsIs ==
  ASSUME NEW s \in StopTails
  PROVE  /\ s \in Seq(Calls) /\ Idle(s)
         /\ s # <<>> => /\ Tail(s) \in StopTails
                        /\ Head(s) \in {SetPWM(0, 0), SetPWM(1, 0)}
<1>0. SetPWM(0, 0) \in Calls /\ SetPWM(1, 0) \in Calls
  BY CallTypes DEF MaxDuty, Duty, Abs, Period
<1>1. CASE s = <<>>
  BY <1>1 DEF Idle
<1>2. CASE s = <<SetPWM(1, 0)>>
  <2>1. Tail(s) = <<>> /\ Head(s) = SetPWM(1, 0)
    BY <1>2
  <2>2. DOMAIN s = {1} /\ s[1].value = 0
    BY <1>2 DEF SetPWM
  <2> QED
    BY <1>0, <1>2, <2>1, <2>2 DEF StopTails, Idle
<1>3. CASE s = StopCalls
  <2>1. Tail(s) = <<SetPWM(1, 0)>> /\ Head(s) = SetPWM(0, 0)
    BY <1>3 DEF StopCalls
  <2>2. DOMAIN s = {1, 2} /\ s[1].value = 0 /\ s[2].value = 0
    BY <1>3 DEF StopCalls, SetPWM
  <2> QED
    BY <1>0, <1>3, <2>1, <2>2, StopCallsType DEF StopTails, Idle
<1> QED
  BY <1>1, <1>2, <1>3 DEF StopTails

-----------------------------------------------------------------------------
(* The invariant is inductive, one conjunct at a time.                      *)

\* One write reaches at most one output.
LEMMA WriteType ==
  ASSUME TypeOK, NEW c \in Calls, DriverWrite(c)
  PROVE  pin' \in [Pins -> 0 .. 1] /\ pwm' \in [0 .. 1 -> 0 .. MaxDuty]
<1>1. CASE ~opened
  BY <1>1 DEF DriverWrite, TypeOK, outputs
<1>2. CASE opened /\ c.call = "pin"
  BY <1>2 DEF DriverWrite, TypeOK, Calls
<1>3. CASE opened /\ c.call = "pwm"
  BY <1>3 DEF DriverWrite, TypeOK, Calls
<1> QED
  BY <1>1, <1>2, <1>3 DEF TypeOK, Calls

\* A write of zero to a PWM output leaves what is at rest at rest.
LEMMA ZeroWrite ==
  ASSUME TypeOK, NEW c \in Calls, DriverWrite(c), c.call = "pwm", c.value = 0
  PROVE  /\ UNCHANGED pin
         /\ \A a \in 0 .. 1 : pwm[a] = 0 => pwm'[a] = 0
         /\ opened => pwm'[c.out] = 0
<1>1. CASE ~opened
  BY <1>1 DEF DriverWrite, outputs
<1>2. CASE opened
  BY <1>2 DEF DriverWrite, TypeOK, Calls
<1> QED
  BY <1>1, <1>2 DEF TypeOK

LEMMA TypeInit == Init => TypeOK
<1>1. 0 \in 0 .. MaxDuty
  BY DEF MaxDuty, Duty, Abs, Period
<1>2. <<>> \in Seq(Calls)
  OBVIOUS
<1> QED
  BY <1>1, <1>2 DEF Init, TypeOK

LEMMA TypeStep == TypeOK /\ [Next]_vars => TypeOK'
<1> SUFFICES ASSUME TypeOK, [Next]_vars PROVE TypeOK'
  OBVIOUS
<1>0. /\ StopCalls \in Seq(Calls) /\ <<>> \in Seq(Calls)
      /\ 0 \in 0 .. MaxDuty
  BY StopCallsType DEF MaxDuty, Duty, Abs, Period
<1>1. ASSUME NEW channel \in 0 .. 1, NEW value \in Sticks,
             TankCommand(channel, value)
      PROVE  TypeOK'
  <2> DEFINE last == [lastspeed EXCEPT ![2 - channel] = value]
  <2>1. last \in [1 .. 2 -> Sticks \cup {0}]
    BY DEF TypeOK
  <2> HIDE DEF last
  <2>2. last \in [1 .. 2 -> Bytes]
    <3>1. Sticks \cup {0} \subseteq Bytes
      BY SticksAssumption DEF Bytes
    <3> QED
      BY <2>1, <3>1
  <2>3. Duties(last) \in [1 .. 2 -> 0 .. MaxDuty]
        /\ MoveCalls(last) \in Seq(Calls)
    BY <2>2, DutiesRange, MoveCallsType
  <2>4. /\ lastspeed' = last
        /\ save_speed' \in {save_speed, Duties(last)}
        /\ todo' \in {todo, [todo EXCEPT !["udp"] = MoveCalls(last)]}
        /\ lost' \in {lost, FALSE}
        /\ UNCHANGED <<armed, opened, pin, pwm, caught, stopped>>
    BY <1>1 DEF TankCommand, outputs, last
  <2> QED
    BY <2>1, <2>3, <2>4 DEF TypeOK
<1>2. CASE Alive
  BY <1>2 DEF Alive, TypeOK, outputs
<1>3. CASE ReceiveFails
  BY <1>0, <1>3 DEF ReceiveFails, TypeOK, outputs
<1>4. CASE Restart
  <2>1. /\ <<0, 0>> \in [1 .. 2 -> Sticks \cup {0}]
        /\ <<0, 0>> \in [1 .. 2 -> 0 .. MaxDuty]
    BY <1>0
  <2>2. [t \in Threads |-> <<>>] \in [Threads -> Seq(Calls)]
    BY <1>0
  <2> QED
    BY <1>4, <2>1, <2>2 DEF Restart, TypeOK, outputs
<1>5. CASE OpenPins
  BY <1>5 DEF OpenPins, TypeOK, outputs
<1>6. CASE AlarmFires
  <2>1. caught' \in BOOLEAN
    BY <1>6 DEF AlarmFires, Driving
  <2> QED
    BY <1>0, <1>6, <2>1 DEF AlarmFires, TypeOK, outputs
<1>7. CASE SendFails
  BY <1>0, <1>7 DEF SendFails, TypeOK, outputs
<1>8. ASSUME NEW t \in Threads, DriverCall(t) PROVE TypeOK'
  <2>1. todo[t] \in Seq(Calls) /\ todo[t] # <<>>
    BY <1>8 DEF DriverCall, TypeOK
  <2>2. Head(todo[t]) \in Calls /\ Tail(todo[t]) \in Seq(Calls)
    BY <2>1, TailIs
  <2>3. pin' \in [Pins -> 0 .. 1] /\ pwm' \in [0 .. 1 -> 0 .. MaxDuty]
    BY <1>8, <2>2, WriteType DEF DriverCall
  <2>4. todo' \in [Threads -> Seq(Calls)]
    BY <1>8, <2>2 DEF DriverCall, TypeOK
  <2>5. lost' \in BOOLEAN /\ stopped' \in BOOLEAN
    BY <1>8 DEF DriverCall, TypeOK
  <2> QED
    BY <1>8, <2>3, <2>4, <2>5 DEF DriverCall, TypeOK
<1>9. CASE UNCHANGED vars
  BY <1>9 DEF vars, TypeOK, outputs
<1> QED
  BY <1>1, <1>2, <1>3, <1>4, <1>5, <1>6, <1>7, <1>8, <1>9 DEF Next

\* save_speed changes with the sticks only; a fresh process has heard none.
LEMMA SaveStep == TypeOK /\ SaveInv /\ [Next]_vars => SaveInv'
<1> SUFFICES ASSUME TypeOK, SaveInv, [Next]_vars PROVE SaveInv'
  OBVIOUS
<1>1. ASSUME NEW channel \in 0 .. 1, NEW value \in Sticks,
             TankCommand(channel, value)
      PROVE  SaveInv'
  <2>1. save_speed' = Duties(lastspeed')
    BY <1>1 DEF TankCommand
  <2> QED
    BY <2>1 DEF SaveInv, Duties, Mix, Duty, Abs, Period
<1>2. CASE Restart
  BY <1>2 DEF Restart, SaveInv
<1>3. ASSUME lastspeed' = lastspeed, save_speed' = save_speed
      PROVE  SaveInv'
  BY <1>3 DEF SaveInv, Duties, Mix, Duty, Abs, Period
<1> QED
  BY <1>1, <1>2, <1>3
     DEF Next, vars, Alive, ReceiveFails, OpenPins, AlarmFires, SendFails,
         DriverCall

\* The alarm's stopAll: with no alive behind it, no Move starts.
LEMMA StopStep == TypeOK /\ StopInv /\ [Next]_vars => StopInv'
<1> SUFFICES ASSUME TypeOK, StopInv, [Next]_vars PROVE StopInv'
  OBVIOUS
<1>0. /\ StopCalls \in StopTails /\ <<>> \in StopTails
      /\ StopCalls # <<>> /\ StopCalls # <<SetPWM(1, 0)>>
      /\ Driving <=> ~Idle(todo["udp"])
      /\ Driving' <=> ~Idle(todo'["udp"])
  BY DEF StopTails, StopCalls, Driving, Idle
<1>1. ASSUME NEW channel \in 0 .. 1, NEW value \in Sticks,
             TankCommand(channel, value)
      PROVE  StopInv'
  <2>1. /\ armed' /\ armed /\ UNCHANGED <<opened, pwm, caught, stopped>>
        /\ \A t \in {"alarm", "main"} : todo'[t] = todo[t]
    BY <1>1 DEF TankCommand, outputs, TypeOK, Threads
  <2> QED
    BY <2>1 DEF StopInv
<1>2. CASE Alive
  BY <1>2 DEF Alive, StopInv, outputs
<1>3. CASE ReceiveFails
  <2>1. todo'["udp"] = StopCalls /\ Idle(StopCalls)
    BY <1>0, <1>3, StopTailsIs DEF ReceiveFails, TypeOK, Threads
  <2>2. \A t \in {"alarm", "main"} : todo'[t] = todo[t]
    BY <1>3 DEF ReceiveFails, TypeOK, Threads
  <2> QED
    BY <1>0, <1>3, <2>1, <2>2 DEF ReceiveFails, StopInv, outputs
<1>4. CASE Restart
  BY <1>0, <1>4 DEF Restart, StopInv, Threads
<1>5. CASE OpenPins
  <2>1. Driving' <=> Driving
    BY <1>5 DEF OpenPins, Driving
  <2> QED
    BY <1>5, <2>1 DEF OpenPins, StopInv, outputs
<1>6. CASE AlarmFires
  <2>1. /\ todo'["alarm"] = StopCalls /\ todo'["main"] = todo["main"]
        /\ todo'["udp"] = todo["udp"]
    BY <1>6 DEF AlarmFires, TypeOK, Threads
  <2>2. Driving' <=> Driving
    BY <1>0, <2>1
  <2>3. ~stopped'
    BY <1>6 DEF AlarmFires, StopInv
  <2> QED
    BY <1>0, <1>6, <2>1, <2>2, <2>3 DEF AlarmFires, StopInv, outputs
<1>7. CASE SendFails
  <2>1. /\ todo'["main"] = StopCalls /\ todo'["alarm"] = todo["alarm"]
        /\ todo'["udp"] = todo["udp"]
    BY <1>7 DEF SendFails, TypeOK, Threads
  <2>2. Driving' <=> Driving
    BY <1>0, <2>1
  <2> QED
    BY <1>0, <1>7, <2>1, <2>2 DEF SendFails, StopInv, outputs
<1>8. CASE DriverCall("udp")
  <2>1. /\ todo["udp"] \in Seq(Calls) /\ todo["udp"] # <<>>
        /\ Head(todo["udp"]) \in Calls
    BY <1>8, TailIs DEF DriverCall, TypeOK, Threads
  <2>2. /\ todo'["udp"] = Tail(todo["udp"])
        /\ \A t \in {"alarm", "main"} : todo'[t] = todo[t]
        /\ UNCHANGED <<armed, opened, caught>>
        /\ stopped' <=> stopped
    BY <1>8 DEF DriverCall, TypeOK, Threads
  <2>3. ~Driving => ~Driving'
    BY <1>0, <2>1, <2>2, IdleTail
  <2>4. ~Driving => \A a \in 0 .. 1 : pwm[a] = 0 => pwm'[a] = 0
    <3> SUFFICES ASSUME ~Driving
                 PROVE  \A a \in 0 .. 1 : pwm[a] = 0 => pwm'[a] = 0
      OBVIOUS
    <3> DEFINE c == Head(todo["udp"])
    <3>1. c.call = "pwm" => c.value = 0
      BY <1>0, <2>1, IdleTail
    <3>2. DriverWrite(c)
      BY <1>8 DEF DriverCall
    <3>3. CASE c.call = "pwm"
      BY <2>1, <3>1, <3>2, <3>3, ZeroWrite
    <3>4. CASE c.call = "pin"
      BY <3>2, <3>4 DEF DriverWrite, outputs
    <3> QED
      BY <2>1, <3>3, <3>4 DEF Calls
  <2> QED
    BY <2>2, <2>3, <2>4 DEF StopInv
<1>9. ASSUME NEW t \in {"alarm", "main"}, DriverCall(t) PROVE StopInv'
  <2> DEFINE c == Head(todo[t])
  <2>1. /\ todo[t] \in StopTails /\ todo[t] # <<>> /\ opened
        /\ todo[t] \in Seq(Calls)
    BY <1>9, StopTailsIs DEF DriverCall, StopInv
  <2>2. /\ c \in {SetPWM(0, 0), SetPWM(1, 0)} /\ c \in Calls
        /\ c.call = "pwm" /\ c.value = 0
        /\ Tail(todo[t]) \in StopTails
    BY <2>1, StopTailsIs, TailIs DEF SetPWM
  <2>3. /\ \A a \in 0 .. 1 : pwm[a] = 0 => pwm'[a] = 0
        /\ pwm'[c.out] = 0
    BY <1>9, <2>1, <2>2, ZeroWrite DEF DriverCall
  <2>4. /\ todo'[t] = Tail(todo[t])
        /\ \A u \in Threads : u # t => todo'[u] = todo[u]
        /\ UNCHANGED <<armed, opened, caught>>
    BY <1>9 DEF DriverCall, TypeOK, Threads
  <2>5. Driving' <=> Driving
    BY <1>0, <2>4 DEF Threads
  <2>6. CASE t = "main"
    <3>1. stopped' <=> stopped
      BY <1>9, <2>6 DEF DriverCall, TypeOK
    <3> QED
      BY <2>1, <2>2, <2>3, <2>4, <2>5, <2>6, <3>1 DEF StopInv, Threads
  <2>7. CASE t = "alarm" /\ todo[t] = StopCalls
    <3>1. Tail(todo[t]) = <<SetPWM(1, 0)>> /\ c = SetPWM(0, 0)
          /\ Len(todo[t]) = 2
      BY <2>7 DEF StopCalls
    <3>2. pwm'[0] = 0
      BY <2>3, <3>1 DEF SetPWM
    <3>3. ~stopped
      BY <2>1, <2>7 DEF StopInv
    <3>4. Len(todo[t]) # 1
      BY <3>1
    <3>5. ~stopped'
      BY <1>9, <3>3, <3>4, Zenon DEF DriverCall
    <3> QED
      BY <2>1, <2>2, <2>4, <2>5, <2>7, <3>1, <3>2, <3>5 DEF StopInv, Threads
  <2>8. CASE t = "alarm" /\ todo[t] = <<SetPWM(1, 0)>>
    <3>1. Tail(todo[t]) = <<>> /\ c = SetPWM(1, 0) /\ Len(todo[t]) = 1
      BY <2>8
    <3>2. pwm'[1] = 0
      BY <2>3, <3>1 DEF SetPWM
    <3>3. stopped' <=> ~armed
      BY <1>9, <2>1, <2>8, <3>1 DEF DriverCall, StopInv, TypeOK
    <3> QED
      BY <2>1, <2>2, <2>3, <2>4, <2>5, <2>8, <3>1, <3>2, <3>3
         DEF StopInv, Threads
  <2> QED
    BY <2>1, <2>6, <2>7, <2>8 DEF StopTails
<1>10. CASE UNCHANGED vars
  <2>1. Driving' <=> Driving
    BY <1>10 DEF vars, Driving
  <2> QED
    BY <1>10, <2>1 DEF vars, outputs, StopInv
<1> QED
  BY <1>1, <1>2, <1>3, <1>4, <1>5, <1>6, <1>7, <1>8, <1>9, <1>10
     DEF Next, Threads

\* What is left of CentreCalls after n writes.
Rest(n) == SubSeq(CentreCalls, n + 1, 10)

LEMMA CentreCallsType ==
  CentreCalls \in Seq(Calls) /\ Len(CentreCalls) = 10
<1>1. \A p \in {41, 40, 39, 37}, v \in {0, 1} : SetPin(p, v) \in Calls
  BY CallTypes DEF Pins
<1>2. \A a \in {0, 1} : SetPWM(a, 0) \in Calls
  BY CallTypes DEF MaxDuty, Duty, Abs, Period
<1> QED
  BY <1>1, <1>2 DEF CentreCalls

LEMMA RestIs ==
  /\ Rest(0) = CentreCalls
  /\ Rest(10) = <<>>
  /\ \A n \in 0 .. 9 : /\ Rest(n) # <<>>
                       /\ Head(Rest(n)) = CentreCalls[n + 1]
                       /\ Tail(Rest(n)) = Rest(n + 1)
<1>1. Rest(0) = CentreCalls
  BY CentreCallsType, SubSeqFull DEF Rest
<1>2. Rest(10) = <<>>
  BY CentreCallsType, SubSeqEmpty DEF Rest
<1>3. ASSUME NEW n \in 0 .. 9
      PROVE  /\ Rest(n) # <<>>
             /\ Head(Rest(n)) = CentreCalls[n + 1]
             /\ Tail(Rest(n)) = Rest(n + 1)
  <2>1. /\ n + 1 \in 1 .. Len(CentreCalls) /\ 10 \in n + 1 .. Len(CentreCalls)
        /\ (n + 1) + 1 = n + 2
    BY CentreCallsType
  <2>2. /\ Head(Rest(n)) = CentreCalls[n + 1]
        /\ Tail(Rest(n)) = Rest(n + 1)
    BY <2>1, CentreCallsType, HeadTailOfSubSeq DEF Rest
  <2>3. \A i \in n + 1 .. 10 : CentreCalls[i] \in Calls
    BY CentreCallsType
  <2>4. Len(Rest(n)) = 10 - n
    BY <2>3, SubSeqProperties DEF Rest
  <2> QED
    BY <2>2, <2>4
<1> QED
  BY <1>1, <1>2, <1>3

\* The n-th write of CentreCalls settles the n-th output.
LEMMA SettleOne ==
  ASSUME TypeOK, opened, NEW n \in 0 .. 9, Settled(n),
         DriverWrite(CentreCalls[n + 1])
  PROVE  Settled(n + 1)'
<1> DEFINE c == CentreCalls[n + 1]
<1>1. \/ n < 4 /\ c.call = "pin"
      \/ n = 4 /\ c = SetPin(41, 0)
      \/ n = 5 /\ c = SetPin(40, 0)
      \/ n = 6 /\ c = SetPin(39, 0)
      \/ n = 7 /\ c = SetPin(37, 0)
      \/ n = 8 /\ c = SetPWM(1, 0)
      \/ n = 9 /\ c = SetPWM(0, 0)
  BY DEF CentreCalls, SetPin
<1> HIDE DEF c
<1>2. CASE n < 4
  BY <1>2 DEF Settled
<1>3. CASE n >= 4 /\ n < 8
  <2>1. c.call = "pin" /\ c.value = 0 /\ c.out = <<41, 40, 39, 37>>[n - 3]
    BY <1>1, <1>3 DEF SetPin
  <2>2. pin' = [pin EXCEPT ![c.out] = 0]
    BY <2>1 DEF DriverWrite, c
  <2> QED
    BY <1>3, <2>1, <2>2 DEF Settled, TypeOK, Pins
<1>4. CASE n >= 8
  <2>1. c.call = "pwm" /\ c.value = 0 /\ c.out = 9 - n
    BY <1>1, <1>4 DEF SetPWM
  <2>2. pwm' = [pwm EXCEPT ![c.out] = 0] /\ UNCHANGED pin
    BY <2>1 DEF DriverWrite, c
  <2> QED
    BY <1>4, <2>1, <2>2 DEF Settled, TypeOK
<1> QED
  BY <1>2, <1>3, <1>4

\* Nothing but a write disturbs a settled output, and no write of zero to a
\* PWM output does.
LEMMA SettledStays ==
  ASSUME NEW n \in 0 .. 10, Settled(n),
         \/ UNCHANGED outputs
         \/ UNCHANGED pin /\ \A a \in 0 .. 1 : pwm[a] = 0 => pwm'[a] = 0
  PROVE  Settled(n)'
BY DEF Settled, outputs

\* Centred sticks: whatever Move suppresses, the outputs are or will be zero.
LEMMA CentreStep ==
  TypeOK /\ StopInv /\ SaveInv /\ CentreInv /\ [Next]_vars => CentreInv'
<1> SUFFICES ASSUME TypeOK, StopInv, SaveInv, CentreInv, [Next]_vars,
                    lastspeed' = <<127, 127>>, ~lost'
             PROVE  \/ \E n \in 0 .. 10 :
                         todo'["udp"] = Rest(n) /\ Settled(n)'
                    \/ todo'["udp"] \in StopTails /\ Settled(10)'
  BY DEF CentreInv, Rest, Centre
<1>0. ASSUME lastspeed = <<127, 127>>, ~lost
      PROVE  \/ \E n \in 0 .. 10 : todo["udp"] = Rest(n) /\ Settled(n)
             \/ todo["udp"] \in StopTails /\ Settled(10)
  BY <1>0 DEF CentreInv, Rest, Centre
<1>1. ASSUME NEW channel \in 0 .. 1, NEW value \in Sticks,
             TankCommand(channel, value)
      PROVE  \/ \E n \in 0 .. 10 :
                  todo'["udp"] = Rest(n) /\ Settled(n)'
             \/ todo'["udp"] \in StopTails /\ Settled(10)'
  <2>1. /\ todo["udp"] = <<>>
        /\ <<127, 127>> = [lastspeed EXCEPT ![2 - channel] = value]
        /\ UNCHANGED outputs
    BY <1>1 DEF TankCommand
  <2>2. CASE Duties(<<127, 127>>) # save_speed
    <3>1. todo'["udp"] = CentreCalls
      <4>1. todo' = [todo EXCEPT !["udp"] = MoveCalls(lastspeed')]
        BY <1>1, <2>2, Zenon DEF TankCommand
      <4>2. todo'["udp"] = MoveCalls(lastspeed')
        BY <4>1 DEF TypeOK, Threads
      <4> QED
        BY <4>2, CentreMove
    <3>2. Settled(0)'
      BY DEF Settled
    <3> QED
      BY <3>1, <3>2, RestIs
  <2>3. CASE Duties(<<127, 127>>) = save_speed
    <3>1. UNCHANGED <<todo, lost>> /\ save_speed = <<0, 0>>
      BY <1>1, <2>3, CentreDuties DEF TankCommand
    <3>2. /\ lastspeed \in [1 .. 2 -> Bytes]
          /\ \E k \in 1 .. 2 : lastspeed[k] = 127
      <4>1. Sticks \cup {0} \subseteq Bytes
        BY SticksAssumption DEF Bytes
      <4>2. lastspeed \in [1 .. 2 -> Bytes]
        BY <4>1 DEF TypeOK
      <4>3. \A k \in 1 .. 2 : k # 2 - channel =>
              lastspeed[k] = <<127, 127>>[k]
        BY <2>1, <4>2
      <4> QED
        BY <4>2, <4>3
    <3>3. lastspeed = <<127, 127>>
      <4>1. \E v \in Bytes : lastspeed \in {<<v, 127>>, <<127, v>>}
        BY <3>2
      <4>2. lastspeed # <<0, 0>>
        BY <3>2
      <4>3. Duties(lastspeed) = <<0, 0>>
        BY <3>1, <4>2 DEF SaveInv
      <4> QED
        BY <4>1, <4>3, OffCentre
    <3>4. \/ \E n \in 0 .. 10 : todo["udp"] = Rest(n) /\ Settled(n)
          \/ todo["udp"] \in StopTails /\ Settled(10)
      BY <1>0, <3>1, <3>3
    <3> QED
      BY <2>1, <3>1, <3>4, SettledStays
  <2> QED
    BY <2>2, <2>3
<1>2. CASE ReceiveFails
  <2>1. /\ todo["udp"] = <<>> /\ todo'["udp"] = StopCalls
        /\ UNCHANGED <<lastspeed, lost, outputs>>
    BY <1>2 DEF ReceiveFails, TypeOK, Threads
  <2>2. Settled(10)
    BY <1>0, <2>1, RestIs
  <2>3. Settled(10)'
    BY <2>1, <2>2, SettledStays
  <2> QED
    BY <2>1, <2>3 DEF StopTails
<1>3. CASE Restart
  BY <1>3 DEF Restart
<1>4. ASSUME UNCHANGED <<lastspeed, lost>>, todo'["udp"] = todo["udp"],
             \/ UNCHANGED outputs
             \/ UNCHANGED pin /\ \A a \in 0 .. 1 : pwm[a] = 0 => pwm'[a] = 0
      PROVE  \/ \E n \in 0 .. 10 :
                  todo'["udp"] = Rest(n) /\ Settled(n)'
             \/ todo'["udp"] \in StopTails /\ Settled(10)'
  BY <1>0, <1>4, SettledStays
<1>5. CASE Alive \/ OpenPins \/ UNCHANGED vars
  BY <1>4, <1>5 DEF Alive, OpenPins, vars
<1>6. CASE AlarmFires \/ SendFails
  <2>1. /\ UNCHANGED <<lastspeed, lost, outputs>>
        /\ todo'["udp"] = todo["udp"]
    BY <1>6 DEF AlarmFires, SendFails, TypeOK, Threads
  <2> QED
    BY <1>4, <2>1
<1>7. ASSUME NEW t \in {"alarm", "main"}, DriverCall(t)
      PROVE  \/ \E n \in 0 .. 10 :
                  todo'["udp"] = Rest(n) /\ Settled(n)'
             \/ todo'["udp"] \in StopTails /\ Settled(10)'
  <2> DEFINE c == Head(todo[t])
  <2>1. /\ todo[t] \in StopTails /\ todo[t] # <<>>
        /\ todo[t] \in Seq(Calls)
    BY <1>7, StopTailsIs DEF DriverCall, StopInv
  <2>2. c \in Calls /\ c.call = "pwm" /\ c.value = 0
    <3>1. c \in {SetPWM(0, 0), SetPWM(1, 0)}
      BY <2>1, StopTailsIs
    <3>2. c \in Calls
      BY <2>1, TailIs
    <3> QED
      BY <3>1, <3>2 DEF SetPWM
  <2>3. UNCHANGED pin /\ \A a \in 0 .. 1 : pwm[a] = 0 => pwm'[a] = 0
    BY <1>7, <2>2, ZeroWrite DEF DriverCall
  <2>4. /\ todo'["udp"] = todo["udp"] /\ lastspeed' = lastspeed
        /\ lost' = lost
    BY <1>7 DEF DriverCall, TypeOK, Threads
  <2> QED
    BY <1>4, <2>3, <2>4
<1>8. CASE DriverCall("udp")
  <2> DEFINE c == Head(todo["udp"])
  <2>1. /\ todo["udp"] # <<>> /\ DriverWrite(c)
        /\ todo'["udp"] = Tail(todo["udp"])
        /\ lastspeed = <<127, 127>> /\ ~lost /\ opened
    BY <1>8 DEF DriverCall, TypeOK, Threads
  <2>2. CASE todo["udp"] \in StopTails /\ Settled(10)
    <3>1. /\ c \in {SetPWM(0, 0), SetPWM(1, 0)} /\ c \in Calls
          /\ Tail(todo["udp"]) \in StopTails
      BY <2>1, <2>2, StopTailsIs, TailIs
    <3>2. UNCHANGED pin /\ \A a \in 0 .. 1 : pwm[a] = 0 => pwm'[a] = 0
      BY <2>1, <3>1, ZeroWrite DEF SetPWM
    <3> QED
      BY <2>1, <2>2, <3>1, <3>2, SettledStays
  <2>3. ASSUME NEW n \in 0 .. 10, todo["udp"] = Rest(n), Settled(n)
        PROVE  \E m \in 0 .. 10 : todo'["udp"] = Rest(m) /\ Settled(m)'
    <3>1. n \in 0 .. 9
      BY <2>1, <2>3, RestIs
    <3>2. c = CentreCalls[n + 1] /\ todo'["udp"] = Rest(n + 1)
      BY <2>1, <2>3, <3>1, RestIs
    <3>3. Settled(n + 1)'
      BY <2>1, <2>3, <3>1, <3>2, SettleOne
    <3> QED
      BY <3>1, <3>2, <3>3
  <2> QED
    BY <1>0, <2>1, <2>2, <2>3
<1> QED
  BY <1>1, <1>2, <1>3, <1>5, <1>6, <1>7, <1>8 DEF Next, Threads

-----------------------------------------------------------------------------
(* Ahead within the period.                                                 *)

\* The writes of a list, in any order.
Writes(s) == {s[j] : j \in 1 .. Len(s)}

LEMMA WritesFacts ==
  /\ Writes(<<>>) = {}
  /\ \A a, b \in Calls : Writes(<<a, b>>) = {a, b}
  /\ \A s, t \in Seq(Calls) : Writes(s \o t) = Writes(s) \cup Writes(t)
<1>1. Writes(<<>>) = {}
  BY DEF Writes
<1>2. ASSUME NEW a \in Calls, NEW b \in Calls
      PROVE  Writes(<<a, b>>) = {a, b}
  <2>1. Len(<<a, b>>) = 2 /\ <<a, b>>[1] = a /\ <<a, b>>[2] = b
    OBVIOUS
  <2> QED
    BY <2>1 DEF Writes
<1>3. ASSUME NEW s \in Seq(Calls), NEW t \in Seq(Calls)
      PROVE  Writes(s \o t) = Writes(s) \cup Writes(t)
  <2>1. /\ Len(s \o t) = Len(s) + Len(t) /\ Len(s) \in Nat /\ Len(t) \in Nat
        /\ \A j \in 1 .. Len(s) + Len(t) :
             (s \o t)[j] = IF j <= Len(s) THEN s[j] ELSE t[j - Len(s)]
    BY ConcatProperties
  <2>2. ASSUME NEW w \in Writes(s \o t)
        PROVE  w \in Writes(s) \cup Writes(t)
    <3>1. PICK j \in 1 .. Len(s) + Len(t) : w = (s \o t)[j]
      BY <2>1 DEF Writes
    <3>2. CASE j <= Len(s)
      <4>1. j \in 1 .. Len(s) /\ w = s[j]
        BY <2>1, <3>1, <3>2
      <4> QED
        BY <4>1 DEF Writes
    <3>3. CASE j > Len(s)
      <4>1. j - Len(s) \in 1 .. Len(t) /\ w = t[j - Len(s)]
        BY <2>1, <3>1, <3>3
      <4> QED
        BY <4>1 DEF Writes
    <3> QED
      BY <2>1, <3>2, <3>3
  <2>3. ASSUME NEW w \in Writes(s)
        PROVE  w \in Writes(s \o t)
    <3>1. PICK j \in 1 .. Len(s) : w = s[j]
      BY DEF Writes
    <3>2. j \in 1 .. Len(s \o t) /\ (s \o t)[j] = w
      BY <2>1, <3>1
    <3> QED
      BY <3>2 DEF Writes
  <2>4. ASSUME NEW w \in Writes(t)
        PROVE  w \in Writes(s \o t)
    <3>1. PICK j \in 1 .. Len(t) : w = t[j]
      BY DEF Writes
    <3>2. j + Len(s) \in 1 .. Len(s \o t) /\ (s \o t)[j + Len(s)] = w
      BY <2>1, <3>1
    <3> QED
      BY <3>2 DEF Writes
  <2> QED
    BY <2>2, <2>3, <2>4
<1> QED
  BY <1>1, <1>2, <1>3

\* A head and a tail are all the writes there are.
LEMMA WritesTail ==
  ASSUME NEW s \in Seq(Calls), s # <<>>
  PROVE  Writes(s) = {Head(s)} \cup Writes(Tail(s))
<1>1. ASSUME NEW w \in Writes(s)
      PROVE  w \in {Head(s)} \cup Writes(Tail(s))
  <2>1. PICK j \in 1 .. Len(s) : w = s[j]
    BY DEF Writes
  <2>2. CASE j = 1
    BY <2>1, <2>2, TailIs
  <2>3. CASE j # 1
    <3>1. j - 1 \in 1 .. Len(Tail(s)) /\ Tail(s)[j - 1] = w
      BY <2>1, <2>3, TailIs
    <3> QED
      BY <3>1 DEF Writes
  <2> QED
    BY <2>2, <2>3
<1>2. Head(s) \in Writes(s)
  BY TailIs DEF Writes
<1>3. ASSUME NEW w \in Writes(Tail(s))
      PROVE  w \in Writes(s)
  <2>1. PICK j \in 1 .. Len(Tail(s)) : w = Tail(s)[j]
    BY DEF Writes
  <2>2. j + 1 \in 1 .. Len(s) /\ s[j + 1] = w
    BY <2>1, TailIs
  <2> QED
    BY <2>2 DEF Writes
<1> QED
  BY <1>1, <1>2, <1>3

\* The PWM output of a track.
Output(k) == IF k = 1 THEN 1 ELSE 0

\* A track will not be told to go ahead: no write to come sets its forward
\* pin, which is low or will be.
NotAhead(k) ==
  /\ SetPin(Forward[k], 1) \notin Writes(todo["udp"])
  /\ pin[Forward[k]] = 0 \/ SetPin(Forward[k], 0) \in Writes(todo["udp"])

\* Or it will get no more than the period.
Limited(k) ==
  /\ \A d \in 0 .. MaxDuty :
       SetPWM(Output(k), d) \in Writes(todo["udp"]) => d <= Period
  /\ \/ pwm[Output(k)] <= Period
     \/ \E d \in 0 .. MaxDuty : SetPWM(Output(k), d) \in Writes(todo["udp"])

AheadInv == ~lost => \A k \in 1 .. 2 : NotAhead(k) \/ Limited(k)

\* What Move writes of a track.
LEMMA MoveWrites ==
  ASSUME NEW val \in [1 .. 2 -> Bytes], NEW k \in 1 .. 2
  PROVE  /\ Mix(val)[k] < 0 =>
              /\ SetPin(Forward[k], 1) \notin Writes(MoveCalls(val))
              /\ SetPin(Forward[k], 0) \in Writes(MoveCalls(val))
         /\ SetPWM(Output(k), Duties(val)[k]) \in Writes(MoveCalls(val))
         /\ \A d : SetPWM(Output(k), d) \in Writes(MoveCalls(val)) =>
                     d = Duties(val)[k]
<1>1. \A n \in 1 .. 2 :
        /\ SetPin(Forward[n], Level(Mix(val)[n] >= 0)) \in Calls
        /\ SetPin(Backward[n], Level(Mix(val)[n] < 0)) \in Calls
        /\ SetPin(Forward[n], 0) \in Calls /\ SetPin(Backward[n], 0) \in Calls
  BY CallTypes DEF Level, Forward, Backward, Pins
<1>2. \A n \in 1 .. 2 :
        /\ Direct(val, n) \in Seq(Calls)
        /\ Writes(Direct(val, n)) =
             {SetPin(Forward[n], Level(Mix(val)[n] >= 0)),
              SetPin(Backward[n], Level(Mix(val)[n] < 0))}
  BY <1>1, WritesFacts DEF Direct
<1>3. \A n \in 1 .. 2 :
        /\ Release(val, n) \in Seq(Calls)
        /\ Writes(Release(val, n)) \subseteq
             {SetPin(Forward[n], 0), SetPin(Backward[n], 0)}
  BY <1>1, WritesFacts DEF Release
<1>4. /\ Drive(val) \in Seq(Calls)
      /\ Writes(Drive(val)) =
           {SetPWM(1, Duties(val)[1]), SetPWM(0, Duties(val)[2])}
  <2>1. SetPWM(1, Duties(val)[1]) \in Calls /\ SetPWM(0, Duties(val)[2]) \in Calls
    BY CallTypes, DutiesRange
  <2> QED
    BY <2>1, WritesFacts DEF Drive
<1>5. Writes(MoveCalls(val)) =
        Writes(Direct(val, 1)) \cup Writes(Direct(val, 2))
          \cup Writes(Release(val, 1)) \cup Writes(Release(val, 2))
          \cup Writes(Drive(val))
  <2>1. \A s, t \in Seq(Calls) :
          s \o t \in Seq(Calls) /\ Writes(s \o t) = Writes(s) \cup Writes(t)
    BY WritesFacts, ConcatProperties
  <2> DEFINE d1 == Direct(val, 1)
             d2 == Direct(val, 2)
             r1 == Release(val, 1)
             r2 == Release(val, 2)
  <2>2. d1 \in Seq(Calls) /\ d2 \in Seq(Calls) /\ r1 \in Seq(Calls)
        /\ r2 \in Seq(Calls)
    BY <1>2, <1>3
  <2>3. MoveCalls(val) = d1 \o d2 \o r1 \o r2 \o Drive(val)
    BY DEF MoveCalls
  <2> HIDE DEF d1, d2, r1, r2
  <2>4. d1 \o d2 \in Seq(Calls)
        /\ Writes(d1 \o d2) = Writes(d1) \cup Writes(d2)
    BY <2>1, <2>2
  <2>5. d1 \o d2 \o r1 \in Seq(Calls)
        /\ Writes(d1 \o d2 \o r1) = Writes(d1 \o d2) \cup Writes(r1)
    BY <2>1, <2>2, <2>4
  <2>6. d1 \o d2 \o r1 \o r2 \in Seq(Calls)
        /\ Writes(d1 \o d2 \o r1 \o r2) = Writes(d1 \o d2 \o r1) \cup Writes(r2)
    BY <2>1, <2>2, <2>5
  <2>7. Writes(MoveCalls(val))
          = Writes(d1 \o d2 \o r1 \o r2) \cup Writes(Drive(val))
    BY <1>4, <2>1, <2>3, <2>6
  <2>8. Writes(MoveCalls(val)) =
          Writes(d1) \cup Writes(d2) \cup Writes(r1) \cup Writes(r2)
            \cup Writes(Drive(val))
    BY <2>4, <2>5, <2>6, <2>7
  <2> QED
    BY <2>8 DEF d1, d2, r1, r2
<1>6. Mix(val)[k] \in -256 .. 256
  BY MixRange
<1>7. ASSUME Mix(val)[k] < 0
      PROVE  /\ SetPin(Forward[k], 1) \notin Writes(MoveCalls(val))
             /\ SetPin(Forward[k], 0) \in Writes(MoveCalls(val))
  <2>1. Level(Mix(val)[k] >= 0) = 0
    BY <1>6, <1>7 DEF Level
  <2>2. SetPin(Forward[k], 0) \in Writes(Direct(val, k))
    BY <1>2, <2>1
  <2>3. \A n \in 1 .. 2 :
          /\ SetPin(Forward[k], 1) \notin Writes(Direct(val, n))
          /\ SetPin(Forward[k], 1) \notin Writes(Release(val, n))
    BY <1>2, <1>3, <2>1 DEF SetPin, Forward, Backward
  <2>4. SetPin(Forward[k], 1) \notin Writes(Drive(val))
    BY <1>4 DEF SetPin, SetPWM
  <2> QED
    BY <1>5, <2>2, <2>3, <2>4
<1>8. SetPWM(Output(k), Duties(val)[k]) \in Writes(MoveCalls(val))
  BY <1>4, <1>5 DEF Output
<1>9. ASSUME NEW d, SetPWM(Output(k), d) \in Writes(MoveCalls(val))
      PROVE  d = Duties(val)[k]
  <2>1. \A n \in 1 .. 2 :
          /\ SetPWM(Output(k), d) \notin Writes(Direct(val, n))
          /\ SetPWM(Output(k), d) \notin Writes(Release(val, n))
    BY <1>2, <1>3 DEF SetPin, SetPWM
  <2>2. SetPWM(Output(k), d) \in Writes(Drive(val))
    BY <1>5, <1>9, <2>1
  <2> QED
    BY <1>4, <2>2 DEF SetPWM, Output
<1> QED
  BY <1>7, <1>8, <1>9

\* A speed ahead is limited.
LEMMA AheadDuty ==
  ASSUME NEW speed \in -256 .. 256, speed >= 0
  PROVE  Duty(speed) <= Period
BY DEF Duty, Abs, Period

LEMMA AheadStep == TypeOK /\ StopInv /\ AheadInv /\ [Next]_vars => AheadInv'
<1> SUFFICES ASSUME TypeOK, StopInv, AheadInv, [Next]_vars, ~lost'
             PROVE  \A k \in 1 .. 2 : NotAhead(k)' \/ Limited(k)'
  BY DEF AheadInv
<1>1. /\ todo["udp"] \in Seq(Calls) /\ todo \in [Threads -> Seq(Calls)]
      /\ pwm \in [0 .. 1 -> 0 .. MaxDuty] /\ pin \in [Pins -> 0 .. 1]
      /\ \A k \in 1 .. 2 : Forward[k] \in Pins /\ Output(k) \in 0 .. 1
  BY DEF TypeOK, Threads, Forward, Output, Pins
<1>2. CASE UNCHANGED <<outputs, lost>> /\ todo'["udp"] = todo["udp"]
  BY <1>2 DEF AheadInv, NotAhead, Limited, outputs
<1>3. ASSUME NEW channel \in 0 .. 1, NEW value \in Sticks,
             TankCommand(channel, value)
      PROVE  \A k \in 1 .. 2 : NotAhead(k)' \/ Limited(k)'
  <2> DEFINE last == [lastspeed EXCEPT ![2 - channel] = value]
  <2>1. CASE Duties(last) = save_speed
    BY <1>2, <1>3, <2>1 DEF TankCommand
  <2>2. CASE Duties(last) # save_speed
    <3>1. last \in [1 .. 2 -> Bytes]
      <4>1. last \in [1 .. 2 -> Sticks \cup {0}]
        BY DEF TypeOK
      <4>2. Sticks \cup {0} \subseteq Bytes
        BY SticksAssumption DEF Bytes
      <4> HIDE DEF last
      <4> QED
        BY <4>1, <4>2
    <3>2. todo'["udp"] = MoveCalls(last) /\ UNCHANGED outputs
      BY <1>1, <1>3, <2>2 DEF TankCommand, Threads
    <3> HIDE DEF last
    <3>3. ASSUME NEW k \in 1 .. 2
          PROVE  NotAhead(k)' \/ Limited(k)'
      <4>1. Mix(last)[k] \in -256 .. 256
        BY <3>1, MixRange
      <4>2. CASE Mix(last)[k] < 0
        <5>1. NotAhead(k)'
          BY <3>1, <3>2, <4>2, MoveWrites DEF NotAhead
        <5> QED
          BY <5>1
      <4>3. CASE Mix(last)[k] >= 0
        <5>1. Duties(last)[k] <= Period /\ Duties(last)[k] \in 0 .. MaxDuty
          <6>1. Duties(last)[k] = Duty(Mix(last)[k])
            BY DEF Duties
          <6> QED
            BY <3>1, <4>1, <4>3, <6>1, AheadDuty, DutiesRange
        <5>2. Limited(k)'
          BY <3>1, <3>2, <5>1, MoveWrites DEF Limited
        <5> QED
          BY <5>2
      <4> QED
        BY <4>1, <4>2, <4>3
    <3> QED
      BY <3>3
  <2> QED
    BY <2>1, <2>2
<1>4. CASE ReceiveFails
  <2>1. /\ todo["udp"] = <<>> /\ todo'["udp"] = StopCalls
        /\ UNCHANGED <<outputs, lost>>
    BY <1>1, <1>4 DEF ReceiveFails, Threads
  <2>2. SetPWM(0, 0) \in Calls /\ SetPWM(1, 0) \in Calls
    BY CallTypes DEF MaxDuty, Duty, Abs, Period
  <2>3. Writes(StopCalls) = {SetPWM(0, 0), SetPWM(1, 0)}
    BY <2>2, WritesFacts DEF StopCalls
  <2>4. ASSUME NEW k \in 1 .. 2, NotAhead(k)
        PROVE  NotAhead(k)'
    BY <2>1, <2>3, <2>4, WritesFacts DEF NotAhead, SetPin, SetPWM, outputs
  <2>5. ASSUME NEW k \in 1 .. 2, Limited(k)
        PROVE  Limited(k)'
    <3>1. pwm'[Output(k)] <= Period
      BY <2>1, <2>5, WritesFacts DEF Limited, outputs
    <3>2. \A d \in 0 .. MaxDuty :
            SetPWM(Output(k), d) \in Writes(todo'["udp"]) => d <= Period
      BY <2>1, <2>3 DEF SetPWM, Period
    <3> QED
      BY <3>1, <3>2 DEF Limited
  <2> QED
    BY <2>1, <2>4, <2>5 DEF AheadInv
<1>5. CASE Restart
  <2>1. todo'["udp"] = todo["udp"] /\ UNCHANGED <<outputs, lost>>
    BY <1>1, <1>5 DEF Restart, Threads
  <2> QED
    BY <1>2, <2>1
<1>6. CASE DriverCall("alarm") \/ DriverCall("main")
  <2>1. PICK t \in {"alarm", "main"} : DriverCall(t)
    BY <1>6
  <2>2. /\ todo[t] \in StopTails /\ todo[t] # <<>> /\ opened /\ ~lost
        /\ DriverWrite(Head(todo[t])) /\ todo'["udp"] = todo["udp"]
    BY <1>1, <2>1 DEF DriverCall, StopInv, Threads
  <2>3. Head(todo[t]) \in {SetPWM(0, 0), SetPWM(1, 0)}
    BY <2>2, StopTailsIs
  <2>4. /\ pin' = pin
        /\ \A k \in 1 .. 2 : pwm'[Output(k)] = pwm[Output(k)]
                             \/ pwm'[Output(k)] = 0
    <3> DEFINE c == Head(todo[t])
    <3>1. /\ c.call = "pwm" /\ c.out \in 0 .. 1 /\ c.value = 0
          /\ DriverWrite(c)
      BY <2>2, <2>3 DEF SetPWM
    <3> HIDE DEF c
    <3>2. pin' = pin /\ pwm' = [pwm EXCEPT ![c.out] = 0]
      BY <2>2, <3>1 DEF DriverWrite
    <3> QED
      BY <1>1, <3>1, <3>2
  <2>5. \A k \in 1 .. 2 : NotAhead(k) => NotAhead(k)'
    BY <2>2, <2>4 DEF NotAhead
  <2>6. \A k \in 1 .. 2 : Limited(k) => Limited(k)'
    BY <2>2, <2>4 DEF Limited, Period
  <2> QED
    BY <2>2, <2>5, <2>6 DEF AheadInv
<1>7. CASE DriverCall("udp")
  <2> DEFINE c == Head(todo["udp"])
  <2>1. /\ todo["udp"] # <<>> /\ DriverWrite(c) /\ opened /\ ~lost
        /\ todo'["udp"] = Tail(todo["udp"])
    BY <1>1, <1>7 DEF DriverCall, TypeOK, Threads
  <2>2. c \in Calls /\ Writes(todo["udp"]) = {c} \cup Writes(todo'["udp"])
    BY <1>1, <2>1, TailIs, WritesTail
  <2> HIDE DEF c
  <2>3. CASE c \in [call : {"pin"}, out : Pins, value : 0 .. 1]
    <3>1. /\ pwm' = pwm /\ pin' = [pin EXCEPT ![c.out] = c.value]
          /\ c.value \in 0 .. 1 /\ c.out \in Pins
          /\ c = SetPin(c.out, c.value)
      BY <2>1, <2>3 DEF DriverWrite, SetPin
    <3>2. \A a, d : SetPWM(a, d) # c
      BY <3>1 DEF SetPin, SetPWM
    <3>3. ASSUME NEW k \in 1 .. 2, NotAhead(k)
          PROVE  NotAhead(k)'
      <4>1. c # SetPin(Forward[k], 1)
        BY <2>2, <3>3 DEF NotAhead
      <4>2. CASE c.out = Forward[k]
        <5>1. c.value = 0
          BY <3>1, <4>1, <4>2
        <5>2. pin'[Forward[k]] = 0
          BY <1>1, <3>1, <4>2, <5>1
        <5> QED
          BY <2>2, <3>3, <5>2 DEF NotAhead
      <4>3. CASE c.out # Forward[k]
        <5>1. pin'[Forward[k]] = pin[Forward[k]]
          BY <1>1, <3>1, <4>3
        <5>2. c # SetPin(Forward[k], 0)
          BY <4>3 DEF SetPin
        <5> QED
          BY <2>2, <3>3, <5>1, <5>2 DEF NotAhead
      <4> QED
        BY <4>2, <4>3
    <3>4. \A k \in 1 .. 2 : Limited(k) => Limited(k)'
      BY <2>2, <3>1, <3>2 DEF Limited
    <3> QED
      BY <2>1, <3>3, <3>4 DEF AheadInv
  <2>4. CASE c \in [call : {"pwm"}, out : 0 .. 1, value : 0 .. MaxDuty]
    <3>1. /\ pin' = pin /\ pwm' = [pwm EXCEPT ![c.out] = c.value]
          /\ c.value \in 0 .. MaxDuty /\ c.out \in 0 .. 1
          /\ c = SetPWM(c.out, c.value)
      BY <2>1, <2>4 DEF DriverWrite, SetPWM
    <3>2. \A p, v : SetPin(p, v) # c
      BY <3>1 DEF SetPin, SetPWM
    <3>3. \A k \in 1 .. 2 : NotAhead(k) => NotAhead(k)'
      BY <2>2, <3>1, <3>2 DEF NotAhead
    <3>4. ASSUME NEW k \in 1 .. 2, Limited(k)
          PROVE  Limited(k)'
      <4>1. CASE c.out = Output(k)
        <5>1. c.value <= Period
          BY <2>2, <3>1, <3>4, <4>1 DEF Limited
        <5>2. pwm'[Output(k)] <= Period
          BY <1>1, <3>1, <4>1, <5>1
        <5> QED
          BY <2>2, <3>4, <5>2 DEF Limited
      <4>2. CASE c.out # Output(k)
        <5>1. pwm'[Output(k)] = pwm[Output(k)]
          BY <1>1, <3>1, <4>2
        <5>2. \A d : c # SetPWM(Output(k), d)
          BY <4>2 DEF SetPWM
        <5> QED
          BY <2>2, <3>4, <5>1, <5>2 DEF Limited
      <4> QED
        BY <4>1, <4>2
    <3> QED
      BY <2>1, <3>3, <3>4 DEF AheadInv
  <2> QED
    BY <2>2, <2>3, <2>4 DEF Calls
<1>8. CASE Alive \/ OpenPins \/ AlarmFires \/ SendFails \/ UNCHANGED vars
  <2>1. todo'["udp"] = todo["udp"] /\ UNCHANGED <<outputs, lost>>
    BY <1>1, <1>8 DEF Alive, OpenPins, AlarmFires, SendFails, vars, Threads
  <2> QED
    BY <1>2, <2>1
<1> QED
  BY <1>3, <1>4, <1>5, <1>6, <1>7, <1>8 DEF Next, Threads

-----------------------------------------------------------------------------
(* The theorems.                                                            *)

\* The invariant holds at the start ...
LEMMA InvInit == Init => IInv
<1> SUFFICES ASSUME Init PROVE IInv
  OBVIOUS
<1>1. TypeOK
  BY TypeInit
<1>2. StopInv
  BY DEF Init, StopInv, StopTails, Threads, StopCalls
<1>3. SaveInv /\ CentreInv
  BY DEF Init, SaveInv, CentreInv, Centre
<1> QED
  BY <1>1, <1>2, <1>3 DEF IInv

\* ... and in every reachable state.
THEOREM Invariance == Spec => []IInv
<1>1. IInv /\ [Next]_vars => IInv'
  BY TypeStep, StopStep, SaveStep, CentreStep DEF IInv
<1> QED
  BY InvInit, <1>1, PTL DEF Spec

\* The duties stay within that of the fastest reverse, and every write still
\* to come is one the driver knows (setPin, setPWM).
THEOREM TypeCorrect == Spec => []TypeOK
<1>1. IInv => TypeOK
  BY DEF IInv
<1> QED
  BY Invariance, <1>1, PTL

\* Whatever sticks came before, in whatever order with the stopAlls, and
\* whatever Move took for a repetition: centred sticks stop both tracks.
THEOREM CentreStops == Spec => []CentredSticksStop
<1>1. IInv => CentredSticksStop
  <2> SUFFICES ASSUME IInv, todo["udp"] = <<>>,
                      lastspeed = <<Centre, Centre>>, ~lost
               PROVE  /\ pwm[0] = 0 /\ pwm[1] = 0
                      /\ \A p \in Pins : pin[p] = 0
    BY DEF CentredSticksStop
  <2>1. Settled(10)
    BY RestIs DEF IInv, CentreInv, Rest
  <2> QED
    BY <2>1 DEF Settled, Pins
<1> QED
  BY Invariance, <1>1, PTL

\* The stopAll of the alarm brings both tracks to rest and they stay there
\* until the next alive, unless it fell in the middle of a Move.
THEOREM FailSafeStops == Spec => []FailSafeStopsTracks
<1>1. IInv => FailSafeStopsTracks
  BY DEF IInv, StopInv, FailSafeStopsTracks
<1> QED
  BY Invariance, <1>1, PTL

\* A track driven ahead never gets more than the period, also where Move took
\* a reversal for a repetition, for every pair of sticks (commands.c:222).
THEOREM AheadLimited == Spec => []AheadWithinPeriod
<1>1. Init => AheadInv
  <2> SUFFICES ASSUME Init, NEW k \in 1 .. 2 PROVE NotAhead(k)
    BY DEF AheadInv
  <2>1. todo["udp"] = <<>> /\ pin[Forward[k]] = 0
    BY DEF Init, Threads, Forward, Pins
  <2> QED
    BY <2>1, WritesFacts DEF NotAhead
<1>2. IInv /\ AheadInv /\ [Next]_vars => AheadInv'
  BY AheadStep DEF IInv
<1>3. AheadInv => AheadWithinPeriod
  <2> SUFFICES ASSUME AheadInv, todo["udp"] = <<>>, ~lost
               PROVE  /\ pin[Forward[1]] = 1 => pwm[1] <= Period
                      /\ pin[Forward[2]] = 1 => pwm[0] <= Period
    BY DEF AheadWithinPeriod
  <2>1. \A k \in 1 .. 2 : pin[Forward[k]] = 0 \/ pwm[Output(k)] <= Period
    BY WritesFacts DEF AheadInv, NotAhead, Limited
  <2> QED
    BY <2>1 DEF Output
<1> QED
  BY Invariance, <1>1, <1>2, <1>3, PTL DEF Spec

=============================================================================
