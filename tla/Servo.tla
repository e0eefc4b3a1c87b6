------------------------------- MODULE Servo -------------------------------
(***************************************************************************)
(* From a stick byte to the pulse of a servo: the scaling in parseCommand   *)
(* (commands.c) and in virt2real_init_pwm and setPPM (virt2real.c), in the  *)
(* integers of the code.  Pulses are in periods of 0.042 us, the PWM clock. *)
(***************************************************************************)
EXTENDS Integers

Byte == 0 .. 255

\* Division of C: towards zero.
Quotient(a, b) == IF a >= 0 THEN a \div b ELSE -((-a) \div b)

\* 0.042 = 42 / 1000: a length in microseconds, in periods of the clock.
Ticks(us) == (us * 1000) \div 42

\* A mutant: the byte is taken for a signed deflection.
SpeedUncentred(value, zero) == Quotient(value * 90, 127) + zero

\* (buf[2] - 127) * 90 / 127 + zero: degrees, 180 of them edge to edge.
Speed(value, zero) == Quotient((value - 127) * 90, 127) + zero

PpmDelta(min, max) == Quotient(Ticks(max) - Ticks(min), 180)

\* ppm_duty of setPPM; nothing limits it.
PpmDuty(speed, min, max) == Ticks(min) + PpmDelta(min, max) * speed

\* What stick value `value' makes the driver send.
Pulse(value, zero, min, max) == PpmDuty(Speed(value, zero), min, max)

\* What stopAll makes it send.
NeutralPulse(zero, min, max) == PpmDuty(zero, min, max)

=============================================================================
