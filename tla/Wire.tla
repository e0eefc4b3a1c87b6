-------------------------------- MODULE Wire --------------------------------
(***************************************************************************)
(* The bytes between ground station and board: the datagrams that Joystick, *)
(* Keyboard, Telemetry and Network build, the one receive buffer of the     *)
(* board they arrive in, and what parseCommand makes of that buffer while   *)
(* the lease gate is open.  The buffer is never cleared and the length of a *)
(* datagram is not looked at, so a short one is read with the tail of       *)
(* earlier ones behind it.                                                  *)
(***************************************************************************)
EXTENDS Servo, Sequences, SequencesExt

CONSTANTS
  Values,      \* axis values the ground station sends
  Rates,       \* bitrates and MTUs a user may enter
  ButtonKeys,  \* values of Keyboard.buttonstate
  axis,        \* config.axis, by channel
  zero,        \* config.ppm[].zero, by output
  min, max     \* config.ppm[].min and .max, in us

INT_MAX == 2147483647
INT_MIN == -INT_MAX - 1
Int32 == INT_MIN .. INT_MAX

ASSUME WireAssumption ==
  /\ Values \subseteq Byte
  /\ Rates \subseteq Int32
  /\ ButtonKeys \subseteq Int32 /\ ButtonKeys \subseteq Nat
  /\ axis \in [0 .. 3 -> 0 .. 3] /\ zero \in [0 .. 3 -> Int]
  /\ min \in Nat /\ max \in Nat /\ min <= max

BufferBytes == 7   \* the longest prefix of buf that parseCommand reads

VARIABLES
  buf,        \* the receive buffer
  sent,       \* what the ground station last sent
  executed    \* what the board did about it

vars == <<buf, sent, executed>>

-----------------------------------------------------------------------------
(* Building.                                                                *)

\* Exclusive or of two bytes: the bits they do not share.
Xor(a, b) ==
  LET Bit(k) == 2 ^ k * ((a \div 2 ^ k + b \div 2 ^ k) % 2)
  IN MapThenSumSet(Bit, 0 .. 7)

Checksum(bytes) == FoldLeft(Xor, 0, bytes)
Sealed(bytes) == Append(bytes, Checksum(bytes))
LittleEndian(n) == <<n % 256, (n \div 256) % 256, (n \div 65536) % 256,
                     (n \div 16777216) % 256>>

\* Telemetry: "client can show videostream" in the second byte.
AliveMsg == Sealed(<<0, 1>>)

SendAxis(channel, value, tank) ==
  Sealed(<<IF tank THEN 2 ELSE 1, channel % 256, value % 256,
           (value \div 256) % 256>>)

SendButtons(value) == Sealed(<<2>> \o LittleEndian(value))

\* A mutant: the checksum is the last of the five bytes.
SendCmdServerRestartSealedLast == Sealed(<<5, 1, 0, 0>>)

\* Five bytes, the checksum in the third.
SendCmdServerRestart == Sealed(<<5, 1>>) \o <<0, 0>>

SendChangeBitrate(rate) == Sealed(<<5, 2>> \o LittleEndian(rate))
SendChangeMTU(mtu) == Sealed(<<5, 3>> \o LittleEndian(mtu))

-----------------------------------------------------------------------------
(* Parsing.  A C index k of buf is k + 1 here.                              *)

Do(op, arg, value) == [op |-> op, arg |-> arg, value |-> value]
Nothing == Do("nothing", 0, 0)

\* long is 32 bits on the board's processor.
Signed(b) ==
  LET n == b[3] + 256 * b[4] + 65536 * b[5] + (16777216 * (b[6] % 128))
  IN IF b[6] >= 128 THEN (n - 1073741824) - 1073741824 ELSE n

SetPPM(b) ==
  LET output == axis[b[2]]
  IN Do("ppm", output, Pulse(b[3], zero[output], min, max))

Checked(b, n) == Checksum(SubSeq(b, 1, n)) = b[n + 1]

\* Buttons go out under the number of the tank axis command; these are read
\* as one.
PassesForAxis(keys) ==
  LET b == SendButtons(keys) IN b[2] \in 0 .. 3 /\ Checked(b, 4)

\* commands.c, command by command.  Channels beyond 3 are ignored.
parseCommand(b) ==
  CASE b[1] = 0 /\ Checked(b, 2) -> Do("alive", b[2], 0)
    [] b[1] = 1 /\ b[2] \in 0 .. 3 /\ Checked(b, 4) -> SetPPM(b)
    [] b[1] = 2 /\ b[2] \in 0 .. 1 /\ Checked(b, 4) -> Do("move", b[2], b[3])
    [] b[1] = 2 /\ b[2] \in 2 .. 3 /\ Checked(b, 4) -> SetPPM(b)
    [] b[1] = 5 /\ b[2] = 1 /\ Checked(b, 2) -> Do("restart", 0, 0)
    [] b[1] = 5 /\ b[2] = 2 /\ Checked(b, 6) -> Do("bitrate", 0, Signed(b))
    [] b[1] = 5 /\ b[2] = 3 /\ Checked(b, 6) -> Do("mtu", 0, Signed(b))
    [] OTHER -> Nothing

-----------------------------------------------------------------------------
\* What the driver meant.
AxisEffect(channel, value, tank) ==
  IF tank /\ channel \in 0 .. 1 THEN Do("move", channel, value)
  ELSE IF channel \in 0 .. 3
       THEN Do("ppm", axis[channel],
               Pulse(value, zero[axis[channel]], min, max))
       ELSE Nothing

Init ==
  /\ buf = [k \in 1 .. BufferBytes |-> 0]
  /\ sent = Nothing /\ executed = Nothing

\* recvfrom puts the datagram over the front of the buffer.
Overlaid(msg) ==
  [k \in 1 .. BufferBytes |-> IF k <= Len(msg) THEN msg[k] ELSE buf[k]]

Deliver(msg, meant) ==
  /\ buf' = Overlaid(msg)
  /\ sent' = meant
  /\ executed' = parseCommand(buf')

Next ==
  \/ Deliver(AliveMsg, Do("alive", 1, 0))
  \/ \E channel \in 0 .. 7, value \in Values, tank \in BOOLEAN :
       Deliver(SendAxis(channel, value, tank), AxisEffect(channel, value, tank))
  \/ \E keys \in ButtonKeys : Deliver(SendButtons(keys), Nothing)
  \/ Deliver(SendCmdServerRestart, Do("restart", 0, 0))
  \/ \E rate \in Rates : Deliver(SendChangeBitrate(rate), Do("bitrate", 0, rate))
  \/ \E mtu \in Rates : Deliver(SendChangeMTU(mtu), Do("mtu", 0, mtu))

Spec == Init /\ [][Next]_vars

-----------------------------------------------------------------------------
\* The board executes exactly what the ground station meant, whatever bytes
\* earlier datagrams left behind in its buffer: no command is read past its
\* own end, none is mistaken for another kind, 32-bit values survive.
ExecutesWhatWasMeant == executed = sent

\* With a pulse range of 180 degrees around the neutral position, setPPM
\* stays in it although it does not check.
PulseInRange ==
  executed.op = "ppm" => executed.value \in Ticks(min) .. Ticks(max)

=============================================================================
