----------------------------- MODULE GroundLink -----------------------------
(***************************************************************************)
(* From the keys to the vehicle: the keyboard (module Keyboard), the UDP    *)
(* link, and the board as module RcBoard has it, each command and alarm in  *)
(* one step.  The link loses, duplicates and reorders.                      *)
(*                                                                          *)
(* The board is the client or the server of the link (config.role).  A      *)
(* server has no peer until it received something: what it sends to         *)
(* 0.0.0.0 comes back to its own socket, and it reads its own telemetry as  *)
(* commands.                                                                *)
(***************************************************************************)
EXTENDS Keyboard, FiniteSets

CONSTANTS
  KeySets,      \* the keys of a driver
  Followed,     \* the axes that are followed: "wheel", "throttle"
  InFlight,     \* datagrams on their way to the board, a bound of the model
  MaxTimeout    \* config.alive_maxtimeout

ASSUME LinkAssumption ==
  /\ KeySets \subseteq SUBSET Keys
  /\ Followed \subseteq {"wheel", "throttle"}
  /\ InFlight \in Nat \ {0} /\ MaxTimeout \in Nat \ {0}

VARIABLES
  keys,         \* those of this driver
  role,         \* config.role
  up,           \* datagrams on their way to the board
  known,        \* the ground station can send: it is the client or heard one
  peer,         \* si_other
  own,          \* the board's datagrams that come back to it
  armed, age,   \* aliveTimestamp
  output,       \* what each servo was last told, in stick units
  (* history, read by no guard *)
  upset,        \* axes whose last position was lost, refused or overwritten
  slipped       \* states of the keys that were sent as buttons

link == <<keys, role, up, known>>
board == <<peer, own, armed, age, output>>
vars == <<keyboard, link, board, upset, slipped>>

Alive == [cmd |-> "alive"]
Axis(channel, value, last) ==
  [cmd |-> "axis", channel |-> channel, value |-> value, last |-> last]
Buttons(state) == [cmd |-> "buttons", state |-> state]
Telemetry == {"alive", "voltage", "status"}

Outputs == Followed \cup {"aux"}
Off == -1        \* never driven
FullLeft == -2   \* a stick byte of 0
Low == -3        \* driven by the bytes of a status or a voltage
Track == -4      \* the duty and period that Move gives an output
ADD2 == 9

-----------------------------------------------------------------------------
(* The ground station.                                                      *)

\* An older position of an axis is no longer the last one.
Overtaken(m, channels) ==
  IF m.cmd = "axis" /\ m.channel \in channels THEN [m EXCEPT !.last = FALSE]
  ELSE m

\* Network.Send: into the link, if there is somebody to send to.
Sent(messages) ==
  LET channels == {m.channel : m \in {n \in messages : n.cmd = "axis"}}
  IN IF known THEN {Overtaken(m, channels) : m \in up} \cup messages ELSE up

\* Of the states that are sent the two that the board takes for a command.
Slips == {{UP}, {ADD2}}

Key(key, state) ==
  /\ key \in keys
  /\ ParseKeys(key, state)
  /\ LET axes == IF ~SendsAxes THEN {}
                 ELSE {Axis(c, Position(c, keystate', currentspeed'), TRUE) :
                         c \in Followed}
         buttons == IF SendsButtons THEN {Buttons(buttonstate')} ELSE {}
     IN /\ up' = Sent(axes \cup buttons)
        /\ upset' = [c \in Followed |-> IF axes = {} THEN upset[c] ELSE ~known]
  /\ Cardinality(up') <= InFlight
  /\ slipped' = IF SendsButtons THEN slipped \cup ({buttonstate'} \cap Slips)
                ELSE slipped
  /\ UNCHANGED <<keys, role, known, board>>

\* aliveTimer_Tick.
GroundAlive ==
  /\ up' = Sent({Alive}) /\ Cardinality(up') <= InFlight
  /\ UNCHANGED <<keyboard, keys, role, known, board, upset, slipped>>

Lose(m) ==
  /\ up' = up \ {m}
  /\ upset' = [c \in Followed |->
                 upset[c] \/ (m.cmd = "axis" /\ m.last /\ m.channel = c)]
  /\ UNCHANGED <<keyboard, keys, role, known, board, slipped>>

-----------------------------------------------------------------------------
(* The board.                                                               *)

Drive(channel, position) ==
  output' = IF armed THEN [output EXCEPT ![channel] = position] ELSE output

\* Move: the outputs of axes 1 and 0, whatever they are connected to.
Move(value) ==
  /\ output' = [o \in Outputs |-> IF o \in Followed THEN value ELSE output[o]]
  /\ upset' = [c \in Followed |-> TRUE]

LowByte(state) == state \cap 0 .. 7
HighByte(state) == {key - 8 : key \in state \ 0 .. 7}

\* A mutant: the checksum is not looked at.
PassesAsUnchecked(channel, state) == LowByte(state) = channel

\* The bytes of a buttons datagram are those of a tank axis, the channel in the
\* low one; the checksum holds if the high one differs in the bit of UP.
PassesAs(channel, state) ==
  /\ LowByte(state) = channel
  /\ (channel \ HighByte(state)) \cup (HighByte(state) \ channel) = {UP}

Execute(m) ==
  \/ /\ m.cmd = "alive"
     /\ armed' = TRUE /\ age' = 0
     /\ UNCHANGED <<output, upset>>
  \/ /\ m.cmd = "axis"
     /\ Drive(m.channel, m.value)
     /\ upset' = [upset EXCEPT ![m.channel] =
          IF m.last THEN ~armed
          ELSE @ \/ (armed /\ ~\E n \in up : /\ n.cmd = "axis" /\ n.last
                                             /\ n.channel = m.channel)]
     /\ UNCHANGED <<armed, age>>
  \/ /\ m.cmd = "buttons"
     /\ IF PassesAs({UP}, m.state) THEN Drive("aux", FullLeft)
        ELSE UNCHANGED output
     /\ UNCHANGED <<armed, age, upset>>
  \/ /\ m.cmd = "buttons" /\ PassesAs({}, m.state)
     /\ armed /\ Move(Track)   \* or nothing, above, if it repeats itself
     /\ UNCHANGED <<armed, age>>

\* recvfrom of a datagram of the ground station; `again' if it was duplicated.
Receive(m, again) ==
  /\ Execute(m)
  /\ up' = IF again THEN up ELSE up \ {m}
  /\ peer' = "ground"
  /\ UNCHANGED <<keyboard, keys, role, known, own, slipped>>

\* The main loop sends; nobody hears it while it is its own peer.
SendTelemetry(t) ==
  /\ own' = IF peer = "self" THEN own \cup {t} ELSE own
  /\ known' = (known \/ peer = "ground")
  /\ UNCHANGED <<keyboard, keys, role, up, peer, armed, age, output, upset,
                 slipped>>

\* Its own telemetry is parsed with the tail of older datagrams: the checksum
\* may be right or wrong.
ReceiveOwn(t) ==
  /\ own' = own \ {t} /\ peer' = "self"
  /\ \/ UNCHANGED <<armed, age, output, upset>>
     \/ /\ t = "alive" /\ armed' = TRUE /\ age' = 0
        /\ UNCHANGED <<output, upset>>
     \/ /\ t # "alive" /\ armed
        /\ \E o \in Outputs :
             /\ output' = [output EXCEPT ![o] = Low]
             /\ upset' = [c \in Followed |-> upset[c] \/ c = o]
        /\ UNCHANGED <<armed, age>>
     \/ /\ t = "status" /\ armed /\ Move(Low)
        /\ UNCHANGED <<armed, age>>
  /\ UNCHANGED <<keyboard, link, slipped>>

Tick ==
  /\ armed /\ age < MaxTimeout /\ age' = age + 1
  /\ UNCHANGED <<keyboard, link, peer, own, armed, output, upset, slipped>>

\* A mutant: the board forgets its peer with the lease.
AlarmForgets ==
  /\ armed /\ age = MaxTimeout
  /\ armed' = FALSE /\ age' = 0
  /\ output' = [o \in Outputs |-> MIDDLE]
  /\ upset' = [c \in Followed |-> TRUE]
  /\ peer' = IF role = "server" THEN "self" ELSE "ground"
  /\ UNCHANGED <<keyboard, link, own, slipped>>

Alarm ==
  /\ armed /\ age = MaxTimeout
  /\ armed' = FALSE /\ age' = 0
  /\ output' = [o \in Outputs |-> MIDDLE]
  /\ upset' = [c \in Followed |-> TRUE]
  /\ UNCHANGED <<keyboard, link, peer, own, slipped>>

\* The process ends and is started again; the outputs keep their pulses.
Restart ==
  /\ peer' = IF role = "server" THEN "self" ELSE "ground"
  /\ own' = {} /\ armed' = FALSE /\ age' = 0
  /\ UNCHANGED <<keyboard, link, output, upset, slipped>>

Init ==
  /\ KeyboardInit
  /\ keys \in KeySets /\ role \in {"client", "server"}
  /\ up = {} /\ known = (role = "server")
  /\ peer = IF role = "server" THEN "self" ELSE "ground"
  /\ own = {} /\ armed = FALSE /\ age = 0
  /\ output = [o \in Outputs |-> Off]
  /\ upset = [c \in Followed |-> TRUE] /\ slipped = {}

Next ==
  \/ \E key \in Keys, state \in BOOLEAN : Key(key, state)
  \/ GroundAlive \/ Tick \/ Alarm \/ Restart
  \/ \E m \in up : Lose(m) \/ \E again \in BOOLEAN : Receive(m, again)
  \/ \E t \in Telemetry : SendTelemetry(t)
  \/ \E t \in own : ReceiveOwn(t)

Spec == Init /\ [][Next]_vars

-----------------------------------------------------------------------------
(* Properties.                                                              *)

TypeOK ==
  /\ KeyboardTypeOK
  /\ keys \in KeySets /\ role \in {"client", "server"}
  /\ Cardinality(up) <= InFlight /\ known \in BOOLEAN
  /\ peer \in {"self", "ground"} /\ own \subseteq Telemetry
  /\ armed \in BOOLEAN /\ age \in 0 .. MaxTimeout
  /\ output \in [Outputs -> {Off, Low, FullLeft, Track} \cup 0 .. 2 * MIDDLE]
  /\ upset \in [Followed -> BOOLEAN] /\ slipped \subseteq Slips

\* The vehicle does what the keys say, with the speed of the display, as soon
\* as the last position of each axis is through: unless it was lost, came
\* before an older one or while the lease was out, the output was driven since
\* by the alarm, the board's own telemetry or the buttons that pass for a
\* track, or a key repetition changed the speed, which is not sent.  An axis
\* is never sent twice (ParseKeys, SendAxis, parseCommand).
VehicleFollowsKeys ==
  \A c \in Followed :
    \/ upset[c] \/ unsent
    \/ \E m \in up : m.cmd = "axis" /\ m.channel = c /\ m.last
    \/ output[c] = Position(c, keystate, currentspeed)

\* The board talks to itself only as a server, and only until a ground station
\* was heard with nothing of its own left to read; after that a fail safe or
\* any silence does not bring it back, only a new process does
\* (udp_server_loop, udp_client_send).
LoopEnds ==
  [][(role = "client" \/ (peer = "ground" /\ own = {} /\ ~Restart))
       => (peer' = "ground" /\ own' = {})]_vars

\* The datagram of the additional keys, which no command of the board is for,
\* drives the third servo only if one of them was released with UP alone held,
\* and the two axes of the vehicle, by Move, only if ADD2 alone was pressed
\* (SendButtons, parseCommand).
ButtonsHarmless ==
  /\ output["aux"] = FullLeft => {UP} \in slipped
  /\ \A c \in Followed : output[c] = Track => {ADD2} \in slipped

=============================================================================
