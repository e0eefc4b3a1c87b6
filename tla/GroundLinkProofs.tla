-------------------------- MODULE GroundLinkProofs --------------------------
(***************************************************************************)
(* What module GroundLink checks on a small instance, proved for every      *)
(* middle and step of the axes, every driver's keys, and any number of      *)
(* datagrams in flight: the boost of the keyboard ends where it began, the  *)
(* board stops talking to itself, and only two of the additional keys'      *)
(* datagrams drive anything.                                                *)
(***************************************************************************)
EXTENDS GroundLink, FiniteSetTheorems, TLAPS

Messages ==
  {Alive}
  \cup [cmd : {"axis"}, channel : Followed, value : 0 .. 2 * MIDDLE,
        last : BOOLEAN]
  \cup {Buttons(state) : state \in SUBSET Keys}

LinkInv == up \subseteq Messages /\ IsFiniteSet(up)

\* While a boost is clear, what the keyboard saved is the speed it began with.
BoostInv == (FORSAGE \in keystate /\ ~unclear) => before = save_forsage_speed

\* A client knows its peer from the start.
PeerInv == role = "client" => (peer = "ground" /\ own = {})

\* A buttons datagram that passes for an axis was sent by a slip.
SlipInv ==
  /\ \A m \in up : (m.cmd = "buttons" /\ m.state \in Slips)
                    => m.state \in slipped
  /\ ButtonsHarmless

IInv == TypeOK /\ LinkInv /\ BoostInv /\ PeerInv /\ SlipInv

\* The last position of an axis says what the keys say, and nothing is on its
\* way before there is somebody to send to.
LastInv ==
  /\ ~known => up = {}
  /\ \A m \in up : (m.cmd = "axis" /\ m.last) =>
       unsent \/ m.value = Position(m.channel, keystate, currentspeed)

-----------------------------------------------------------------------------
(* The keyboard.                                                            *)

\* Every speed lies between none and the middle.
LEMMA SpeedRange ==
  ASSUME KeyboardTypeOK, NEW key \in Keys, NEW state \in BOOLEAN
  PROVE  Speed(key, state) \in 0 .. MIDDLE
<1>1. /\ currentspeed \in 0 .. MIDDLE /\ save_forsage_speed \in 0 .. MIDDLE
      /\ MIDDLE \in Nat /\ STEP \in Nat
  BY KeyboardAssumption DEF KeyboardTypeOK
<1>2. Adjusted(key) \in 0 .. MIDDLE
  BY <1>1 DEF Adjusted, AtMost, AtLeast
<1> QED BY <1>1, <1>2 DEF Speed

LEMMA PositionRange ==
  ASSUME NEW channel, NEW held, NEW speed \in 0 .. MIDDLE
  PROVE  Position(channel, held, speed) \in 0 .. 2 * MIDDLE
BY KeyboardAssumption DEF Position, Deflected

LEMMA ParseKeysTypes ==
  ASSUME KeyboardTypeOK, NEW key \in Keys, NEW state \in BOOLEAN,
         ParseKeys(key, state)
  PROVE  KeyboardTypeOK'
<1>1. keystate' \subseteq Keys /\ buttonstate' \subseteq Keys
  BY DEF KeyboardTypeOK, ParseKeys
<1>2. currentspeed' \in 0 .. MIDDLE
  BY SpeedRange DEF ParseKeys
<1>3. save_forsage_speed' \in 0 .. MIDDLE
  BY DEF KeyboardTypeOK, ParseKeys
<1>4. before' \in 0 .. MIDDLE
  BY KeyboardAssumption DEF KeyboardTypeOK, ParseKeys
<1>5. unclear' \in BOOLEAN /\ unsent' \in BOOLEAN
  BY DEF KeyboardTypeOK, ParseKeys
<1> QED BY <1>1, <1>2, <1>3, <1>4, <1>5 DEF KeyboardTypeOK

\* The boost: the speed it began with is the speed it gives back.
LEMMA ParseKeysBoost ==
  ASSUME KeyboardTypeOK, BoostInv, NEW key \in Keys, NEW state \in BOOLEAN,
         ParseKeys(key, state)
  PROVE  /\ BoostInv'
         /\ (FORSAGE \in keystate /\ FORSAGE \notin keystate' /\ ~unclear)
              => currentspeed' = before
<1>1. ASSUME FORSAGE \in keystate, FORSAGE \notin keystate', ~unclear
      PROVE  currentspeed' = before
  <2>1. key = FORSAGE /\ state = FALSE
    BY <1>1 DEF ParseKeys
  <2>2. currentspeed' = save_forsage_speed
    BY <2>1 DEF ParseKeys, Speed
  <2> QED BY <1>1, <2>2 DEF BoostInv
<1>2. ASSUME FORSAGE \in keystate', ~unclear'
      PROVE  before' = save_forsage_speed'
  <2>1. CASE key = FORSAGE
    <3>1. state = TRUE /\ FORSAGE \notin keystate
      BY <1>2, <2>1 DEF ParseKeys
    <3>2. before' = currentspeed /\ save_forsage_speed' = currentspeed
      BY <1>2, <2>1, <3>1 DEF ParseKeys
    <3> QED BY <3>2
  <2>2. CASE key # FORSAGE
    <3>1. FORSAGE \in keystate /\ ~unclear
      BY <1>2, <2>2 DEF ParseKeys
    <3>2. before' = before /\ save_forsage_speed' = save_forsage_speed
      BY <1>2, <2>2 DEF ParseKeys
    <3> QED BY <3>1, <3>2 DEF BoostInv
  <2> QED BY <2>1, <2>2
<1> QED BY <1>1, <1>2 DEF BoostInv

-----------------------------------------------------------------------------
(* The link.                                                                *)

LEMMA MessageFacts ==
  /\ Alive \in Messages /\ Alive.cmd = "alive"
  /\ \A c \in Followed, value \in 0 .. 2 * MIDDLE, last \in BOOLEAN :
       /\ Axis(c, value, last) \in Messages
       /\ Axis(c, value, last).cmd = "axis"
  /\ \A state \in SUBSET Keys :
       /\ Buttons(state) \in Messages /\ Buttons(state).cmd = "buttons"
       /\ Buttons(state).state = state
  /\ \A m \in Messages :
       /\ m.cmd \in {"alive", "axis", "buttons"}
       /\ m.cmd = "axis" => m.channel \in Followed
                            /\ m.value \in 0 .. 2 * MIDDLE
       /\ m.cmd = "buttons" => m.state \in SUBSET Keys
<1>1. Alive \in Messages /\ Alive.cmd = "alive"
  BY DEF Messages, Alive
<1>2. ASSUME NEW c \in Followed, NEW value \in 0 .. 2 * MIDDLE,
             NEW last \in BOOLEAN
      PROVE  /\ Axis(c, value, last) \in Messages
             /\ Axis(c, value, last).cmd = "axis"
  <2>1. Axis(c, value, last) \in
          [cmd : {"axis"}, channel : Followed, value : 0 .. 2 * MIDDLE,
           last : BOOLEAN]
    BY DEF Axis
  <2> QED BY <2>1 DEF Messages, Axis
<1>3. ASSUME NEW state \in SUBSET Keys
      PROVE  /\ Buttons(state) \in Messages /\ Buttons(state).cmd = "buttons"
             /\ Buttons(state).state = state
  <2>1. Buttons(state) \in Messages
    BY Zenon DEF Messages
  <2> QED BY <2>1 DEF Buttons
<1>4. ASSUME NEW m \in Messages
      PROVE  /\ m.cmd \in {"alive", "axis", "buttons"}
             /\ m.cmd = "axis" => m.channel \in Followed
                                  /\ m.value \in 0 .. 2 * MIDDLE
             /\ m.cmd = "buttons" => m.state \in SUBSET Keys
  <2>1. CASE m = Alive
    BY <2>1 DEF Alive
  <2>2. CASE m \in [cmd : {"axis"}, channel : Followed,
                    value : 0 .. 2 * MIDDLE, last : BOOLEAN]
    BY <2>2
  <2>3. CASE \E state \in SUBSET Keys : m = Buttons(state)
    BY <2>3, <1>3
  <2> QED BY <2>1, <2>2, <2>3 DEF Messages
<1> QED BY <1>1, <1>2, <1>3, <1>4

LEMMA OvertakenFacts ==
  ASSUME NEW m \in Messages, NEW channels
  PROVE  /\ Overtaken(m, channels) \in Messages
         /\ Overtaken(m, channels).cmd = m.cmd
         /\ m.cmd = "buttons" => Overtaken(m, channels) = m
<1>1. CASE m.cmd = "axis" /\ m.channel \in channels
  <2>1. m \in [cmd : {"axis"}, channel : Followed, value : 0 .. 2 * MIDDLE,
               last : BOOLEAN]
    BY <1>1 DEF Messages, Alive, Buttons
  <2>2. [m EXCEPT !.last = FALSE] \in
          [cmd : {"axis"}, channel : Followed, value : 0 .. 2 * MIDDLE,
           last : BOOLEAN]
        /\ [m EXCEPT !.last = FALSE].cmd = m.cmd
    BY <2>1
  <2> QED BY <1>1, <2>2 DEF Overtaken, Messages
<1>2. CASE ~(m.cmd = "axis" /\ m.channel \in channels)
  BY <1>2 DEF Overtaken
<1> QED BY <1>1, <1>2

LEMMA ImageFinite ==
  ASSUME NEW S, IsFiniteSet(S), NEW channels
  PROVE  IsFiniteSet({Overtaken(m, channels) : m \in S})
<1> DEFINE T == {Overtaken(m, channels) : m \in S}
           f == [m \in S |-> Overtaken(m, channels)]
<1>1. f \in Surjection(S, T)
  BY DEF Surjection
<1> QED BY <1>1, FS_Surjection

\* What is on its way after a datagram was sent.
LEMMA SentFacts ==
  ASSUME LinkInv, NEW messages \in SUBSET Messages, IsFiniteSet(messages)
  PROVE  /\ Sent(messages) \subseteq Messages
         /\ IsFiniteSet(Sent(messages))
         /\ \A m \in Sent(messages) :
              m.cmd = "buttons" => m \in up \/ m \in messages
<1> DEFINE channels == {m.channel : m \in {n \in messages : n.cmd = "axis"}}
           old == {Overtaken(m, channels) : m \in up}
<1>1. Sent(messages) = IF known THEN old \cup messages ELSE up
  BY DEF Sent
<1>2. up \subseteq Messages /\ IsFiniteSet(up)
  BY DEF LinkInv
<1>3. old \subseteq Messages
  BY <1>2, OvertakenFacts
<1>4. IsFiniteSet(old)
  BY <1>2, ImageFinite
<1>5. IsFiniteSet(old \cup messages)
  BY <1>4, FS_Union
<1>6. ASSUME NEW m \in old, m.cmd = "buttons"
      PROVE  m \in up
  <2>1. PICK n \in up : m = Overtaken(n, channels)
    OBVIOUS
  <2> QED BY <1>2, <1>6, <2>1, OvertakenFacts
<1> HIDE DEF old
<1> QED BY <1>1, <1>2, <1>3, <1>5, <1>6

\* What a key sends.
KeyAxes ==
  IF ~SendsAxes THEN {}
  ELSE {Axis(c, Position(c, keystate', currentspeed'), TRUE) : c \in Followed}
KeyButtons == IF SendsButtons THEN {Buttons(buttonstate')} ELSE {}

LEMMA KeySends ==
  ASSUME KeyboardTypeOK'
  PROVE  /\ KeyAxes \cup KeyButtons \in SUBSET Messages
         /\ IsFiniteSet(KeyAxes \cup KeyButtons)
         /\ \A m \in KeyAxes : m.cmd = "axis"
<1>1. currentspeed' \in 0 .. MIDDLE /\ buttonstate' \in SUBSET Keys
  BY DEF KeyboardTypeOK
<1>2. ASSUME NEW c \in Followed
      PROVE  /\ Axis(c, Position(c, keystate', currentspeed'), TRUE)
                  \in Messages
             /\ Axis(c, Position(c, keystate', currentspeed'), TRUE).cmd
                  = "axis"
  <2>1. Position(c, keystate', currentspeed') \in 0 .. 2 * MIDDLE
    BY <1>1, PositionRange
  <2> QED BY <2>1, MessageFacts
<1>3. KeyAxes \subseteq Messages /\ \A m \in KeyAxes : m.cmd = "axis"
  BY <1>2 DEF KeyAxes
<1>4. KeyButtons \subseteq Messages
  BY <1>1, MessageFacts DEF KeyButtons
<1>5. IsFiniteSet(KeyAxes)
  <2> DEFINE wheel == Axis("wheel", Position("wheel", keystate',
                                             currentspeed'), TRUE)
             throttle == Axis("throttle", Position("throttle", keystate',
                                                   currentspeed'), TRUE)
  <2>1. IsFiniteSet({wheel} \cup {throttle})
    BY FS_Singleton, FS_Union
  <2>2. KeyAxes \in SUBSET ({wheel} \cup {throttle})
    BY LinkAssumption DEF KeyAxes
  <2> HIDE DEF wheel, throttle
  <2> QED BY <2>1, <2>2, FS_Subset
<1>6. IsFiniteSet(KeyButtons)
  BY FS_Singleton, FS_EmptySet DEF KeyButtons
<1> QED BY <1>3, <1>4, <1>5, <1>6, FS_Union

-----------------------------------------------------------------------------
(* The steps, with what each of them leaves alone.                          *)

LEMMA KeyKeepsInv ==
  ASSUME IInv, NEW key \in Keys, NEW state \in BOOLEAN, Key(key, state)
  PROVE  IInv'
<1>1. /\ keys' = keys /\ role' = role /\ known' = known /\ peer' = peer
      /\ own' = own /\ armed' = armed /\ age' = age /\ output' = output
      /\ ParseKeys(key, state) /\ Cardinality(up') <= InFlight
      /\ slipped' = IF SendsButtons
                     THEN slipped \cup ({buttonstate'} \cap Slips)
                     ELSE slipped
  BY DEF Key, board
<1>2. up' = Sent(KeyAxes \cup KeyButtons)
  BY DEF Key, KeyAxes, KeyButtons
<1>3. upset' \in [Followed -> BOOLEAN]
  <2>1. upset \in [Followed -> BOOLEAN] /\ known \in BOOLEAN
    BY DEF IInv, TypeOK
  <2>2. upset' = [c \in Followed |->
                    IF KeyAxes = {} THEN upset[c] ELSE ~known]
    BY DEF Key, KeyAxes
  <2> QED BY <2>1, <2>2
<1>4. KeyboardTypeOK' /\ BoostInv'
  BY <1>1, ParseKeysTypes, ParseKeysBoost DEF IInv, TypeOK
<1>5. TypeOK'
  <2>1. slipped' \subseteq Slips
    BY <1>1 DEF IInv, TypeOK
  <2> QED BY <1>1, <1>3, <1>4, <2>1 DEF IInv, TypeOK
<1>6. LinkInv'
  BY <1>2, <1>4, KeySends, SentFacts DEF IInv, LinkInv
<1>7. SlipInv'
  <2>1. ASSUME NEW m \in up', m.cmd = "buttons", m.state \in Slips
        PROVE  m.state \in slipped'
    <3>1. CASE m \in up
      BY <1>1, <2>1, <3>1 DEF IInv, SlipInv
    <3>2. CASE m \in KeyAxes
      BY <1>4, <2>1, <3>2, KeySends
    <3>3. CASE m \in KeyButtons
      <4>1. SendsButtons /\ m = Buttons(buttonstate')
        BY <3>3 DEF KeyButtons
      <4>2. m.state = buttonstate'
        BY <4>1 DEF Buttons
      <4> QED BY <1>1, <2>1, <4>1, <4>2
    <3> QED BY <1>2, <1>4, <2>1, <3>1, <3>2, <3>3, KeySends, SentFacts
            DEF IInv
  <2>2. ButtonsHarmless'
    BY <1>1 DEF IInv, SlipInv, ButtonsHarmless
  <2> QED BY <2>1, <2>2 DEF SlipInv
<1>8. PeerInv'
  BY <1>1 DEF IInv, PeerInv
<1> QED BY <1>4, <1>5, <1>6, <1>7, <1>8 DEF IInv

LEMMA GroundAliveKeepsInv ==
  ASSUME IInv, GroundAlive
  PROVE  IInv'
<1>1. /\ up' = Sent({Alive}) /\ Cardinality(up') <= InFlight
      /\ UNCHANGED <<keyboard, keys, role, known, board, upset, slipped>>
  BY DEF GroundAlive
<1>2. {Alive} \in SUBSET Messages /\ IsFiniteSet({Alive})
  BY MessageFacts, FS_Singleton
<1>3. LinkInv' /\ \A m \in up' : m.cmd = "buttons" => m \in up
  BY <1>1, <1>2, MessageFacts, SentFacts DEF IInv, LinkInv
<1> QED BY <1>1, <1>3
        DEF IInv, TypeOK, KeyboardTypeOK, BoostInv, PeerInv, SlipInv,
            ButtonsHarmless, keyboard, board

\* A datagram that leaves the link leaves room.
LEMMA LessInFlight ==
  ASSUME IInv, NEW m \in up, up' = up \ {m} \/ up' = up
  PROVE  LinkInv' /\ Cardinality(up') <= InFlight /\ up' \subseteq up
<1>1. IsFiniteSet(up) /\ Cardinality(up) <= InFlight /\ up \subseteq Messages
  BY DEF IInv, TypeOK, LinkInv
<1>2. Cardinality(up) \in Nat
  BY <1>1, FS_CardinalityType
<1>3. CASE up' = up \ {m}
  BY <1>1, <1>2, <1>3, FS_RemoveElement, LinkAssumption DEF LinkInv
<1>4. CASE up' = up
  BY <1>1, <1>4 DEF LinkInv
<1> QED BY <1>3, <1>4

LEMMA LoseKeepsInv ==
  ASSUME IInv, NEW m \in up, Lose(m)
  PROVE  IInv'
<1>1. UNCHANGED <<keyboard, keys, role, known, board, slipped>>
  BY DEF Lose
<1>2. LinkInv' /\ Cardinality(up') <= InFlight /\ up' \subseteq up
  BY LessInFlight DEF Lose
<1>3. upset' \in [Followed -> BOOLEAN]
  <2>1. upset \in [Followed -> BOOLEAN]
    BY DEF IInv, TypeOK
  <2> QED BY <2>1 DEF Lose
<1> QED BY <1>1, <1>2, <1>3
        DEF IInv, TypeOK, KeyboardTypeOK, BoostInv, PeerInv, SlipInv,
            ButtonsHarmless, keyboard, board

\* What the board's outputs can be.
Levels == {Off, Low, FullLeft, Track} \cup 0 .. 2 * MIDDLE

\* Those that say nothing of the buttons.
Plain == {Low} \cup 0 .. 2 * MIDDLE

LEMMA PlainFacts == FullLeft \notin Plain /\ Track \notin Plain
BY KeyboardAssumption DEF Plain, FullLeft, Track, Low

LEMMA PlainHarmless ==
  ASSUME SlipInv, slipped' = slipped,
         \A o \in Outputs : output'[o] = output[o] \/ output'[o] \in Plain
  PROVE  ButtonsHarmless'
BY PlainFacts DEF SlipInv, ButtonsHarmless, Outputs

\* A state passes as channel 2 or 0 of a tank axis only if it is UP or ADD2.
LEMMA PassesFacts ==
  ASSUME NEW state \in SUBSET Keys
  PROVE  /\ PassesAs({UP}, state) => state = {UP}
         /\ PassesAs({}, state) => state = {ADD2}
<1>1. \A key \in state : key \in 1 .. 11
  BY DEF Keys
<1>2. \A key \in state :
        key \in LowByte(state) \/ (key >= 8 /\ key - 8 \in HighByte(state))
  BY <1>1 DEF LowByte, HighByte
<1>3. \A n \in HighByte(state) : n + 8 \in state
  BY <1>1 DEF HighByte
<1>4. LowByte(state) \subseteq state
  BY DEF LowByte
<1>5. ASSUME PassesAs({UP}, state)
      PROVE  state = {UP}
  <2>1. LowByte(state) = {UP}
        /\ ({UP} \ HighByte(state)) \cup (HighByte(state) \ {UP}) = {UP}
    BY <1>5 DEF PassesAs
  <2>2. HighByte(state) = {}
    BY <2>1
  <2> QED BY <1>2, <1>4, <2>1, <2>2
<1>6. ASSUME PassesAs({}, state)
      PROVE  state = {ADD2}
  <2>1. LowByte(state) = {} /\ HighByte(state) = {1}
    BY <1>6 DEF PassesAs, UP
  <2>2. 9 \in state
    BY <1>3, <2>1
  <2>3. \A key \in state : key = 9
    BY <1>1, <1>2, <2>1
  <2> QED BY <2>2, <2>3 DEF ADD2
<1> QED BY <1>5, <1>6

LEMMA DriveFacts ==
  ASSUME TypeOK, NEW channel \in Outputs, NEW position \in Levels,
         Drive(channel, position)
  PROVE  /\ output' \in [Outputs -> Levels]
         /\ \A o \in Outputs : \/ output'[o] = output[o]
                               \/ o = channel /\ output'[o] = position
<1>1. output \in [Outputs -> Levels]
  BY DEF TypeOK, Levels
<1> QED BY <1>1 DEF Drive

LEMMA MoveFacts ==
  ASSUME TypeOK, NEW value \in Levels, Move(value)
  PROVE  /\ output' \in [Outputs -> Levels]
         /\ upset' \in [Followed -> BOOLEAN]
         /\ \A c \in Followed : upset'[c]
         /\ \A o \in Outputs : \/ output'[o] = output[o]
                               \/ o \in Followed /\ output'[o] = value
<1>1. output \in [Outputs -> Levels]
  BY DEF TypeOK, Levels
<1> QED BY <1>1 DEF Move

LEMMA ReceiveKeepsInv ==
  ASSUME IInv, NEW m \in up, NEW again \in BOOLEAN, Receive(m, again)
  PROVE  IInv'
<1>1. /\ Execute(m) /\ peer' = "ground"
      /\ UNCHANGED <<keyboard, keys, role, known, own, slipped>>
  BY DEF Receive
<1>2. LinkInv' /\ Cardinality(up') <= InFlight /\ up' \subseteq up
  BY LessInFlight DEF Receive
<1>3. /\ TypeOK /\ m \in Messages /\ upset \in [Followed -> BOOLEAN]
      /\ armed \in BOOLEAN /\ age \in 0 .. MaxTimeout
      /\ output \in [Outputs -> Levels]
  BY DEF IInv, TypeOK, LinkInv, Levels
<1>4. /\ armed' \in BOOLEAN /\ age' \in 0 .. MaxTimeout
      /\ upset' \in [Followed -> BOOLEAN]
      /\ output' \in [Outputs -> Levels]
      /\ ButtonsHarmless'
  <2>1. CASE m.cmd = "alive"
    <3>1. armed' = TRUE /\ age' = 0 /\ UNCHANGED <<output, upset>>
      BY <1>1, <2>1 DEF Execute
    <3>2. age' \in 0 .. MaxTimeout
      BY <3>1, LinkAssumption
    <3> QED BY <1>1, <1>3, <3>1, <3>2, PlainHarmless DEF IInv
  <2>2. CASE m.cmd = "axis"
    <3>1. m.channel \in Followed /\ m.value \in 0 .. 2 * MIDDLE
      BY <1>3, <2>2, MessageFacts
    <3>2. Drive(m.channel, m.value) /\ UNCHANGED <<armed, age>>
      BY <1>1, <2>2 DEF Execute
    <3>3. m.channel \in Outputs /\ m.value \in Levels
      BY <3>1 DEF Outputs, Levels
    <3>4. /\ output' \in [Outputs -> Levels]
          /\ \A o \in Outputs : \/ output'[o] = output[o]
                                \/ output'[o] = m.value
      BY <1>3, <3>2, <3>3, DriveFacts
    <3>5. upset' \in [Followed -> BOOLEAN]
      <4> DEFINE overtook == armed /\ ~\E n \in up :
                               /\ n.cmd = "axis" /\ n.last
                               /\ n.channel = m.channel
      <4>1. upset' = [upset EXCEPT ![m.channel] =
                        IF m.last THEN ~armed
                        ELSE upset[m.channel] \/ overtook]
        BY <1>1, <2>2 DEF Execute
      <4>2. (upset[m.channel] \/ overtook) \in BOOLEAN /\ (~armed) \in BOOLEAN
        OBVIOUS
      <4> HIDE DEF overtook
      <4> QED BY <1>3, <4>1, <4>2
    <3>6. ButtonsHarmless'
      BY <1>1, <3>1, <3>4, PlainHarmless DEF IInv, Plain
    <3> QED BY <1>3, <3>2, <3>4, <3>5, <3>6
  <2>3. CASE m.cmd = "buttons"
    <3>1. /\ m.state \in SUBSET Keys
          /\ m.state \in Slips => m.state \in slipped
      BY <1>3, <2>3, MessageFacts DEF IInv, SlipInv
    <3>2. /\ "aux" \in Outputs /\ "aux" \notin Followed
          /\ {FullLeft, Track} \subseteq Levels /\ FullLeft # Track
          /\ Followed \subseteq Outputs
      BY LinkAssumption DEF Outputs, Levels, FullLeft, Track
    <3>3. UNCHANGED <<armed, age>>
      BY <1>1, <2>3 DEF Execute
    <3>4. CASE UNCHANGED <<output, upset>>
      BY <1>1, <1>3, <3>3, <3>4, PlainHarmless DEF IInv
    <3>5. CASE /\ PassesAs({UP}, m.state) /\ UNCHANGED upset
               /\ Drive("aux", FullLeft)
      <4>1. {UP} \in slipped
        BY <3>1, <3>5, PassesFacts DEF Slips
      <4>2. /\ output' \in [Outputs -> Levels]
            /\ \A c \in Followed : output'[c] = output[c]
        BY <1>3, <3>2, <3>5, DriveFacts
      <4>3. ButtonsHarmless'
        BY <1>1, <4>1, <4>2 DEF IInv, SlipInv, ButtonsHarmless
      <4> QED BY <1>3, <3>3, <3>5, <4>2, <4>3
    <3>6. CASE PassesAs({}, m.state) /\ Move(Track)
      <4>1. {ADD2} \in slipped
        BY <3>1, <3>6, PassesFacts DEF Slips
      <4>2. /\ output' \in [Outputs -> Levels]
            /\ upset' \in [Followed -> BOOLEAN]
            /\ output'["aux"] = output["aux"]
        BY <1>3, <3>2, <3>6, MoveFacts
      <4>3. ButtonsHarmless'
        BY <1>1, <4>1, <4>2 DEF IInv, SlipInv, ButtonsHarmless
      <4> QED BY <1>3, <3>3, <4>2, <4>3
    <3> QED BY <1>1, <2>3, <3>4, <3>5, <3>6 DEF Execute
  <2> QED BY <1>3, <2>1, <2>2, <2>3, MessageFacts
<1>5. SlipInv'
  BY <1>1, <1>2, <1>4 DEF IInv, SlipInv
<1>6. TypeOK'
  BY <1>1, <1>2, <1>3, <1>4
     DEF TypeOK, KeyboardTypeOK, keyboard, Levels
<1> QED BY <1>1, <1>2, <1>5, <1>6 DEF IInv, BoostInv, PeerInv, keyboard

LEMMA SendTelemetryKeepsInv ==
  ASSUME IInv, NEW t \in Telemetry, SendTelemetry(t)
  PROVE  IInv'
<1>1. /\ UNCHANGED <<keyboard, keys, role, up, peer, armed, age, output,
                     upset, slipped>>
      /\ own' = IF peer = "self" THEN own \cup {t} ELSE own
      /\ known' = (known \/ peer = "ground")
  BY DEF SendTelemetry
<1>2. own' \subseteq Telemetry
  BY <1>1 DEF IInv, TypeOK
<1>3. known' \in BOOLEAN
  BY <1>1 DEF IInv, TypeOK
<1>4. TypeOK'
  BY <1>1, <1>2, <1>3 DEF IInv, TypeOK, KeyboardTypeOK, keyboard
<1> QED BY <1>1, <1>4
        DEF IInv, LinkInv, BoostInv, PeerInv, SlipInv, ButtonsHarmless, keyboard

LEMMA ReceiveOwnKeepsInv ==
  ASSUME IInv, NEW t \in own, ReceiveOwn(t)
  PROVE  IInv'
<1>1. /\ UNCHANGED <<keyboard, link, slipped>>
      /\ own' = own \ {t} /\ peer' = "self" /\ role # "client"
  BY DEF ReceiveOwn, IInv, PeerInv
<1>2. /\ upset \in [Followed -> BOOLEAN] /\ armed \in BOOLEAN
      /\ age \in 0 .. MaxTimeout /\ output \in [Outputs -> Levels]
  BY DEF IInv, TypeOK, Levels
<1>3. /\ armed' \in BOOLEAN /\ age' \in 0 .. MaxTimeout
      /\ upset' \in [Followed -> BOOLEAN]
      /\ output' \in [Outputs -> Levels]
      /\ \A o \in Outputs : output'[o] = output[o] \/ output'[o] = Low
  <2>1. CASE UNCHANGED <<armed, age, output, upset>>
    BY <1>2, <2>1
  <2>2. CASE armed' = TRUE /\ age' = 0 /\ UNCHANGED <<output, upset>>
    <3>1. age' \in 0 .. MaxTimeout
      BY <2>2, LinkAssumption
    <3> QED BY <1>2, <2>2, <3>1
  <2>3. CASE /\ \E o \in Outputs :
                  /\ output' = [output EXCEPT ![o] = Low]
                  /\ upset' = [c \in Followed |-> upset[c] \/ c = o]
             /\ UNCHANGED <<armed, age>>
    <3>1. PICK o \in Outputs :
            /\ output' = [output EXCEPT ![o] = Low]
            /\ upset' = [c \in Followed |-> upset[c] \/ c = o]
      BY <2>3
    <3>2. Low \in Levels
      BY DEF Levels
    <3>3. upset' \in [Followed -> BOOLEAN]
      BY <1>2, <3>1
    <3> QED BY <1>2, <2>3, <3>1, <3>2, <3>3
  <2>4. CASE Move(Low) /\ UNCHANGED <<armed, age>>
    <3>1. Low \in Levels
      BY DEF Levels
    <3> QED BY <1>2, <2>4, <3>1, MoveFacts DEF IInv
  <2> QED BY <2>1, <2>2, <2>3, <2>4 DEF ReceiveOwn
<1>4. TypeOK'
  BY <1>1, <1>3 DEF IInv, TypeOK, KeyboardTypeOK, keyboard, link, Levels
<1>5. SlipInv'
  <2>1. ButtonsHarmless'
    BY <1>1, <1>3, PlainHarmless DEF IInv, Plain
  <2> QED BY <1>1, <2>1 DEF IInv, SlipInv, link
<1> QED BY <1>1, <1>4, <1>5
        DEF IInv, LinkInv, BoostInv, PeerInv, keyboard, link

\* The lease, its end, and the end of the process.
LEMMA ClockKeepsInv ==
  ASSUME IInv, Tick \/ Alarm \/ Restart
  PROVE  IInv'
<1>1. /\ UNCHANGED <<keyboard, link, slipped>>
      /\ own' \in {own, {}} /\ peer' \in {peer, "ground", "self"}
      /\ role = "client" => peer' = "ground" /\ own' = {}
  BY DEF Tick, Alarm, Restart, IInv, PeerInv
<1>2. /\ upset \in [Followed -> BOOLEAN] /\ armed \in BOOLEAN
      /\ age \in 0 .. MaxTimeout /\ output \in [Outputs -> Levels]
      /\ own \subseteq Telemetry /\ peer \in {"self", "ground"}
  BY DEF IInv, TypeOK, Levels
<1>3. armed' \in BOOLEAN /\ age' \in 0 .. MaxTimeout
  <2>1. armed' \in BOOLEAN
    BY <1>2 DEF Tick, Alarm, Restart
  <2>2. age' \in 0 .. MaxTimeout
    BY <1>2, LinkAssumption DEF Tick, Alarm, Restart
  <2> QED BY <2>1, <2>2
<1>4. /\ upset' \in [Followed -> BOOLEAN]
      /\ output' \in [Outputs -> Levels]
      /\ \A o \in Outputs : output'[o] = output[o] \/ output'[o] = MIDDLE
  <2>1. CASE Tick \/ Restart
    BY <1>2, <2>1 DEF Tick, Restart
  <2>2. CASE Alarm
    <3>1. MIDDLE \in Levels
      BY KeyboardAssumption DEF Levels
    <3> QED BY <2>2, <3>1 DEF Alarm
  <2> QED BY <2>1, <2>2
<1>5. TypeOK'
  BY <1>1, <1>2, <1>3, <1>4
     DEF IInv, TypeOK, KeyboardTypeOK, keyboard, link, Levels
<1>6. SlipInv'
  <2>1. MIDDLE \in Plain
    BY KeyboardAssumption DEF Plain
  <2>2. ButtonsHarmless'
    BY <1>1, <1>4, <2>1, PlainHarmless DEF IInv
  <2> QED BY <1>1, <2>2 DEF IInv, SlipInv, link
<1> QED BY <1>1, <1>5, <1>6
        DEF IInv, LinkInv, BoostInv, PeerInv, keyboard, link

-----------------------------------------------------------------------------
(* What the vehicle does is what the keys say.                              *)

FollowInv == IInv /\ LastInv /\ VehicleFollowsKeys

\* What a change of keystate does to what is on its way.
LEMMA KeySupersedes ==
  ASSUME IInv, KeyboardTypeOK', SendsAxes, known
  PROVE  LET sent == Sent(KeyAxes \cup KeyButtons) IN
         /\ \A c \in Followed :
              Axis(c, Position(c, keystate', currentspeed'), TRUE) \in sent
         /\ \A m \in sent : (m.cmd = "axis" /\ m.last) =>
              m.value = Position(m.channel, keystate', currentspeed')
<1> DEFINE messages == KeyAxes \cup KeyButtons
           channels == {m.channel : m \in {n \in messages : n.cmd = "axis"}}
           old == {Overtaken(m, channels) : m \in up}
<1>1. Sent(messages) = old \cup messages
  BY DEF Sent
<1>2. ASSUME NEW c \in Followed
      PROVE  /\ Axis(c, Position(c, keystate', currentspeed'), TRUE)
                  \in KeyAxes
             /\ c \in channels
  <2>1. Axis(c, Position(c, keystate', currentspeed'), TRUE) \in KeyAxes
    BY DEF KeyAxes
  <2>2. /\ Axis(c, Position(c, keystate', currentspeed'), TRUE).cmd = "axis"
        /\ Axis(c, Position(c, keystate', currentspeed'), TRUE).channel = c
    BY DEF Axis
  <2> QED BY <2>1, <2>2
<1>3. ASSUME NEW m \in old, m.cmd = "axis" PROVE ~m.last
  <2>1. PICK n \in up : m = Overtaken(n, channels)
    OBVIOUS
  <2>2. n \in Messages /\ n.cmd = "axis"
    BY <1>3, <2>1, OvertakenFacts DEF IInv, LinkInv
  <2>3. n \in [cmd : {"axis"}, channel : Followed, value : 0 .. 2 * MIDDLE,
               last : BOOLEAN]
    BY <2>2 DEF Messages, Alive, Buttons
  <2>4. n.channel \in channels
    BY <1>2, <2>3
  <2>5. m = [n EXCEPT !.last = FALSE]
    BY <2>1, <2>2, <2>4 DEF Overtaken
  <2> QED BY <2>3, <2>5
<1>4. ASSUME NEW m \in messages, m.cmd = "axis"
      PROVE  m.value = Position(m.channel, keystate', currentspeed')
  <2>1. m \in KeyAxes
    BY <1>4 DEF KeyButtons, Buttons
  <2>2. PICK c \in Followed :
          m = Axis(c, Position(c, keystate', currentspeed'), TRUE)
    BY <2>1 DEF KeyAxes
  <2> QED BY <2>2 DEF Axis
<1> HIDE DEF messages, old
<1>5. /\ \A c \in Followed :
           Axis(c, Position(c, keystate', currentspeed'), TRUE)
             \in Sent(messages)
      /\ \A m \in Sent(messages) : (m.cmd = "axis" /\ m.last) =>
           m.value = Position(m.channel, keystate', currentspeed')
  BY <1>1, <1>2, <1>3, <1>4 DEF messages
<1> QED BY <1>5 DEF messages

\* Without a change of keystate no axis is overtaken.
LEMMA KeyLeavesAxes ==
  ASSUME ~SendsAxes
  PROVE  LET sent == Sent(KeyAxes \cup KeyButtons) IN
         up \subseteq sent /\ \A m \in sent : m.cmd = "axis" => m \in up
<1> DEFINE messages == KeyAxes \cup KeyButtons
           channels == {m.channel : m \in {n \in messages : n.cmd = "axis"}}
<1>1. \A m \in messages : m.cmd # "axis"
  BY DEF KeyAxes, KeyButtons, Buttons
<1>2. channels = {}
  BY <1>1
<1>3. {Overtaken(m, channels) : m \in up} = up
  BY <1>2 DEF Overtaken
<1>4. Sent(messages) = IF known THEN up \cup messages ELSE up
  BY <1>3 DEF Sent
<1> QED BY <1>1, <1>4

LEMMA KeyFollows ==
  ASSUME FollowInv, NEW key \in Keys, NEW state \in BOOLEAN, Key(key, state)
  PROVE  LastInv' /\ VehicleFollowsKeys'
<1>1. /\ ParseKeys(key, state) /\ known' = known /\ output' = output
      /\ up' = Sent(KeyAxes \cup KeyButtons)
      /\ upset' = [c \in Followed |->
                     IF KeyAxes = {} THEN upset[c] ELSE ~known]
  BY DEF Key, KeyAxes, KeyButtons, board
<1>2. ~known' => up' = {}
  BY <1>1 DEF FollowInv, LastInv, Sent
<1>3. KeyboardTypeOK'
  BY <1>1, ParseKeysTypes DEF FollowInv, IInv, TypeOK
<1>4. CASE SendsAxes /\ known
  <2>1. /\ \A c \in Followed :
             Axis(c, Position(c, keystate', currentspeed'), TRUE) \in up'
        /\ \A m \in up' : (m.cmd = "axis" /\ m.last) =>
             m.value = Position(m.channel, keystate', currentspeed')
    BY <1>1, <1>3, <1>4, KeySupersedes DEF FollowInv
  <2>2. \A c \in Followed : \E m \in up' :
          m.cmd = "axis" /\ m.channel = c /\ m.last
    BY <2>1 DEF Axis
  <2> QED BY <1>2, <2>1, <2>2 DEF LastInv, VehicleFollowsKeys
<1>5. CASE SendsAxes /\ ~known
  <2>1. up' = {}
    BY <1>1, <1>2, <1>5
  <2>2. ASSUME NEW c \in Followed PROVE upset'[c]
    <3>1. KeyAxes # {}
      BY <1>5 DEF KeyAxes
    <3> QED BY <1>1, <1>5, <3>1
  <2> QED BY <1>2, <2>1, <2>2 DEF LastInv, VehicleFollowsKeys
<1>6. CASE ~SendsAxes
  <2>1. /\ up \subseteq up' /\ \A m \in up' : m.cmd = "axis" => m \in up
        /\ \A c \in Followed : upset'[c] = upset[c]
    <3>1. KeyAxes = {}
      BY <1>6 DEF KeyAxes
    <3> QED BY <1>1, <1>6, <3>1, KeyLeavesAxes
  <2>2. CASE unsent'
    BY <1>2, <2>2 DEF LastInv, VehicleFollowsKeys
  <2>3. CASE ~unsent'
    <3>1. /\ keystate' = keystate /\ ~unsent
          /\ key \notin {FORSAGE, SPEEDUP, SPEEDDOWN}
      BY <1>1, <1>6, <2>3 DEF ParseKeys, SendsAxes
    <3>2. currentspeed' = currentspeed
      BY <1>1, <3>1 DEF ParseKeys, Speed, Adjusted
    <3> QED BY <1>1, <1>2, <2>1, <3>1, <3>2
            DEF FollowInv, LastInv, VehicleFollowsKeys
  <2> QED BY <2>2, <2>3
<1> QED BY <1>4, <1>5, <1>6

LEMMA GroundAliveFollows ==
  ASSUME FollowInv, GroundAlive
  PROVE  LastInv' /\ VehicleFollowsKeys'
<1> DEFINE channels == {m.channel : m \in {n \in {Alive} : n.cmd = "axis"}}
<1>1. /\ up' = Sent({Alive})
      /\ UNCHANGED <<keyboard, keys, role, known, board, upset, slipped>>
  BY DEF GroundAlive
<1>2. {Overtaken(m, channels) : m \in up} = up
  <2>1. channels = {}
    BY DEF Alive
  <2> QED BY <2>1 DEF Overtaken
<1>3. up' = IF known THEN up \cup {Alive} ELSE up
  BY <1>1, <1>2 DEF Sent
<1>4. up \subseteq up' /\ \A m \in up' : m.cmd = "axis" => m \in up
  BY <1>3 DEF Alive
<1> QED BY <1>1, <1>3, <1>4
        DEF FollowInv, LastInv, VehicleFollowsKeys, keyboard, board

LEMMA LoseFollows ==
  ASSUME FollowInv, NEW m \in up, Lose(m)
  PROVE  LastInv' /\ VehicleFollowsKeys'
<1>1. /\ UNCHANGED <<keyboard, keys, role, known, board, slipped>>
      /\ up' = up \ {m}
      /\ \A c \in Followed : upset'[c] =
           (upset[c] \/ (m.cmd = "axis" /\ m.last /\ m.channel = c))
  BY DEF Lose
<1>2. LastInv'
  BY <1>1 DEF FollowInv, LastInv, keyboard
<1>3. ASSUME NEW c \in Followed
      PROVE  \/ upset'[c] \/ unsent'
             \/ \E n \in up' : n.cmd = "axis" /\ n.channel = c /\ n.last
             \/ output'[c] = Position(c, keystate', currentspeed')
  <2>1. CASE m.cmd = "axis" /\ m.last /\ m.channel = c
    BY <1>1, <2>1
  <2>2. CASE ~(m.cmd = "axis" /\ m.last /\ m.channel = c)
    BY <1>1, <2>2 DEF FollowInv, VehicleFollowsKeys, keyboard, board
  <2> QED BY <2>1, <2>2
<1> QED BY <1>2, <1>3 DEF VehicleFollowsKeys

LEMMA ReceiveFollows ==
  ASSUME FollowInv, NEW m \in up, NEW again \in BOOLEAN, Receive(m, again)
  PROVE  LastInv' /\ VehicleFollowsKeys'
<1>1. /\ Execute(m) /\ UNCHANGED <<keyboard, keys, role, known, own, slipped>>
      /\ up' = IF again THEN up ELSE up \ {m}
  BY DEF Receive
<1>2. /\ m \in Messages /\ output \in [Outputs -> Levels]
      /\ upset \in [Followed -> BOOLEAN]
      /\ Followed \subseteq Outputs /\ "aux" \notin Followed
  BY LinkAssumption
     DEF FollowInv, IInv, LinkInv, TypeOK, Levels, Outputs
<1>3. LastInv'
  BY <1>1 DEF FollowInv, LastInv, keyboard
<1>4. ASSUME NEW c \in Followed
      PROVE  \/ upset'[c] \/ unsent'
             \/ \E n \in up' : n.cmd = "axis" /\ n.channel = c /\ n.last
             \/ output'[c] = Position(c, keystate', currentspeed')
  <2>1. \/ upset[c] \/ unsent
        \/ \E n \in up : n.cmd = "axis" /\ n.channel = c /\ n.last
        \/ output[c] = Position(c, keystate, currentspeed)
    BY DEF FollowInv, VehicleFollowsKeys
  <2>2. CASE ~(m.cmd = "axis" /\ m.channel = c)
    <3>1. \/ output'[c] = output[c] /\ upset'[c] = upset[c]
          \/ upset'[c]
      <4>1. CASE m.cmd = "axis"
        <5>1. m.channel # c /\ Drive(m.channel, m.value)
          BY <1>1, <2>2, <4>1 DEF Execute
        <5>2. output'[c] = output[c]
          BY <1>2, <5>1 DEF Drive
        <5>3. upset'[c] = upset[c]
          BY <1>1, <1>2, <4>1, <5>1 DEF Execute
        <5> QED BY <5>2, <5>3
      <4>2. CASE m.cmd # "axis"
        BY <1>1, <1>2, <4>2 DEF Execute, Drive, Move
      <4> QED BY <4>1, <4>2
    <3> QED BY <1>1, <2>1, <2>2, <3>1 DEF keyboard
  <2>3. CASE m.cmd = "axis" /\ m.channel = c
    <3>1. Drive(c, m.value)
      BY <1>1, <2>3 DEF Execute
    <3>2. output'[c] = IF armed THEN m.value ELSE output[c]
      BY <1>2, <3>1 DEF Drive
    <3>3. CASE m.last
      <4>1. upset'[c] = ~armed
        BY <1>1, <1>2, <2>3, <3>3 DEF Execute
      <4>2. unsent \/ m.value = Position(c, keystate, currentspeed)
        BY <2>3, <3>3 DEF FollowInv, LastInv
      <4> QED BY <1>1, <3>2, <4>1, <4>2 DEF keyboard
    <3>4. CASE ~m.last
      <4>1. upset'[c] =
              (upset[c] \/ (armed /\ ~\E n \in up : /\ n.cmd = "axis"
                                                    /\ n.last
                                                    /\ n.channel = c))
        BY <1>1, <1>2, <2>3, <3>4 DEF Execute
      <4>2. CASE \E n \in up : n.cmd = "axis" /\ n.last /\ n.channel = c
        <5>1. PICK n \in up : n.cmd = "axis" /\ n.last /\ n.channel = c
          BY <4>2
        <5>2. n \in up'
          BY <1>1, <3>4, <5>1
        <5> QED BY <5>1, <5>2
      <4>3. CASE ~\E n \in up : n.cmd = "axis" /\ n.last /\ n.channel = c
        BY <1>1, <2>1, <3>2, <4>1, <4>3 DEF keyboard
      <4> QED BY <4>2, <4>3
    <3> QED BY <3>3, <3>4
  <2> QED BY <2>2, <2>3
<1> QED BY <1>3, <1>4 DEF VehicleFollowsKeys

LEMMA BoardFollows ==
  ASSUME FollowInv,
         \/ \E t \in Telemetry : SendTelemetry(t)
         \/ \E t \in own : ReceiveOwn(t)
         \/ Tick \/ Alarm \/ Restart
  PROVE  LastInv' /\ VehicleFollowsKeys'
<1>1. UNCHANGED <<keyboard, up>> /\ (known => known')
  <2>1. CASE \E t \in Telemetry : SendTelemetry(t)
    BY <2>1, Zenon DEF SendTelemetry
  <2>2. CASE \/ \E t \in own : ReceiveOwn(t)
             \/ Tick \/ Alarm \/ Restart
    BY <2>2 DEF ReceiveOwn, Tick, Alarm, Restart, link
  <2> QED BY <2>1, <2>2
<1>2. output \in [Outputs -> Levels] /\ Followed \subseteq Outputs
  BY DEF FollowInv, IInv, TypeOK, Levels, Outputs
<1>3. ASSUME NEW c \in Followed
      PROVE  \/ output'[c] = output[c] /\ (upset[c] => upset'[c])
             \/ upset'[c]
  <2>1. CASE \E t \in Telemetry : SendTelemetry(t)
    BY <2>1 DEF SendTelemetry
  <2>2. CASE \E t \in own : ReceiveOwn(t)
    <3>1. CASE UNCHANGED <<output, upset>>
      BY <3>1
    <3>2. CASE \E o \in Outputs :
                 /\ output' = [output EXCEPT ![o] = Low]
                 /\ upset' = [d \in Followed |-> upset[d] \/ d = o]
      <4>1. PICK o \in Outputs :
              /\ output' = [output EXCEPT ![o] = Low]
              /\ upset' = [d \in Followed |-> upset[d] \/ d = o]
        BY <3>2
      <4> QED BY <1>2, <4>1
    <3>3. CASE Move(Low)
      BY <3>3 DEF Move
    <3> QED BY <2>2, <3>1, <3>2, <3>3 DEF ReceiveOwn
  <2>3. CASE Tick \/ Restart
    BY <2>3 DEF Tick, Restart
  <2>4. CASE Alarm
    BY <2>4 DEF Alarm
  <2> QED BY <2>1, <2>2, <2>3, <2>4
<1>4. LastInv'
  BY <1>1 DEF FollowInv, LastInv, keyboard
<1>5. VehicleFollowsKeys'
  BY <1>1, <1>3 DEF FollowInv, VehicleFollowsKeys, keyboard
<1> QED BY <1>4, <1>5

-----------------------------------------------------------------------------
(* The invariant and the theorems.                                          *)

LEMMA InitGivesInv == Init => IInv
<1> SUFFICES ASSUME Init PROVE IInv
  OBVIOUS
<1>1. KeyboardTypeOK /\ BoostInv
  <2>1. MIDDLE \div 2 \in 0 .. MIDDLE
    BY KeyboardAssumption
  <2>2. {currentspeed, save_forsage_speed, before} \subseteq 0 .. MIDDLE
    BY <2>1, KeyboardAssumption DEF Init, KeyboardInit
  <2>3. /\ keystate \subseteq Keys /\ buttonstate \subseteq Keys
        /\ unclear \in BOOLEAN /\ unsent \in BOOLEAN
    BY DEF Init, KeyboardInit
  <2>4. BoostInv
    BY DEF Init, KeyboardInit, BoostInv
  <2> QED BY <2>2, <2>3, <2>4 DEF KeyboardTypeOK
<1>2. LinkInv /\ Cardinality(up) <= InFlight
  BY FS_EmptySet, LinkAssumption DEF Init, LinkInv
<1>3. output \in [Outputs -> Levels] /\ \A o \in Outputs : output[o] = Off
  BY DEF Init, Levels
<1>4. SlipInv
  BY <1>3 DEF Init, SlipInv, ButtonsHarmless, Outputs, Off, FullLeft, Track
<1>5. PeerInv
  BY DEF Init, PeerInv
<1>6. age \in 0 .. MaxTimeout
  BY LinkAssumption DEF Init
<1>7. upset \in [Followed -> BOOLEAN] /\ known \in BOOLEAN
  BY DEF Init
<1>8. TypeOK
  BY <1>1, <1>2, <1>3, <1>6, <1>7 DEF Init, TypeOK, Levels
<1> QED BY <1>1, <1>2, <1>4, <1>5, <1>8 DEF IInv

LEMMA StepKeepsInv == IInv /\ [Next]_vars => IInv'
<1> SUFFICES ASSUME IInv, [Next]_vars PROVE IInv'
  OBVIOUS
<1>1. CASE \E key \in Keys, state \in BOOLEAN : Key(key, state)
  BY <1>1, KeyKeepsInv
<1>2. CASE GroundAlive
  BY <1>2, GroundAliveKeepsInv
<1>3. CASE \E m \in up : Lose(m) \/ \E again \in BOOLEAN : Receive(m, again)
  BY <1>3, LoseKeepsInv, ReceiveKeepsInv
<1>4. CASE \E t \in Telemetry : SendTelemetry(t)
  BY <1>4, SendTelemetryKeepsInv
<1>5. CASE \E t \in own : ReceiveOwn(t)
  BY <1>5, ReceiveOwnKeepsInv
<1>6. CASE Tick \/ Alarm \/ Restart
  BY <1>6, ClockKeepsInv
<1>7. CASE UNCHANGED vars
  BY <1>7 DEF vars, IInv, TypeOK, KeyboardTypeOK, LinkInv, BoostInv, PeerInv,
              SlipInv, ButtonsHarmless, keyboard, link, board
<1> QED BY <1>1, <1>2, <1>3, <1>4, <1>5, <1>6, <1>7 DEF Next

LEMMA SpecKeepsInv == Spec => []IInv
BY InitGivesInv, StepKeepsInv, PTL DEF Spec

\* Every global keeps its type: the speed stays between none and the middle of
\* the axis, every position that is sent or driven is one of the axis, and
\* every additional key's datagram names keys (ParseKeys, SendAxis,
\* parseCommand).
THEOREM GroundTypes == Spec => []TypeOK
<1>1. IInv => TypeOK
  BY DEF IInv
<1> QED BY <1>1, SpecKeepsInv, PTL

\* An additional key drives the third servo only if one was released with UP
\* alone held, and the axes of the vehicle, by Move, only if ADD2 was pressed
\* alone, whatever the link loses, duplicates and reorders (SendButtons,
\* parseCommand).
THEOREM ButtonsAreHarmless == Spec => []ButtonsHarmless
<1>1. IInv => ButtonsHarmless
  BY DEF IInv, SlipInv
<1> QED BY <1>1, SpecKeepsInv, PTL

\* A boost that was not repeated gives back the speed it began with, for every
\* driver's keys and every sequence of them (ParseKeys).
THEOREM BoostGivesBack == Spec => BoostEnds
<1>1. ASSUME IInv, [Next]_vars
      PROVE  [(FORSAGE \in keystate /\ FORSAGE \notin keystate' /\ ~unclear)
                => (currentspeed' = before)]_keyboard
  <2>1. CASE \E key \in Keys, state \in BOOLEAN : Key(key, state)
    <3>1. PICK key \in Keys, state \in BOOLEAN : Key(key, state)
      BY <2>1
    <3>2. ParseKeys(key, state)
      BY <3>1 DEF Key
    <3> QED BY <1>1, <3>2, ParseKeysBoost DEF IInv, TypeOK
  <2>2. CASE ~\E key \in Keys, state \in BOOLEAN : Key(key, state)
    <3>1. UNCHANGED keyboard
      BY <1>1, <2>2 DEF Next, vars, GroundAlive, Tick, Alarm, Restart, Lose,
                        Receive, SendTelemetry, ReceiveOwn
    <3> QED BY <3>1
  <2> QED BY <2>1, <2>2
<1> QED BY <1>1, SpecKeepsInv, PTL DEF Spec, BoostEnds

\* Once a ground station was heard and nothing of its own is left to read, only
\* a new process brings the board back to talking to itself; as a client it
\* never does (udp_server_loop, udp_client_send).
THEOREM LoopsEnd == Spec => LoopEnds
<1>1. ASSUME IInv, [Next]_vars
      PROVE  [(role = "client" \/ (peer = "ground" /\ own = {} /\ ~Restart))
                => (peer' = "ground" /\ own' = {})]_vars
  <2> SUFFICES ASSUME role = "client"
                        \/ (peer = "ground" /\ own = {} /\ ~Restart)
               PROVE  peer' = "ground" /\ own' = {}
    OBVIOUS
  <2>1. peer = "ground" /\ own = {}
    BY <1>1 DEF IInv, PeerInv
  <2>2. CASE Restart
    BY <2>2 DEF Restart
  <2>3. CASE ~Restart
    BY <1>1, <2>1, <2>3
       DEF Next, vars, board, Key, GroundAlive, Tick, Alarm, Lose, Receive,
           SendTelemetry, ReceiveOwn
  <2> QED BY <2>2, <2>3
<1> QED BY <1>1, SpecKeepsInv, PTL DEF Spec, LoopEnds

LEMMA StepFollows == FollowInv /\ [Next]_vars => FollowInv'
<1> SUFFICES ASSUME FollowInv, [Next]_vars PROVE FollowInv'
  OBVIOUS
<1>1. IInv'
  BY StepKeepsInv DEF FollowInv
<1>2. CASE \E key \in Keys, state \in BOOLEAN : Key(key, state)
  BY <1>1, <1>2, KeyFollows DEF FollowInv
<1>3. CASE GroundAlive
  BY <1>1, <1>3, GroundAliveFollows DEF FollowInv
<1>4. CASE \E m \in up : Lose(m) \/ \E again \in BOOLEAN : Receive(m, again)
  BY <1>1, <1>4, LoseFollows, ReceiveFollows DEF FollowInv
<1>5. CASE \/ \E t \in Telemetry : SendTelemetry(t)
           \/ \E t \in own : ReceiveOwn(t)
           \/ Tick \/ Alarm \/ Restart
  BY <1>1, <1>5, BoardFollows DEF FollowInv
<1>6. CASE UNCHANGED vars
  BY <1>1, <1>6
     DEF FollowInv, LastInv, VehicleFollowsKeys, vars, keyboard, link, board
<1> QED BY <1>2, <1>3, <1>4, <1>5, <1>6 DEF Next

\* The vehicle does what the keys say, with the speed of the display, unless a
\* last position was lost, early or refused, the alarm, the board's telemetry
\* or ADD2's datagram drove the output, or a key repetition changed the speed: for every driver's keys and every number of datagrams that are lost,
\* duplicated and reordered (ParseKeys, SendAxis, parseCommand).
THEOREM VehicleFollows == Spec => []VehicleFollowsKeys
<1>1. Init => FollowInv
  <2>1. Init => LastInv /\ VehicleFollowsKeys
    BY DEF Init, LastInv, VehicleFollowsKeys
  <2> QED BY <2>1, InitGivesInv DEF FollowInv
<1>2. FollowInv => VehicleFollowsKeys
  BY DEF FollowInv
<1> QED BY <1>1, <1>2, StepFollows, PTL DEF Spec

=============================================================================
