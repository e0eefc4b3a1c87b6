------------------------------ MODULE Keyboard ------------------------------
(***************************************************************************)
(* The keyboard of the ground station (Keyboard.cs).  Window_KeyDown and    *)
(* Window_KeyUp call ParseKeys; Windows repeats the key that was pressed    *)
(* last while it is held, and a window that lost the focus sees no release, *)
(* or a release without its press.                                          *)
(***************************************************************************)
EXTENDS Integers

CONSTANTS
  MIDDLE,     \* Joystick.axis_middle, also forsage_speed; axis_min is 0
  STEP        \* of the speed keys

ASSUME KeyboardAssumption == /\ MIDDLE \in Nat \ {0}
                             /\ STEP \in 1 .. MIDDLE

\* A key's number is its bit in keystate.
UP == 1
DOWN == 2
LEFT == 3
RIGHT == 4
FORSAGE == 5
SPEEDUP == 6
SPEEDDOWN == 7
ADD == 8 .. 11
Keys == 1 .. 11

VARIABLES
  keystate,            \* the set of its bits; old_keystate follows it
  currentspeed,
  save_forsage_speed,
  buttonstate,         \* likewise, with old_buttonstate
  (* history, read by no guard *)
  before,    \* the speed when the boost began, 0 without one
  unclear,   \* FORSAGE was pressed again during the boost
  unsent     \* a key of the speed came without a change of keystate

keyboard == <<keystate, currentspeed, save_forsage_speed, buttonstate, before,
              unclear, unsent>>

KeyboardInit ==
  /\ keystate = {} /\ buttonstate = {}
  /\ currentspeed = MIDDLE \div 2 /\ save_forsage_speed = 0
  /\ before = 0 /\ unclear = FALSE /\ unsent = FALSE

AtMost(n, limit) == IF n > limit THEN limit ELSE n
AtLeast(n, limit) == IF n < limit THEN limit ELSE n

\* A mutant: the lower end is not watched.
AdjustedUnclamped(key) ==
  IF key = SPEEDUP THEN AtMost(currentspeed + STEP, MIDDLE)
  ELSE IF key = SPEEDDOWN THEN currentspeed - STEP ELSE currentspeed

\* A speed key counts when it is pressed, repeated and released.
Adjusted(key) ==
  IF key = SPEEDUP THEN AtMost(currentspeed + STEP, MIDDLE)
  ELSE IF key = SPEEDDOWN THEN AtLeast(currentspeed - STEP, 0)
  ELSE currentspeed

\* A mutant: the release of FORSAGE is treated like any other.
SpeedForsageSticks(key, state) ==
  IF key = FORSAGE /\ state THEN MIDDLE ELSE Adjusted(key)

Speed(key, state) ==
  IF key # FORSAGE THEN Adjusted(key)
  ELSE IF state THEN MIDDLE ELSE save_forsage_speed

ParseKeys(key, state) ==
  /\ keystate' = IF state THEN keystate \cup {key} ELSE keystate \ {key}
  /\ currentspeed' = Speed(key, state)
  /\ save_forsage_speed' = IF key = FORSAGE /\ state THEN currentspeed
                           ELSE save_forsage_speed
  /\ buttonstate' = IF key \in ADD THEN keystate' ELSE buttonstate
  /\ unclear' = (/\ FORSAGE \in keystate'
                 /\ unclear \/ (key = FORSAGE /\ FORSAGE \in keystate))
  /\ before' = IF FORSAGE \notin keystate' \/ unclear' THEN 0
               ELSE IF key = FORSAGE THEN currentspeed ELSE before
  /\ unsent' = (/\ keystate' = keystate
                /\ unsent \/ key \in {FORSAGE, SPEEDUP, SPEEDDOWN})

\* A mutant: only a press is sent.
SendsAxesPress == keystate' # keystate /\ keystate \subseteq keystate'

\* "Send the same command only once."
SendsAxes == keystate' # keystate

SendsButtons == buttonstate' # buttonstate

\* Of two keys that are held the first one counts.
Deflected(keys, first, second, speed) ==
  IF first \in keys THEN MIDDLE + speed
  ELSE IF second \in keys THEN MIDDLE - speed ELSE MIDDLE

\* What SendAxis is given for a channel.
Position(channel, keys, speed) ==
  IF channel = "wheel" THEN Deflected(keys, LEFT, RIGHT, speed)
  ELSE Deflected(keys, UP, DOWN, -speed)

-----------------------------------------------------------------------------
(* Properties.                                                              *)

KeyboardTypeOK ==
  /\ keystate \subseteq Keys /\ buttonstate \subseteq Keys
  /\ {currentspeed, save_forsage_speed, before} \subseteq 0 .. MIDDLE
  /\ unclear \in BOOLEAN /\ unsent \in BOOLEAN

\* The end of a boost gives back the speed it began with, whatever the speed
\* keys did meanwhile, unless FORSAGE was repeated while it was held, which
\* saves the boosted speed (ParseKeys).
BoostEnds ==
  [][(FORSAGE \in keystate /\ FORSAGE \notin keystate' /\ ~unclear)
       => (currentspeed' = before)]_keyboard

=============================================================================
