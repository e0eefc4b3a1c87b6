----------------------------- MODULE Telemetry -----------------------------
(***************************************************************************)
(* What the board tells the ground station about itself: the ADC thread     *)
(* (voltage.c) and the wireless thread (wlanstatus.c) write globals without *)
(* a lock, and the main loop (rcboard.c) reads them, sends them and clears  *)
(* the status.                                                              *)
(*                                                                          *)
(* A field of wlanstatus holds the number of the reading that wrote it, 0   *)
(* when it is cleared.  The hundred bytes of the message are two fields,    *)
(* head and tail: wherever a copy of them is overtaken, one part is old and *)
(* one new.  A text stores no byte behind its end: the tail is also what a  *)
(* shorter one leaves of a longer one.                                      *)
(***************************************************************************)
EXTENDS Integers, Sequences

CONSTANTS
  MaxReads,   \* later readings of the link are not told apart
  Levels      \* voltages the filter can have, in hundredths

CON_NONE == 0
CON_WIFI == 1
CON_YOTA == 2
CON_LAN == 3
CON_UBIQ == 4
WlanTypes == CON_NONE .. CON_UBIQ

ASSUME TelemetryAssumption ==
  /\ MaxReads \in Nat \ {0}
  /\ Levels \subseteq 0 .. 25599 /\ 0 \in Levels   \* vref is below 256 V

VARIABLES
  on,              \* the process is in its main loop, with its threads
  wlantype,        \* config.wlantype
  wlanstatus,
  todo,            \* the fields the reading thread has yet to write, in order
  reads,           \* the number of its reading
  system_voltage,
  pc,              \* where the main loop is,
  i,               \* in which field,
  voltage,         \* the two values of system_voltage it read,
  buffer,          \* and the status it is copying (forgotten when sent)
  (* history, read by no guard *)
  unsent,          \* fields written since they were last copied
  repeated,        \* a field was sent twice
  told             \* the type that was sent last

status == <<wlanstatus, buffer, unsent, repeated, told>>
vars == <<on, wlantype, wlanstatus, todo, reads, system_voltage, pc, i,
          voltage, buffer, unsent, repeated, told>>

Field == <<"type", "isconnected", "head", "tail">>
FieldNames == {"type", "isconnected", "head", "tail"}
Cleared == [f \in FieldNames |-> 0]

-----------------------------------------------------------------------------
(* The wireless thread.                                                     *)

\* A mutant: a reading may end with the type.
StoresMessageOptional(type) ==
  IF type = CON_NONE THEN {} ELSE {<<"type">>, Field}

\* The stores of one reading, in order.  sprintf stores the text and its end,
\* so a text may leave the tail alone.  A Yota answer may lack the State, and
\* its type is stored after it; a request that fails stores nothing.  LAN and
\* Ubiquity have no message.
Stores(type) ==
  CASE type = CON_WIFI -> {<<"type", "isconnected", "head", "tail">>,
                           <<"type", "isconnected", "head">>}
    [] type = CON_YOTA -> {<<"isconnected", "type", "head", "tail">>,
                           <<"isconnected", "type", "head">>,
                           <<"type", "head", "tail">>, <<"type", "head">>}
    [] type \in {CON_LAN, CON_UBIQ} -> {<<"type", "isconnected">>}
    [] OTHER -> {}

\* wlanstatus_read_loop wakes up; getwlaninfo or the transfer is done.
Read ==
  /\ on /\ todo = <<>>
  /\ todo' \in Stores(wlantype)
  /\ reads' = IF reads < MaxReads THEN reads + 1 ELSE reads
  /\ UNCHANGED <<on, wlantype, system_voltage, pc, i, voltage, status>>

Store ==
  /\ on /\ todo # <<>>
  /\ wlanstatus' = [wlanstatus EXCEPT ![Head(todo)] = reads]
  /\ unsent' = unsent \cup {Head(todo)}
  /\ todo' = Tail(todo)
  /\ UNCHANGED <<on, wlantype, reads, system_voltage, pc, i, voltage, buffer,
                 repeated, told>>

-----------------------------------------------------------------------------
(* The ADC thread: each filtered value lies between the last one and the    *)
(* new sample.  A double torn in its two words differs by less than a       *)
(* hundredth.                                                               *)

Sample ==
  /\ on
  /\ system_voltage' \in Levels
  /\ UNCHANGED <<on, wlantype, todo, reads, pc, i, voltage, status>>

-----------------------------------------------------------------------------
(* The main loop.                                                           *)

Main(from, to) == on /\ pc = from /\ pc' = to

SendAlive ==
  /\ Main("alive", "integer")
  /\ UNCHANGED <<on, wlantype, todo, reads, system_voltage, i, voltage, status>>

\* SendVoltage reads system_voltage for the integer and again for the
\* decimal part; a compiler that reads it once gives the runs without a
\* Sample in between.
ReadInteger ==
  /\ Main("integer", "decimal")
  /\ voltage' = <<system_voltage, system_voltage>>
  /\ UNCHANGED <<on, wlantype, todo, reads, system_voltage, i, status>>

SendVoltage ==
  /\ Main("decimal", "check")
  /\ voltage' = [voltage EXCEPT ![2] = system_voltage]
  /\ UNCHANGED <<on, wlantype, todo, reads, system_voltage, i, status>>

\* A mutant: nothing to send without a message.
CheckMessage ==
  /\ \/ wlanstatus["head"] = 0 /\ Main("check", "sleep")
     \/ wlanstatus["head"] # 0 /\ Main("check", "copy")
  /\ i' = 1 /\ voltage' = <<0, 0>>
  /\ UNCHANGED <<on, wlantype, todo, reads, system_voltage, status>>

\* SendSignalStatus: nothing to send without a type.
CheckType ==
  /\ \/ wlanstatus["type"] = 0 /\ Main("check", "sleep")
     \/ wlanstatus["type"] # 0 /\ Main("check", "copy")
  /\ i' = 1 /\ voltage' = <<0, 0>>
  /\ UNCHANGED <<on, wlantype, todo, reads, system_voltage, status>>

Copy ==
  /\ on /\ pc = "copy"
  /\ buffer' = [buffer EXCEPT ![Field[i]] = wlanstatus[Field[i]]]
  /\ unsent' = unsent \ {Field[i]}
  /\ repeated' = (\/ repeated
                  \/ wlanstatus[Field[i]] # 0 /\ Field[i] \notin unsent)
  /\ IF i < 4 THEN i' = i + 1 /\ pc' = "copy" ELSE i' = 1 /\ pc' = "send"
  /\ UNCHANGED <<on, wlantype, todo, reads, system_voltage, voltage,
                 wlanstatus, told>>

Send ==
  /\ Main("send", "clear")
  /\ buffer' = Cleared /\ told' = buffer["type"]
  /\ UNCHANGED <<on, wlantype, todo, reads, system_voltage, i, voltage,
                 wlanstatus, unsent, repeated>>

\* A mutant: only the type is cleared.
ClearType ==
  /\ Main("clear", "sleep")
  /\ wlanstatus' = [wlanstatus EXCEPT !["type"] = 0]
  /\ UNCHANGED <<on, wlantype, todo, reads, system_voltage, i, voltage, buffer,
                 unsent, repeated, told>>

\* The memset, from the first field to the last.
Clear ==
  /\ on /\ pc = "clear"
  /\ wlanstatus' = [wlanstatus EXCEPT ![Field[i]] = 0]
  /\ IF i < 4 THEN i' = i + 1 /\ pc' = "clear" ELSE i' = 1 /\ pc' = "sleep"
  /\ UNCHANGED <<on, wlantype, todo, reads, system_voltage, voltage, buffer,
                 unsent, repeated, told>>

Sleep ==
  /\ Main("sleep", "alive")
  /\ UNCHANGED <<on, wlantype, todo, reads, system_voltage, i, voltage, status>>

-----------------------------------------------------------------------------
(* The process.  Every global of a new one is zero.                         *)

\* A mutant: a thread outlives its process.
FreshButReader(type) ==
  /\ wlantype' = type /\ wlanstatus' = Cleared /\ todo' = todo /\ reads' = 0
  /\ system_voltage' = 0 /\ pc' = "alive" /\ i' = 1
  /\ voltage' = <<0, 0>> /\ buffer' = Cleared
  /\ unsent' = {} /\ repeated' = FALSE /\ told' = 0

Fresh(type) ==
  /\ wlantype' = type /\ wlanstatus' = Cleared /\ todo' = <<>> /\ reads' = 0
  /\ system_voltage' = 0 /\ pc' = "alive" /\ i' = 1
  /\ voltage' = <<0, 0>> /\ buffer' = Cleared
  /\ unsent' = {} /\ repeated' = FALSE /\ told' = 0

Start(type) == ~on /\ on' = TRUE /\ Fresh(type)
Exit == on /\ on' = FALSE /\ Fresh(CON_NONE)

TelemetryInit ==
  /\ on = FALSE
  /\ wlantype = CON_NONE /\ wlanstatus = Cleared /\ todo = <<>> /\ reads = 0
  /\ system_voltage = 0 /\ pc = "alive" /\ i = 1
  /\ voltage = <<0, 0>> /\ buffer = Cleared
  /\ unsent = {} /\ repeated = FALSE /\ told = 0

Reader == Read \/ Store
MainLoop == \/ SendAlive \/ ReadInteger \/ SendVoltage \/ CheckType \/ Copy
            \/ Send \/ Clear \/ Sleep

TelemetryNext == \/ Reader \/ Sample \/ MainLoop \/ Exit
                 \/ \E type \in WlanTypes : Start(type)

\* Both threads sleep for a bounded time and then go on.
TelemetryFairness == WF_vars(Reader) /\ WF_vars(MainLoop)
TelemetrySpec == TelemetryInit /\ [][TelemetryNext]_vars /\ TelemetryFairness

-----------------------------------------------------------------------------
(* Properties.                                                              *)

TelemetryTypeOK ==
  /\ on \in BOOLEAN /\ wlantype \in WlanTypes
  /\ wlanstatus \in [FieldNames -> 0 .. MaxReads]
  /\ todo = <<>> \/ \E s \in Stores(wlantype) : \E n \in 1 .. Len(s) :
                      todo = SubSeq(s, n, Len(s))
  /\ reads \in 0 .. MaxReads /\ system_voltage \in Levels
  /\ pc \in {"alive", "integer", "decimal", "check", "copy", "send", "clear",
             "sleep"}
  /\ i \in 1 .. 4 /\ voltage \in Levels \X Levels
  /\ buffer \in [FieldNames -> 0 .. MaxReads]
  /\ unsent \subseteq FieldNames /\ repeated \in BOOLEAN
  /\ told \in 0 .. MaxReads

\* No field that a reading stored is sent twice, however its stores fall
\* between the copy and the memset of SendSignalStatus.
SentAtMostOnce == ~repeated

\* A status that is sent has a type.  Nothing in it is older than the status
\* sent before it: what a racing memset spared, or a shorter text left behind
\* its end, is not shown again once something newer was.  And what every
\* reading stores is no older than the reading before the one that stored the
\* type (SendSignalStatus, ReadWiFi, YotaCurlParser).
NothingStale ==
  pc = "send" =>
    /\ buffer["type"] # 0
    /\ \A f \in FieldNames : buffer[f] = 0 \/ buffer[f] >= told
    /\ \A f \in FieldNames :
         \/ f = "tail"
         \/ wlantype = CON_YOTA /\ f = "isconnected"
         \/ buffer[f] = 0
         \/ buffer[f] >= buffer["type"] - 1

\* As long as the process runs, a link that can be read is reported again and
\* again, even if a memset swallows some readings.
StatusKeepsComing ==
  <>[](on /\ wlantype \in {CON_WIFI, CON_LAN, CON_UBIQ}) => []<>(pc = "send")

(* What the source says and the code does not do.                           *)

\* The bytes of SendVoltage, from its two looks at system_voltage, and what
\* the ground station makes of them.
Encoded == LET int == voltage[1] \div 100
           IN <<int % 256, (voltage[2] - 100 * int) % 256>>
Decoded(bytes) == 100 * bytes[1] + bytes[2]

\* rcboard.c:118 says "send voltage", and system_voltage is the "board voltage"
\* (vars.h:97): if it changes by a hundredth at most while SendVoltage looks at
\* it twice, what arrives is one of the two voltages it had.
VoltageIsOneSeen ==
  pc = "check" /\ voltage[2] - voltage[1] \in -1 .. 1 =>
    Decoded(Encoded) \in {voltage[1], voltage[2]}

=============================================================================
