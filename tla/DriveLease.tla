----------------------------- MODULE DriveLease -----------------------------
(***************************************************************************)
(* What the board promises about driving, without its threads, datagrams    *)
(* and timers.  Control is granted and revoked.  A command is accepted only *)
(* while control is granted, one at a time.  The driver is given messages,  *)
(* most of them through one shared buffer, whose content is the neutral     *)
(* position or that of the accepted command.                                *)
(*                                                                         *)
(* Until the driver is ready the buffer may also be filled with a message   *)
(* that says nothing, and it is not emptied afterwards.  Two more things    *)
(* are deliberately not promised, because the board does not keep them:     *)
(* that a command accepted before a revocation is dropped, and that a       *)
(* message reaches the output it was meant for.                             *)
(***************************************************************************)
CONSTANTS
  Outputs,    \* the outputs of the driver
  Positions,  \* what an output can be told
  Neutral,    \* the position of the fail safe
  Unscaled,   \* a message made before the driver was ready
  None        \* no command, no message, an output never driven

VARIABLES
  ready,      \* messages are made as they are meant
  granted,    \* the ground station may drive
  command,    \* the position of the accepted command that is under way
  message,    \* the position in the driver's buffer
  output      \* the position each output last received

vars == <<ready, granted, command, message, output>>

Init ==
  /\ ready = FALSE
  /\ granted = FALSE
  /\ command = None
  /\ message = None
  /\ output = [o \in Outputs |-> None]

Settle ==
  /\ ~ready
  /\ ready' = TRUE
  /\ UNCHANGED <<granted, command, message, output>>

Grant ==
  /\ granted' = TRUE
  /\ UNCHANGED <<ready, command, message, output>>

Revoke ==
  /\ granted' = FALSE
  /\ UNCHANGED <<ready, command, message, output>>

Accept(p) ==
  /\ granted /\ command = None
  /\ command' = p
  /\ UNCHANGED <<ready, granted, message, output>>

\* The fail safe fills the buffer, with control granted or not.
FillNeutral ==
  /\ message' = Neutral
  /\ UNCHANGED <<ready, granted, command, output>>

FillCommand ==
  /\ command # None
  /\ message' = command
  /\ UNCHANGED <<ready, granted, command, output>>

\* Either fills it too early; the last time the driver may be ready since.
FillUnscaled ==
  /\ ~ready
  /\ ready' \in BOOLEAN
  /\ message' = Unscaled
  /\ UNCHANGED <<granted, command, output>>

\* The driver is given the buffer, or the command directly.
Drive(o) ==
  /\ \E p \in {message, command} \ {None} :
       output' = [output EXCEPT ![o] = p]
  /\ UNCHANGED <<ready, granted, command, message>>

\* The same at the end of the command.
Finish(o) ==
  /\ command # None
  /\ \E p \in {message, command} \ {None} :
       output' = [output EXCEPT ![o] = p]
  /\ command' = None
  /\ UNCHANGED <<ready, granted, message>>

\* The command ends before there is a driver.
Discard ==
  /\ command # None
  /\ command' = None
  /\ UNCHANGED <<ready, granted, message, output>>

\* The process ends.  The outputs keep what they have.
Die ==
  /\ ready' = FALSE
  /\ granted' = FALSE
  /\ command' = None
  /\ message' = None
  /\ UNCHANGED output

Next ==
  \/ Settle \/ Grant \/ Revoke
  \/ FillNeutral \/ FillCommand \/ FillUnscaled \/ Discard \/ Die
  \/ \E p \in Positions : Accept(p)
  \/ \E o \in Outputs : Drive(o) \/ Finish(o)

Spec == Init /\ [][Next]_vars

=============================================================================
