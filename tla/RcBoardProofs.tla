--------------------------- MODULE RcBoardProofs ---------------------------
(***************************************************************************)
(* Proofs, for every configuration that meets ConfigAssumption, of the     *)
(* safety properties of RcBoard.  TypeOK is not inductive on its own:      *)
(* setPPM takes its arguments from the receive buffer or from config.axis, *)
(* so ControlInv says which of the two, and SaveHost stores the sender, so *)
(* ViewerInv says it is not this machine.  StrayInv and DisturbInv         *)
(* strengthen the two promises of the fail safe.  One lemma per conjunct   *)
(* shows that every action keeps it; with the invariant, every step is one *)
(* of DriveLease or leaves what DriveLease speaks of alone.                *)
(***************************************************************************)
EXTENDS RcBoard, TLAPS

USE DEF lease, client, datagram, actuators, gstd, history, Goto

\* What each kind of datagram carries.
LEMMA FrameFields ==
  ASSUME NEW f \in Frames
  PROVE  /\ f.cmd = "alive" => f.type \in {0, 1}
         /\ f.cmd = "axis" => f.channel \in AxisIndex /\ f.pos \in Positions
BY DEF Frames, AliveFrames, AxisFrames, TrackFrames

\* A datagram of the tracks stays one when Move remembers it.
LEMMA TrackStays ==
  ASSUME NEW f \in Frames, f.cmd = "track"
  PROVE  /\ [f EXCEPT !.repeats = TRUE] \in Frames
         /\ [f EXCEPT !.repeats = TRUE].cmd = "track"
<1>1. f \in TrackFrames
  BY DEF Frames, AliveFrames, AxisFrames, TrackFrames
<1>2. [f EXCEPT !.repeats = TRUE] \in TrackFrames
  BY <1>1 DEF TrackFrames
<1> QED
  BY <1>1, <1>2 DEF Frames, TrackFrames

\* Membership facts about the configuration that start-up and stopAll need.
LEMMA ConstantFacts ==
  /\ ZeroFrame \in Frames
  /\ 0 \in AxisIndex /\ axis[0] \in Servos
  /\ 0 \in 0 .. MaxTimeout
  /\ 0 \in 0 .. NumAxes /\ NumAxes \in 0 .. NumAxes
<1>1. ZeroFrame \in AliveFrames
  BY DEF ZeroFrame, AliveFrames
<1>2. 0 \in AxisIndex
  BY ConfigAssumption DEF AxisIndex
<1> QED
  BY <1>1, <1>2, ConfigAssumption DEF Frames

\* Entering stopAll keeps the types of what it touches.
LEMMA StopAllBegins ==
  ASSUME TypeOK, NEW t \in Threads, BeginStopAll(t)
  PROVE  /\ i' \in [Threads -> 0 .. NumAxes]
         /\ pc' \in [Threads -> Labels]
         /\ disturbed' \in [Threads -> BOOLEAN]
<1>1. Disturb(t) \in [Threads -> BOOLEAN]
  BY DEF Disturb, TypeOK
<1>2. disturbed' \in [Threads -> BOOLEAN]
  BY <1>1 DEF BeginStopAll
<1>3. "fill" \in Labels
  BY DEF Labels, Driving, InSetPPM
<1> QED
  BY <1>2, <1>3, ConstantFacts DEF BeginStopAll, TypeOK

\* A fresh process satisfies the invariant.
LEMMA InitInv == Init => IInv
<1> SUFFICES ASSUME Init PROVE IInv
  OBVIOUS
<1> USE ConfigAssumption DEF Init, BootLabels, Threads, InSetPPM, InMove, Driving, Opening, Disconnecting
<1>1. TypeOK
  BY ConstantFacts DEF TypeOK, Labels
<1>2. ControlInv
  BY DEF ControlInv, ZeroFrame
<1>3. ViewerInv
  BY DEF ViewerInv, ZeroFrame
<1>4. StrayInv
  BY DEF StrayInv
<1>5. DisturbInv
  BY DEF DisturbInv, Stopping
<1>6. MessageInv
  BY DEF MessageInv
<1>7. DutyInv
  BY DEF DutyInv
<1> QED
  BY <1>1, <1>2, <1>3, <1>4, <1>5, <1>6, <1>7 DEF IInv

-----------------------------------------------------------------------------
\* Every step of every thread keeps the types.
LEMMA TypeStep == IInv /\ [Next]_vars => TypeOK'
<1> SUFFICES ASSUME IInv, [Next]_vars PROVE TypeOK'
  OBVIOUS
<1> USE ConfigAssumption, FrameFields, ConstantFacts DEF IInv, TypeOK, ControlInv, ViewerInv, Threads, Labels, InSetPPM, InMove, Driving, Opening, Disconnecting, AxisIndex
<1>1. ASSUME NEW frame \in Frames, NEW host \in Hosts \cup {Loopback},
            Receive(frame, host)
     PROVE  TypeOK'
  BY <1>1 DEF Receive
<1>2. CASE ReceiveFails
  BY <1>2, StopAllBegins DEF ReceiveFails
<1>3. CASE ParseAlive
  BY <1>3 DEF ParseAlive
<1>4. CASE Stamp
  BY <1>4 DEF Stamp
<1>5. CASE CheckRemoteClient
  BY <1>5 DEF CheckRemoteClient
<1>6. CASE PlayStreamTo
  BY <1>6 DEF PlayStreamTo
<1>7. CASE RunGstClient
  BY <1>7 DEF RunGstClient
<1>8. CASE SaveHost
  BY <1>8 DEF SaveHost
<1>9. CASE ParseAxis
  BY <1>9 DEF ParseAxis, Disturb, Stopping
<1>10. CASE WriteCommand
  BY <1>10 DEF WriteCommand, DriverWrite, Write
<1>11. CASE ParseBitrate
  BY <1>11 DEF ParseBitrate
<1>12. CASE ParseOther
  BY <1>12 DEF ParseOther
<1>13. CASE ParseRestart
  BY <1>13 DEF ParseRestart
<1>14. CASE AlarmExpires
  BY <1>14 DEF AlarmExpires
<1>15. CASE AlarmDisarms
  BY <1>15, StopAllBegins DEF AlarmDisarms
<1>16. CASE OpenPins
  BY <1>16 DEF OpenPins
<1>17. CASE StartTimer
  BY <1>17 DEF StartTimer
<1>18. CASE SendFailsafe
  BY <1>18, StopAllBegins DEF SendFailsafe
<1>19. CASE Tick
  BY <1>19 DEF Tick
<1>20. CASE Boot
  BY <1>20 DEF Boot, BootLabels
<1>21. ASSUME NEW t \in Threads, FillChannel(t)
     PROVE  TypeOK'
  <2>1. ArgChannel(t) \in Servos /\ ArgPos(t) \in Positions
    BY <1>21 DEF FillChannel, ArgChannel, ArgPos
  <2>2. duty' \in [Threads -> Positions \cup {Off, Unscaled}]
    BY <1>21, <2>1 DEF FillChannel
  <2>3. ppm' \in [ch : Servos, pos : Positions \cup {Off, Unscaled}]
    BY <1>21, <2>1 DEF FillChannel
  <2> QED
    BY <1>21, <2>2, <2>3 DEF FillChannel
<1>22. ASSUME NEW t \in Threads, FillDuty(t)
     PROVE  TypeOK'
  BY <1>22 DEF FillDuty, ArgPos
<1>23. ASSUME NEW t \in Threads, WriteNeutral(t)
     PROVE  TypeOK'
  BY <1>23 DEF WriteNeutral, DriverWrite, Write
<1>24. ASSUME NEW t \in Threads, FlagVideo(t)
     PROVE  TypeOK'
  BY <1>24 DEF FlagVideo
<1>25. ASSUME NEW t \in Threads, ClearClientType(t)
     PROVE  TypeOK'
  BY <1>25 DEF ClearClientType
<1>26. ASSUME NEW t \in Threads, PauseStream(t)
     PROVE  TypeOK'
  BY <1>26 DEF PauseStream, AfterStopAll
<1>27. CASE UNCHANGED vars
  BY <1>27 DEF vars
<1>28. CASE ScaleOutput
  BY <1>28 DEF ScaleOutput
<1>29. CASE ParseTrack
  <2>1. buf' \in Frames
    BY <1>29, TrackStays DEF ParseTrack
  <2>2. disturbed' \in [Threads -> BOOLEAN]
    BY <1>29 DEF ParseTrack, Disturb
  <2>3. pc' \in [Threads -> Labels]
    BY <1>29 DEF ParseTrack
  <2> QED
    BY <1>29, <2>1, <2>2, <2>3 DEF ParseTrack
<1>30. CASE DriveSecond
  BY <1>30 DEF DriveSecond, Write
<1>31. CASE DriveFirst
  BY <1>31 DEF DriveFirst, Write
<1> QED
  BY <1>1, <1>2, <1>3, <1>4, <1>5, <1>6, <1>7, <1>8, <1>9, <1>10, <1>11, <1>12, <1>13, <1>14, <1>15, <1>16, <1>17, <1>18, <1>19, <1>20, <1>21, <1>22, <1>23, <1>24, <1>25, <1>26, <1>27,
     <1>28, <1>29, <1>30, <1>31
  DEF Next, Udp, Alarm, Main, StopAll, Threads

-----------------------------------------------------------------------------
\* Every step keeps the threads where they can be.
LEMMA ControlStep == IInv /\ [Next]_vars => ControlInv'
<1> SUFFICES ASSUME IInv, [Next]_vars PROVE ControlInv'
  OBVIOUS
<1> USE ConfigAssumption DEF IInv, TypeOK, ControlInv, Threads, InSetPPM, InMove, Driving, Opening, Disconnecting
<1>1. ASSUME NEW frame \in Frames, NEW host \in Hosts \cup {Loopback},
            Receive(frame, host)
     PROVE  ControlInv'
  BY <1>1 DEF Receive
<1>2. CASE ReceiveFails
  BY <1>2 DEF ReceiveFails, BeginStopAll, Disturb, Stopping
<1>3. CASE ParseAlive
  BY <1>3 DEF ParseAlive
<1>4. CASE Stamp
  BY <1>4 DEF Stamp
<1>5. CASE CheckRemoteClient
  BY <1>5 DEF CheckRemoteClient
<1>6. CASE PlayStreamTo
  BY <1>6 DEF PlayStreamTo
<1>7. CASE RunGstClient
  BY <1>7 DEF RunGstClient
<1>8. CASE SaveHost
  BY <1>8 DEF SaveHost
<1>9. CASE ParseAxis
  BY <1>9 DEF ParseAxis, Disturb, Stopping
<1>10. CASE WriteCommand
  BY <1>10 DEF WriteCommand, DriverWrite, Write
<1>11. CASE ParseBitrate
  BY <1>11 DEF ParseBitrate
<1>12. CASE ParseOther
  BY <1>12 DEF ParseOther
<1>13. CASE ParseRestart
  BY <1>13 DEF ParseRestart, ZeroFrame
<1>14. CASE AlarmExpires
  BY <1>14 DEF AlarmExpires
<1>15. CASE AlarmDisarms
  BY <1>15 DEF AlarmDisarms, BeginStopAll, Disturb, Stopping
<1>16. CASE OpenPins
  BY <1>16 DEF OpenPins
<1>17. CASE StartTimer
  BY <1>17 DEF StartTimer
<1>18. CASE SendFailsafe
  BY <1>18 DEF SendFailsafe, BeginStopAll, Disturb, Stopping
<1>19. CASE Tick
  BY <1>19 DEF Tick
<1>20. CASE Boot
  BY <1>20 DEF Boot, BootLabels
<1>21. ASSUME NEW t \in Threads, FillChannel(t)
     PROVE  ControlInv'
  BY <1>21 DEF FillChannel, ArgChannel
<1>22. ASSUME NEW t \in Threads, FillDuty(t)
     PROVE  ControlInv'
  BY <1>22 DEF FillDuty, ArgPos
<1>23. ASSUME NEW t \in Threads, WriteNeutral(t)
     PROVE  ControlInv'
  BY <1>23 DEF WriteNeutral, DriverWrite, Write
<1>24. ASSUME NEW t \in Threads, FlagVideo(t)
     PROVE  ControlInv'
  BY <1>24 DEF FlagVideo
<1>25. ASSUME NEW t \in Threads, ClearClientType(t)
     PROVE  ControlInv'
  BY <1>25 DEF ClearClientType
<1>26. ASSUME NEW t \in Threads, PauseStream(t)
     PROVE  ControlInv'
  BY <1>26 DEF PauseStream, AfterStopAll
<1>27. CASE UNCHANGED vars
  BY <1>27 DEF vars
<1>28. CASE ScaleOutput
  BY <1>28 DEF ScaleOutput
<1>29. CASE ParseTrack
  BY <1>29 DEF ParseTrack, Disturb, Stopping
<1>30. CASE DriveSecond
  BY <1>30 DEF DriveSecond, Write
<1>31. CASE DriveFirst
  BY <1>31 DEF DriveFirst, Write
<1> QED
  BY <1>1, <1>2, <1>3, <1>4, <1>5, <1>6, <1>7, <1>8, <1>9, <1>10, <1>11, <1>12, <1>13, <1>14, <1>15, <1>16, <1>17, <1>18, <1>19, <1>20, <1>21, <1>22, <1>23, <1>24, <1>25, <1>26, <1>27,
     <1>28, <1>29, <1>30, <1>31
  DEF Next, Udp, Alarm, Main, StopAll, Threads

-----------------------------------------------------------------------------
\* Every step keeps what is known while an alive is handled: only the UDP
\* thread writes the datagram, the others can only clear clienttype.
LEMMA ViewerStep == IInv /\ [Next]_vars => ViewerInv'
<1> SUFFICES ASSUME IInv, [Next]_vars PROVE ViewerInv'
  OBVIOUS
<1> USE ConfigAssumption, FrameFields DEF IInv, TypeOK, ControlInv, Threads, InSetPPM, InMove, Driving, Opening, Disconnecting, ViewerInv
<1>1. ASSUME NEW frame \in Frames, NEW host \in Hosts \cup {Loopback},
            Receive(frame, host)
     PROVE  ViewerInv'
  BY <1>1 DEF Receive
<1>2. CASE ReceiveFails
  BY <1>2 DEF ReceiveFails, BeginStopAll, Disturb, Stopping
<1>3. CASE ParseAlive
  BY <1>3 DEF ParseAlive
<1>4. CASE Stamp
  BY <1>4 DEF Stamp
<1>5. CASE CheckRemoteClient
  BY <1>5 DEF CheckRemoteClient
<1>6. CASE PlayStreamTo
  BY <1>6 DEF PlayStreamTo
<1>7. CASE RunGstClient
  BY <1>7 DEF RunGstClient
<1>8. CASE SaveHost
  BY <1>8 DEF SaveHost
<1>9. CASE ParseAxis
  BY <1>9 DEF ParseAxis, Disturb, Stopping
<1>10. CASE WriteCommand
  BY <1>10 DEF WriteCommand, DriverWrite, Write
<1>11. CASE ParseBitrate
  BY <1>11 DEF ParseBitrate
<1>12. CASE ParseOther
  BY <1>12 DEF ParseOther
<1>13. CASE ParseRestart
  BY <1>13 DEF ParseRestart, ZeroFrame
<1>14. CASE AlarmExpires
  BY <1>14 DEF AlarmExpires
<1>15. CASE AlarmDisarms
  BY <1>15 DEF AlarmDisarms, BeginStopAll, Disturb, Stopping
<1>16. CASE OpenPins
  BY <1>16 DEF OpenPins
<1>17. CASE StartTimer
  BY <1>17 DEF StartTimer
<1>18. CASE SendFailsafe
  BY <1>18 DEF SendFailsafe, BeginStopAll, Disturb, Stopping
<1>19. CASE Tick
  BY <1>19 DEF Tick
<1>20. CASE Boot
  BY <1>20 DEF Boot, BootLabels
<1>21. ASSUME NEW t \in Threads, FillChannel(t)
     PROVE  ViewerInv'
  BY <1>21 DEF FillChannel, ArgChannel
<1>22. ASSUME NEW t \in Threads, FillDuty(t)
     PROVE  ViewerInv'
  BY <1>22 DEF FillDuty, ArgPos
<1>23. ASSUME NEW t \in Threads, WriteNeutral(t)
     PROVE  ViewerInv'
  BY <1>23 DEF WriteNeutral, DriverWrite, Write
<1>24. ASSUME NEW t \in Threads, FlagVideo(t)
     PROVE  ViewerInv'
  BY <1>24 DEF FlagVideo
<1>25. ASSUME NEW t \in Threads, ClearClientType(t)
     PROVE  ViewerInv'
  BY <1>25 DEF ClearClientType
<1>26. ASSUME NEW t \in Threads, PauseStream(t)
     PROVE  ViewerInv'
  BY <1>26 DEF PauseStream, AfterStopAll
<1>27. CASE UNCHANGED vars
  BY <1>27 DEF vars
<1>28. CASE ScaleOutput
  BY <1>28 DEF ScaleOutput
<1>29. CASE ParseTrack
  BY <1>29 DEF ParseTrack, Disturb, Stopping
<1>30. CASE DriveSecond
  BY <1>30 DEF DriveSecond, Write
<1>31. CASE DriveFirst
  BY <1>31 DEF DriveFirst, Write
<1> QED
  BY <1>1, <1>2, <1>3, <1>4, <1>5, <1>6, <1>7, <1>8, <1>9, <1>10, <1>11, <1>12, <1>13, <1>14, <1>15, <1>16, <1>17, <1>18, <1>19, <1>20, <1>21, <1>22, <1>23, <1>24, <1>25, <1>26, <1>27,
     <1>28, <1>29, <1>30, <1>31
  DEF Next, Udp, Alarm, Main, StopAll, Threads

-----------------------------------------------------------------------------
\* Every step keeps what is known of the duties: the outputs are scaled before
\* the alarm or main can use them.
LEMMA DutyStep == IInv /\ [Next]_vars => DutyInv'
<1> SUFFICES ASSUME IInv, [Next]_vars PROVE DutyInv'
  OBVIOUS
<1> USE ConfigAssumption, FrameFields DEF IInv, TypeOK, ControlInv, Threads, InSetPPM, InMove, Driving, Opening, Disconnecting, DutyInv, ArgPos
<1>1. ASSUME NEW frame \in Frames, NEW host \in Hosts \cup {Loopback},
            Receive(frame, host)
     PROVE  DutyInv'
  BY <1>1 DEF Receive
<1>2. CASE ReceiveFails
  BY <1>2 DEF ReceiveFails, BeginStopAll, Disturb, Stopping
<1>3. CASE ParseAlive
  BY <1>3 DEF ParseAlive
<1>4. CASE Stamp
  BY <1>4 DEF Stamp
<1>5. CASE CheckRemoteClient
  BY <1>5 DEF CheckRemoteClient
<1>6. CASE PlayStreamTo
  BY <1>6 DEF PlayStreamTo
<1>7. CASE RunGstClient
  BY <1>7 DEF RunGstClient
<1>8. CASE SaveHost
  BY <1>8 DEF SaveHost
<1>9. CASE ParseAxis
  BY <1>9 DEF ParseAxis, Disturb, Stopping
<1>10. CASE WriteCommand
  BY <1>10 DEF WriteCommand, DriverWrite, Write
<1>11. CASE ParseBitrate
  BY <1>11 DEF ParseBitrate
<1>12. CASE ParseOther
  BY <1>12 DEF ParseOther
<1>13. CASE ParseRestart
  BY <1>13 DEF ParseRestart, ZeroFrame
<1>14. CASE AlarmExpires
  BY <1>14 DEF AlarmExpires
<1>15. CASE AlarmDisarms
  BY <1>15 DEF AlarmDisarms, BeginStopAll, Disturb, Stopping
<1>16. CASE OpenPins
  BY <1>16 DEF OpenPins
<1>17. CASE StartTimer
  BY <1>17 DEF StartTimer
<1>18. CASE SendFailsafe
  BY <1>18 DEF SendFailsafe, BeginStopAll, Disturb, Stopping
<1>19. CASE Tick
  BY <1>19 DEF Tick
<1>20. CASE Boot
  BY <1>20 DEF Boot, BootLabels
<1>21. ASSUME NEW t \in Threads, FillChannel(t)
     PROVE  DutyInv'
  <2>1. ArgChannel(t) \in Servos /\ ArgPos(t) \in Positions
    BY <1>21 DEF FillChannel, ArgChannel, AxisIndex
  <2>2. \A u \in Threads : ArgPos(u)' = ArgPos(u)
    BY <1>21 DEF FillChannel
  <2>3. t # "udp" => ArgChannel(t) \in scaled
    BY <1>21, <2>1 DEF FillChannel
  <2>4. /\ duty'[t] \in {ArgPos(t), Unscaled} /\ pc'[t] = "duty"
        /\ t # "udp" => duty'[t] # Unscaled
    BY <1>21, <2>1, <2>3 DEF FillChannel
  <2>5. \A u \in Threads \ {t} : duty'[u] = duty[u] /\ pc'[u] = pc[u]
    BY <1>21 DEF FillChannel
  <2>6. pc[t] = "fill" /\ scaled' = scaled
    BY <1>21 DEF FillChannel
  <2> HIDE DEF ArgPos
  <2>7. pc'["main"] \notin Opening \cup {"down"} => scaled' = Servos
    BY <2>4, <2>5, <2>6
  <2>8. pc'["alarm"] \notin {"idle", "down"} =>
          pc'["main"] \notin Opening \cup {"timer", "down"}
    BY <2>4, <2>5, <2>6
  <2>9. \A u \in Threads :
          /\ pc'[u] = "duty" => duty'[u] \in {ArgPos(u)', Unscaled}
          /\ pc'[u] # "duty" => duty'[u] = Off
    BY <2>2, <2>4, <2>5
  <2>10. \A u \in {"alarm", "main"} : duty'[u] # Unscaled
    BY <2>4, <2>5
  <2> QED
    BY <2>7, <2>8, <2>9, <2>10
<1>22. ASSUME NEW t \in Threads, FillDuty(t)
     PROVE  DutyInv'
  BY <1>22 DEF FillDuty, ArgPos
<1>23. ASSUME NEW t \in Threads, WriteNeutral(t)
     PROVE  DutyInv'
  BY <1>23 DEF WriteNeutral, DriverWrite, Write
<1>24. ASSUME NEW t \in Threads, FlagVideo(t)
     PROVE  DutyInv'
  BY <1>24 DEF FlagVideo
<1>25. ASSUME NEW t \in Threads, ClearClientType(t)
     PROVE  DutyInv'
  BY <1>25 DEF ClearClientType
<1>26. ASSUME NEW t \in Threads, PauseStream(t)
     PROVE  DutyInv'
  BY <1>26 DEF PauseStream, AfterStopAll
<1>27. CASE UNCHANGED vars
  BY <1>27 DEF vars
<1>28. CASE ScaleOutput
  BY <1>28 DEF ScaleOutput
<1>29. CASE ParseTrack
  BY <1>29 DEF ParseTrack, Disturb, Stopping
<1>30. CASE DriveSecond
  BY <1>30 DEF DriveSecond, Write
<1>31. CASE DriveFirst
  BY <1>31 DEF DriveFirst, Write
<1> QED
  BY <1>1, <1>2, <1>3, <1>4, <1>5, <1>6, <1>7, <1>8, <1>9, <1>10, <1>11, <1>12, <1>13, <1>14, <1>15, <1>16, <1>17, <1>18, <1>19, <1>20, <1>21, <1>22, <1>23, <1>24, <1>25, <1>26, <1>27,
     <1>28, <1>29, <1>30, <1>31
  DEF Next, Udp, Alarm, Main, StopAll, Threads

-----------------------------------------------------------------------------
\* Every step keeps setPPM's buffer filled while a thread is about to hand it
\* to the driver.
LEMMA MessageStep == IInv /\ [Next]_vars => MessageInv'
<1> SUFFICES ASSUME IInv, [Next]_vars PROVE MessageInv'
  OBVIOUS
<1> USE ConfigAssumption DEF IInv, TypeOK, ControlInv, Threads, MessageInv
<1>1. ASSUME NEW frame \in Frames, NEW host \in Hosts \cup {Loopback},
            Receive(frame, host)
     PROVE  MessageInv'
  BY <1>1 DEF Receive
<1>2. CASE ReceiveFails
  BY <1>2 DEF ReceiveFails, BeginStopAll
<1>3. CASE ParseAlive
  BY <1>3 DEF ParseAlive
<1>4. CASE Stamp
  BY <1>4 DEF Stamp
<1>5. CASE CheckRemoteClient
  BY <1>5 DEF CheckRemoteClient
<1>6. CASE PlayStreamTo
  BY <1>6 DEF PlayStreamTo
<1>7. CASE RunGstClient
  BY <1>7 DEF RunGstClient
<1>8. CASE SaveHost
  BY <1>8 DEF SaveHost
<1>9. CASE ParseAxis
  BY <1>9 DEF ParseAxis
<1>10. CASE WriteCommand
  BY <1>10 DEF WriteCommand
<1>11. CASE ParseBitrate
  BY <1>11 DEF ParseBitrate
<1>12. CASE ParseOther
  BY <1>12 DEF ParseOther
<1>13. CASE ParseRestart
  BY <1>13 DEF ParseRestart
<1>14. CASE AlarmExpires
  BY <1>14 DEF AlarmExpires
<1>15. CASE AlarmDisarms
  BY <1>15 DEF AlarmDisarms, BeginStopAll
<1>16. CASE OpenPins
  BY <1>16 DEF OpenPins
<1>17. CASE StartTimer
  BY <1>17 DEF StartTimer
<1>18. CASE SendFailsafe
  BY <1>18 DEF SendFailsafe, BeginStopAll
<1>19. CASE Tick
  BY <1>19 DEF Tick
<1>20. CASE Boot
  BY <1>20 DEF Boot, BootLabels
<1>21. ASSUME NEW t \in Threads, FillChannel(t)
     PROVE  MessageInv'
  BY <1>21 DEF FillChannel
<1>22. ASSUME NEW t \in Threads, FillDuty(t)
     PROVE  MessageInv'
  <2>1. duty[t] \in Positions \cup {Unscaled}
    BY <1>22, FrameFields DEF FillDuty, ArgPos, InSetPPM, DutyInv
  <2>2. ppm'.pos = duty[t]
    BY <1>22 DEF FillDuty
  <2> QED
    BY <2>1, <2>2
<1>23. ASSUME NEW t \in Threads, WriteNeutral(t)
     PROVE  MessageInv'
  BY <1>23 DEF WriteNeutral
<1>24. ASSUME NEW t \in Threads, FlagVideo(t)
     PROVE  MessageInv'
  BY <1>24 DEF FlagVideo
<1>25. ASSUME NEW t \in Threads, ClearClientType(t)
     PROVE  MessageInv'
  BY <1>25 DEF ClearClientType
<1>26. ASSUME NEW t \in Threads, PauseStream(t)
     PROVE  MessageInv'
  BY <1>26 DEF PauseStream, AfterStopAll
<1>27. CASE UNCHANGED vars
  BY <1>27 DEF vars
<1>28. CASE ScaleOutput
  BY <1>28 DEF ScaleOutput
<1>29. CASE ParseTrack
  BY <1>29 DEF ParseTrack
<1>30. CASE DriveSecond
  BY <1>30 DEF DriveSecond
<1>31. CASE DriveFirst
  BY <1>31 DEF DriveFirst
<1> QED
  BY <1>1, <1>2, <1>3, <1>4, <1>5, <1>6, <1>7, <1>8, <1>9, <1>10, <1>11, <1>12, <1>13, <1>14, <1>15, <1>16, <1>17, <1>18, <1>19, <1>20, <1>21, <1>22, <1>23, <1>24, <1>25, <1>26, <1>27,
     <1>28, <1>29, <1>30, <1>31
  DEF Next, Udp, Alarm, Main, StopAll, Threads

-----------------------------------------------------------------------------
\* Every step keeps StrayInv: a command gets past the gate only when armed,
\* so at most the one under way when the alarm disarms is counted.
LEMMA StrayStep == IInv /\ [Next]_vars => StrayInv'
<1> SUFFICES ASSUME IInv, [Next]_vars PROVE StrayInv'
  OBVIOUS
<1> USE ConfigAssumption DEF IInv, TypeOK, ControlInv, Threads, InSetPPM, InMove, Driving, Opening, Disconnecting, StrayInv
<1>1. ASSUME NEW frame \in Frames, NEW host \in Hosts \cup {Loopback},
            Receive(frame, host)
     PROVE  StrayInv'
  BY <1>1 DEF Receive
<1>2. CASE ReceiveFails
  BY <1>2 DEF ReceiveFails, BeginStopAll, Disturb, Stopping
<1>3. CASE ParseAlive
  BY <1>3 DEF ParseAlive
<1>4. CASE Stamp
  BY <1>4 DEF Stamp
<1>5. CASE CheckRemoteClient
  BY <1>5 DEF CheckRemoteClient
<1>6. CASE PlayStreamTo
  BY <1>6 DEF PlayStreamTo
<1>7. CASE RunGstClient
  BY <1>7 DEF RunGstClient
<1>8. CASE SaveHost
  BY <1>8 DEF SaveHost
<1>9. CASE ParseAxis
  BY <1>9 DEF ParseAxis, Disturb, Stopping
<1>10. CASE WriteCommand
  BY <1>10 DEF WriteCommand, DriverWrite, Write
<1>11. CASE ParseBitrate
  BY <1>11 DEF ParseBitrate
<1>12. CASE ParseOther
  BY <1>12 DEF ParseOther
<1>13. CASE ParseRestart
  BY <1>13 DEF ParseRestart, ZeroFrame
<1>14. CASE AlarmExpires
  BY <1>14 DEF AlarmExpires
<1>15. CASE AlarmDisarms
  BY <1>15 DEF AlarmDisarms, BeginStopAll, Disturb, Stopping
<1>16. CASE OpenPins
  BY <1>16 DEF OpenPins
<1>17. CASE StartTimer
  BY <1>17 DEF StartTimer
<1>18. CASE SendFailsafe
  BY <1>18 DEF SendFailsafe, BeginStopAll, Disturb, Stopping
<1>19. CASE Tick
  BY <1>19 DEF Tick
<1>20. CASE Boot
  BY <1>20 DEF Boot, BootLabels
<1>21. ASSUME NEW t \in Threads, FillChannel(t)
     PROVE  StrayInv'
  BY <1>21 DEF FillChannel, ArgChannel
<1>22. ASSUME NEW t \in Threads, FillDuty(t)
     PROVE  StrayInv'
  BY <1>22 DEF FillDuty, ArgPos
<1>23. ASSUME NEW t \in Threads, WriteNeutral(t)
     PROVE  StrayInv'
  BY <1>23 DEF WriteNeutral, DriverWrite, Write
<1>24. ASSUME NEW t \in Threads, FlagVideo(t)
     PROVE  StrayInv'
  BY <1>24 DEF FlagVideo
<1>25. ASSUME NEW t \in Threads, ClearClientType(t)
     PROVE  StrayInv'
  BY <1>25 DEF ClearClientType
<1>26. ASSUME NEW t \in Threads, PauseStream(t)
     PROVE  StrayInv'
  BY <1>26 DEF PauseStream, AfterStopAll
<1>27. CASE UNCHANGED vars
  BY <1>27 DEF vars
<1>28. CASE ScaleOutput
  BY <1>28 DEF ScaleOutput
<1>29. CASE ParseTrack
  BY <1>29 DEF ParseTrack, Disturb, Stopping
<1>30. CASE DriveSecond
  BY <1>30 DEF DriveSecond, Write
<1>31. CASE DriveFirst
  BY <1>31 DEF DriveFirst, Write
<1> QED
  BY <1>1, <1>2, <1>3, <1>4, <1>5, <1>6, <1>7, <1>8, <1>9, <1>10, <1>11, <1>12, <1>13, <1>14, <1>15, <1>16, <1>17, <1>18, <1>19, <1>20, <1>21, <1>22, <1>23, <1>24, <1>25, <1>26, <1>27,
     <1>28, <1>29, <1>30, <1>31
  DEF Next, Udp, Alarm, Main, StopAll, Threads

-----------------------------------------------------------------------------
\* A thread that enters stopAll disturbs every stopAll under way, and is itself
\* undisturbed only if nobody else is driving.
LEMMA StopAllDisturbs ==
  ASSUME TypeOK, NEW t \in Threads, pc[t] \notin Disconnecting, BeginStopAll(t)
  PROVE  DisturbInv'
<1> SUFFICES ASSUME NEW u \in Threads, Stopping(u)', ~disturbed'[u]
             PROVE  Undisturbed(u)'
  BY DEF DisturbInv
<1>1. disturbed' = [Disturb(t) EXCEPT ![t] =
        pc["main"] \in Opening \/ \E v \in Threads \ {t} : pc[v] \in Driving]
  BY DEF BeginStopAll
<1>2. CASE u = t
  <2>1. /\ pc["main"] \notin Opening
        /\ \A v \in Threads \ {t} : pc[v] \notin Driving
    BY <1>1, <1>2 DEF Disturb
  <2>2. pc'[t] = "fill" /\ i'[t] = 0 /\ \A v \in Threads \ {t} : pc'[v] = pc[v]
    BY DEF BeginStopAll, TypeOK
  <2>3. pc'["main"] \notin Opening
    BY <2>1, <2>2 DEF Threads, Opening
  <2>4. \A a \in AxisIndex : ~(a < i'[t])
    BY <2>2, ConfigAssumption DEF AxisIndex
  <2> QED
    BY <1>2, <2>1, <2>2, <2>3, <2>4 DEF Undisturbed
<1>3. CASE u # t
  <2>1. Stopping(u)
    BY <1>3 DEF Stopping, BeginStopAll, TypeOK
  <2>2. disturbed'[u]
    BY <1>1, <1>3, <2>1 DEF Disturb
  <2> QED
    BY <2>2
<1> QED
  BY <1>2, <1>3

\* Every step keeps an undisturbed stopAll exact.
LEMMA DisturbStep == IInv /\ [Next]_vars => DisturbInv'
<1> SUFFICES ASSUME IInv, [Next]_vars PROVE DisturbInv'
  OBVIOUS
<1> USE ConfigAssumption DEF IInv, TypeOK, ControlInv, Threads, InSetPPM, InMove, Driving, Opening, Disconnecting, DisturbInv, Undisturbed, Stopping, AxisIndex
<1>1. ASSUME NEW frame \in Frames, NEW host \in Hosts \cup {Loopback},
            Receive(frame, host)
     PROVE  DisturbInv'
  BY <1>1 DEF Receive
<1>2. CASE ReceiveFails
  BY <1>2, StopAllDisturbs DEF ReceiveFails
<1>3. CASE ParseAlive
  BY <1>3 DEF ParseAlive
<1>4. CASE Stamp
  BY <1>4 DEF Stamp
<1>5. CASE CheckRemoteClient
  BY <1>5 DEF CheckRemoteClient
<1>6. CASE PlayStreamTo
  BY <1>6 DEF PlayStreamTo
<1>7. CASE RunGstClient
  BY <1>7 DEF RunGstClient
<1>8. CASE SaveHost
  BY <1>8 DEF SaveHost
<1>9. CASE ParseAxis
  BY <1>9 DEF ParseAxis, Disturb, Stopping
<1>10. CASE WriteCommand
  BY <1>10 DEF WriteCommand, DriverWrite, Write
<1>11. CASE ParseBitrate
  BY <1>11 DEF ParseBitrate
<1>12. CASE ParseOther
  BY <1>12 DEF ParseOther
<1>13. CASE ParseRestart
  BY <1>13 DEF ParseRestart, ZeroFrame
<1>14. CASE AlarmExpires
  BY <1>14 DEF AlarmExpires
<1>15. CASE AlarmDisarms
  BY <1>15, StopAllDisturbs DEF AlarmDisarms
<1>16. CASE OpenPins
  BY <1>16 DEF OpenPins
<1>17. CASE StartTimer
  BY <1>17 DEF StartTimer
<1>18. CASE SendFailsafe
  BY <1>18, StopAllDisturbs DEF SendFailsafe
<1>19. CASE Tick
  BY <1>19 DEF Tick
<1>20. CASE Boot
  BY <1>20 DEF Boot, BootLabels
<1>21. ASSUME NEW t \in Threads, FillChannel(t)
     PROVE  DisturbInv'
  <2> SUFFICES ASSUME NEW u \in Threads, Stopping(u)', ~disturbed'[u]
               PROVE  Undisturbed(u)'
    OBVIOUS
  <2>1. /\ i' = i /\ disturbed' = disturbed /\ servo' = servo
        /\ pc' = [pc EXCEPT ![t] = "duty"] /\ pc[t] = "fill"
    BY <1>21 DEF FillChannel
  <2>2. Stopping(u) /\ ~disturbed[u]
    BY <2>1
  <2>3. Undisturbed(u)
    BY <2>2
  <2>4. u = t
    BY <2>1, <2>3
  <2>5. i[t] < NumAxes
    BY <2>1, <2>2, <2>4
  <2>6. i[t] \in AxisIndex
    BY <2>5
  <2>7. pc["main"] \notin Opening \cup {"down"}
    BY <2>1, <2>3
  <2>8. scaled = Servos /\ axis[i[t]] \in Servos
    BY <2>6, <2>7 DEF DutyInv
  <2>9. duty'[t] = Neutral /\ ppm'.ch = axis[i[t]]
    BY <1>21, <2>5, <2>8 DEF FillChannel, ArgChannel, ArgPos
  <2> QED
    BY <2>1, <2>3, <2>4, <2>9
<1>22. ASSUME NEW t \in Threads, FillDuty(t)
     PROVE  DisturbInv'
  BY <1>22 DEF FillDuty, ArgPos
<1>23. ASSUME NEW t \in Threads, WriteNeutral(t)
     PROVE  DisturbInv'
  BY <1>23 DEF WriteNeutral, DriverWrite, Write
<1>24. ASSUME NEW t \in Threads, FlagVideo(t)
     PROVE  DisturbInv'
  BY <1>24 DEF FlagVideo
<1>25. ASSUME NEW t \in Threads, ClearClientType(t)
     PROVE  DisturbInv'
  BY <1>25 DEF ClearClientType
<1>26. ASSUME NEW t \in Threads, PauseStream(t)
     PROVE  DisturbInv'
  BY <1>26 DEF PauseStream, AfterStopAll
<1>27. CASE UNCHANGED vars
  BY <1>27 DEF vars
<1>28. CASE ScaleOutput
  BY <1>28 DEF ScaleOutput
<1>29. CASE ParseTrack
  BY <1>29 DEF ParseTrack, Disturb, Stopping
<1>30. CASE DriveSecond
  BY <1>30 DEF DriveSecond, Write
<1>31. CASE DriveFirst
  BY <1>31 DEF DriveFirst, Write
<1> QED
  BY <1>1, <1>2, <1>3, <1>4, <1>5, <1>6, <1>7, <1>8, <1>9, <1>10, <1>11, <1>12, <1>13, <1>14, <1>15, <1>16, <1>17, <1>18, <1>19, <1>20, <1>21, <1>22, <1>23, <1>24, <1>25, <1>26, <1>27,
     <1>28, <1>29, <1>30, <1>31
  DEF Next, Udp, Alarm, Main, StopAll, Threads

-----------------------------------------------------------------------------
\* The invariant holds in every reachable state.
LEMMA Invariance == Spec => []IInv
<1>1. IInv /\ [Next]_vars => IInv'
  BY TypeStep, ControlStep, ViewerStep, DutyStep, MessageStep, StrayStep,
     DisturbStep
  DEF IInv
<1> QED
  BY <1>1, InitInv, PTL DEF Spec

\* TypeOK, for every configuration: in particular prev_remote_host is never
\* this machine, and setPPM is never called on an axis that does not exist.
THEOREM TypeCorrect == Spec => []TypeOK
<1>1. IInv => TypeOK
  BY DEF IInv
<1> QED
  BY <1>1, Invariance, PTL

\* At most one driving command is executed after control was revoked.
THEOREM StrayBounded == Spec => []AtMostOneStray
<1>1. IInv => AtMostOneStray
  BY DEF IInv, StrayInv, AtMostOneStray
<1> QED
  BY <1>1, Invariance, PTL

\* An undisturbed stopAll leaves every axis at its neutral position.
THEOREM StopAllNeutralises == Spec => []NeutralAfterStopAll
<1>1. IInv => NeutralAfterStopAll
  <2> SUFFICES ASSUME IInv, NEW t \in Threads,
                      pc[t] \in Disconnecting, ~disturbed[t],
                      NEW a \in AxisIndex
               PROVE  servo[axis[a]] = Neutral
    BY DEF NeutralAfterStopAll, Neutralised
  <2>1. Undisturbed(t)
    BY DEF IInv, DisturbInv, Stopping
  <2>2. pc[t] \notin InSetPPM
    BY DEF Disconnecting, InSetPPM
  <2>3. i[t] \in 0 .. NumAxes /\ ~(i[t] < NumAxes)
    BY <2>2 DEF IInv, TypeOK, ControlInv
  <2>4. a < i[t]
    BY <2>3, ConfigAssumption DEF AxisIndex
  <2> QED
    BY <2>1, <2>4 DEF Undisturbed
<1> QED
  BY <1>1, Invariance, PTL

\* Only a client that can show video redirects the stream, and to itself.
THEOREM StreamSafety == Spec => StreamFollowsViewer
<1> DEFINE Follows ==
      videoHost' # videoHost =>
        \/ pc["main"] = "down"
        \/ buf = [cmd |-> "alive", type |-> 1] /\ videoHost' = si_other
<1>1. IInv /\ [Next]_vars => Follows
  <2> SUFFICES ASSUME IInv, Next, videoHost' # videoHost PROVE Follows
    BY DEF vars, gstd
  <2>1. RunGstClient \/ Boot
    BY DEF Next, Udp, Alarm, Main, StopAll, Receive, ReceiveFails, ParseAlive,
           Stamp, CheckRemoteClient, PlayStreamTo, SaveHost, ParseAxis,
           WriteCommand, ParseTrack, DriveSecond, DriveFirst, ParseBitrate,
           ParseOther, ParseRestart, AlarmExpires, AlarmDisarms, OpenPins,
           ScaleOutput, StartTimer, SendFailsafe, Tick,
           FillChannel, FillDuty, WriteNeutral, FlagVideo, ClearClientType,
           PauseStream
  <2>2. CASE RunGstClient
    <3>1. buf \in Frames /\ buf.cmd = "alive" /\ buf.type = 1
      BY <2>2 DEF RunGstClient, IInv, TypeOK, ViewerInv
    <3>2. buf = [cmd |-> "alive", type |-> 1]
      BY <3>1 DEF Frames, AliveFrames, AxisFrames, TrackFrames
    <3> QED
      BY <2>2, <3>2 DEF RunGstClient
  <2>3. CASE Boot
    BY <2>3 DEF Boot
  <2> QED
    BY <2>1, <2>2, <2>3
<1> QED
  BY <1>1, Invariance, PTL DEF Spec, StreamFollowsViewer

-----------------------------------------------------------------------------
(* RcBoard implements DriveLease.  Most steps leave the lease, the command   *)
(* under way, setPPM's message and the outputs alone; the others are the     *)
(* steps of DriveLease, each given by the invariant.                         *)

\* The abstract state does not change.
Stutters ==
  UNCHANGED <<DriverReady, armed, AcceptedCommand, ppm.pos, servo>>

\* A thread inside setPPM fills it for a stopAll or for the accepted command.
LEMMA ArgPosIs ==
  ASSUME IInv, NEW t \in Threads, pc[t] \in InSetPPM
  PROVE  \/ i[t] < NumAxes /\ ArgPos(t) = Neutral
         \/ t = "udp" /\ i[t] = NumAxes /\ ArgPos(t) = buf.pos
<1>1. i[t] \in 0 .. NumAxes
  BY DEF IInv, TypeOK
<1>2. CASE i[t] < NumAxes
  BY <1>2 DEF ArgPos
<1>3. CASE ~(i[t] < NumAxes)
  <2>1. i[t] = NumAxes
    BY <1>1, <1>3, ConfigAssumption
  <2>2. t = "udp"
    BY <1>3 DEF IInv, ControlInv, Threads
  <2> QED
    BY <1>3, <2>1, <2>2 DEF ArgPos
<1> QED
  BY <1>2, <1>3

\* A command under way has a position, and the mark of none is no position.
LEMMA CommandPos ==
  ASSUME IInv, Commanding
  PROVE  buf.pos \in Positions /\ AcceptedCommand = buf.pos /\ buf.pos # Off
BY FrameFields, ConfigAssumption
DEF IInv, TypeOK, ControlInv, Commanding, AcceptedCommand, InSetPPM, InMove

\* Move's command is the other one.
LEMMA MoveCommand ==
  ASSUME IInv, pc["udp"] \in InMove
  PROVE  AcceptedCommand = Tracked /\ Tracked # Off /\ ~Commanding
BY ConfigAssumption DEF AcceptedCommand, Commanding, InSetPPM, InMove

\* The steps of the UDP thread outside setPPM, and what other threads do
\* besides stopAll, leave the abstract state alone.
LEMMA QuietSteps ==
  ASSUME IInv,
         \/ \E frame \in Frames, host \in Hosts \cup {Loopback} : Receive(frame, host)
         \/ ReceiveFails \/ ParseAlive \/ CheckRemoteClient \/ PlayStreamTo
         \/ RunGstClient \/ SaveHost \/ ParseBitrate \/ ParseOther
         \/ AlarmExpires \/ OpenPins \/ StartTimer \/ SendFailsafe
         \/ Tick \/ Boot \/ UNCHANGED vars
  PROVE  Stutters
<1> USE DEF IInv, TypeOK, ControlInv, Threads, InSetPPM, InMove, Opening, Commanding, AcceptedCommand, DriverReady, Stutters
<1>1. ASSUME NEW frame \in Frames, NEW host \in Hosts \cup {Loopback},
            Receive(frame, host)
     PROVE  Stutters
  BY <1>1 DEF Receive
<1>2. CASE ReceiveFails
  BY <1>2, ConfigAssumption DEF ReceiveFails, BeginStopAll
<1>3. CASE ParseAlive
  BY <1>3 DEF ParseAlive
<1>4. CASE CheckRemoteClient
  BY <1>4 DEF CheckRemoteClient
<1>5. CASE PlayStreamTo
  BY <1>5 DEF PlayStreamTo
<1>6. CASE RunGstClient
  BY <1>6 DEF RunGstClient
<1>7. CASE SaveHost
  BY <1>7 DEF SaveHost
<1>8. CASE ParseBitrate
  BY <1>8 DEF ParseBitrate
<1>9. CASE ParseOther
  BY <1>9 DEF ParseOther
<1>10. CASE AlarmExpires
  BY <1>10 DEF AlarmExpires
<1>11. CASE OpenPins
  BY <1>11 DEF OpenPins
<1>12. CASE StartTimer
  BY <1>12 DEF StartTimer
<1>13. CASE SendFailsafe
  BY <1>13, ConfigAssumption DEF SendFailsafe, BeginStopAll
<1>14. CASE Tick
  BY <1>14 DEF Tick
<1>15. CASE Boot
  BY <1>15 DEF Boot, BootLabels
<1>16. CASE UNCHANGED vars
  BY <1>16 DEF vars
<1> QED
  BY <1>1, <1>2, <1>3, <1>4, <1>5, <1>6, <1>7, <1>8, <1>9, <1>10, <1>11, <1>12, <1>13, <1>14, <1>15, <1>16

\* So do the steps of stopAll that do not hand a message to the driver or
\* fill in its position.  A duty computed once main is through is scaled.
LEMMA QuietStopAll ==
  ASSUME IInv, NEW t \in Threads,
         FillChannel(t) \/ FlagVideo(t) \/ ClearClientType(t) \/ PauseStream(t)
  PROVE  Stutters
<1> USE DEF IInv, TypeOK, ControlInv, Threads, InSetPPM, InMove, Disconnecting, Opening, Commanding, AcceptedCommand, DriverReady, Stutters
<1>1. CASE FillChannel(t)
  <2>1. ArgChannel(t) \in Servos /\ ArgPos(t) \in Positions
    BY <1>1, FrameFields, ConfigAssumption
    DEF FillChannel, ArgChannel, ArgPos, AxisIndex
  <2>2. pc[t] = "fill" /\ pc' = [pc EXCEPT ![t] = "duty"]
    BY <1>1 DEF FillChannel
  <2>3. pc'["main"] \in Opening \cup {"down"} <=> pc["main"] \in Opening \cup {"down"}
    BY <2>2
  <2>4. DriverReady' = DriverReady
    <3>1. CASE t = "udp"
      <4>1. duty["udp"] = Off /\ Off # Unscaled
        BY <2>2, <3>1, ConfigAssumption DEF DutyInv
      <4>2. pc["main"] \notin Opening \cup {"down"} => scaled = Servos
        BY DEF DutyInv
      <4>3. duty'["udp"] = IF ArgChannel(t) \in scaled THEN ArgPos(t) ELSE Unscaled
        BY <1>1, <3>1 DEF FillChannel
      <4>4. Unscaled \notin Positions
        BY ConfigAssumption
      <4> QED
        BY <2>1, <2>3, <3>1, <4>1, <4>2, <4>3, <4>4
    <3>2. CASE t # "udp"
      <4>1. duty'["udp"] = duty["udp"]
        BY <1>1, <3>2 DEF FillChannel
      <4> QED
        BY <2>3, <4>1
    <3> QED
      BY <3>1, <3>2
  <2>5. UNCHANGED <<armed, AcceptedCommand, ppm.pos, servo>>
    BY <1>1 DEF FillChannel
  <2> QED
    BY <2>4, <2>5
<1>2. CASE FlagVideo(t)
  BY <1>2 DEF FlagVideo
<1>3. CASE ClearClientType(t)
  BY <1>3 DEF ClearClientType
<1>4. CASE PauseStream(t)
  BY <1>4 DEF PauseStream, AfterStopAll
<1> QED
  BY <1>1, <1>2, <1>3, <1>4

\* Scaling the last output readies the driver.
LEMMA ScaleIs ==
  ASSUME IInv, ScaleOutput
  PROVE  Lease!Settle \/ Stutters
<1> USE DEF IInv, TypeOK, ControlInv, Threads, InSetPPM, InMove, Opening, Commanding, AcceptedCommand, DriverReady
<1>1. ~DriverReady
  BY DEF ScaleOutput
<1>2. UNCHANGED <<armed, AcceptedCommand, ppm.pos, servo>>
  BY DEF ScaleOutput
<1>3. DriverReady' \in BOOLEAN
  OBVIOUS
<1> QED
  BY <1>1, <1>2, <1>3 DEF Lease!Settle, Stutters

\* A write hands the message to one output, or to none before there is a driver.
LEMMA WriteIs ==
  ASSUME IInv, NEW t \in Threads, pc[t] = "write", DriverWrite
  PROVE  /\ ppm.pos # Off /\ ppm.ch \in Servos
         /\ servo' = servo \/ servo' = [servo EXCEPT ![ppm.ch] = ppm.pos]
BY DEF IInv, TypeOK, MessageInv, DriverWrite, Write

\* Storing a duty fills the buffer for a stopAll or the command, or too early.
LEMMA FillIs ==
  ASSUME IInv, NEW t \in Threads, FillDuty(t)
  PROVE  Lease!FillNeutral \/ Lease!FillCommand \/ Lease!FillUnscaled
<1> USE DEF Threads, InSetPPM, InMove
<1>1. pc[t] \in InSetPPM
  BY DEF FillDuty
<1>2. (Commanding' <=> Commanding) /\ buf' = buf
  BY DEF FillDuty, Commanding, IInv, TypeOK
<1>3. AcceptedCommand' = AcceptedCommand
  BY <1>2 DEF AcceptedCommand, FillDuty, IInv, TypeOK
<1>4. ppm'.pos = duty[t] /\ UNCHANGED <<armed, servo>>
  BY DEF FillDuty, IInv, TypeOK
<1>5. pc' = [pc EXCEPT ![t] = "write"] /\ duty' = [duty EXCEPT ![t] = Off]
  BY DEF FillDuty
<1>6. CASE duty[t] = Unscaled
  <2>1. t = "udp"
    BY <1>6 DEF IInv, DutyInv
  <2>2. ~DriverReady /\ DriverReady' \in BOOLEAN
    BY <1>6, <2>1 DEF DriverReady
  <2> QED
    BY <1>3, <1>4, <1>6, <2>2 DEF Lease!FillUnscaled
<1>7. CASE duty[t] # Unscaled
  <2>1. duty[t] = ArgPos(t)
    BY <1>7 DEF FillDuty, IInv, DutyInv
  <2>2. pc'["main"] \in Opening \cup {"down"} <=> pc["main"] \in Opening \cup {"down"}
    BY <1>5 DEF FillDuty, IInv, TypeOK, Opening
  <2>3. duty'["udp"] # Unscaled <=> duty["udp"] # Unscaled
    BY <1>5, <1>7, ConfigAssumption DEF IInv, TypeOK
  <2>4. DriverReady' = DriverReady
    BY <2>2, <2>3 DEF DriverReady
  <2>5. CASE ArgPos(t) = Neutral
    BY <1>3, <1>4, <2>1, <2>4, <2>5 DEF Lease!FillNeutral
  <2>6. CASE t = "udp" /\ i[t] = NumAxes /\ ArgPos(t) = buf.pos
    <3>1. Commanding
      BY <1>1, <2>6 DEF Commanding
    <3> QED
      BY <1>3, <1>4, <2>1, <2>4, <2>6, <3>1, CommandPos DEF Lease!FillCommand
  <2> QED
    BY <1>1, <2>5, <2>6, ArgPosIs
<1> QED
  BY <1>6, <1>7

\* The gate accepts the command, or nothing happens.
LEMMA GateIs ==
  ASSUME IInv, ParseAxis \/ ParseTrack
  PROVE  Lease!Next \/ Stutters
<1> USE DEF Threads, InSetPPM, InMove, Opening
<1>1. ~Commanding /\ AcceptedCommand = Off
  BY DEF ParseAxis, ParseTrack, Commanding, AcceptedCommand
<1>2. UNCHANGED <<DriverReady, armed, ppm.pos, servo>>
  BY DEF ParseAxis, ParseTrack, DriverReady, IInv, TypeOK
<1>3. i["udp"] = NumAxes
  BY ConfigAssumption DEF ParseAxis, ParseTrack, IInv, TypeOK, ControlInv
<1>4. CASE pc'["udp"] = "recv"
  <2>1. ~Commanding' /\ AcceptedCommand' = Off
    BY <1>4 DEF Commanding, AcceptedCommand
  <2> QED
    BY <1>1, <1>2, <2>1 DEF Stutters
<1>5. CASE ParseAxis /\ armed
  <2>1. Commanding' /\ pc'["udp"] = "fill" /\ buf' = buf
    BY <1>3, <1>5 DEF ParseAxis, Commanding, IInv, TypeOK
  <2>2. AcceptedCommand' = buf.pos
    BY <2>1 DEF AcceptedCommand
  <2>3. buf.pos \in Positions
    BY <1>5, FrameFields DEF ParseAxis, IInv, TypeOK
  <2>4. Lease!Accept(buf.pos)
    BY <1>1, <1>2, <1>5, <2>2 DEF Lease!Accept
  <2> QED
    BY <2>3, <2>4 DEF Lease!Next
<1>6. CASE ParseTrack /\ armed /\ pc'["udp"] # "recv"
  <2>1. pc'["udp"] \in InMove
    BY <1>6 DEF ParseTrack, IInv, TypeOK
  <2>2. AcceptedCommand' = Tracked
    BY <2>1 DEF AcceptedCommand
  <2>3. Lease!Accept(Tracked)
    BY <1>1, <1>2, <1>6, <2>2 DEF Lease!Accept
  <2> QED
    BY <2>3 DEF Lease!Next
<1> QED
  BY <1>4, <1>5, <1>6 DEF ParseAxis, ParseTrack, IInv, TypeOK

\* Each write of Move gives an output the command, or goes nowhere.
LEMMA MoveIs ==
  ASSUME IInv, DriveSecond \/ DriveFirst
  PROVE  Lease!Next \/ Stutters
<1> USE DEF Threads, InSetPPM, InMove, Opening
<1>1. pc["udp"] \in InMove
  BY DEF DriveSecond, DriveFirst
<1>2. AcceptedCommand = Tracked /\ Tracked # Off
  BY <1>1, MoveCommand
<1>3. UNCHANGED <<DriverReady, armed, ppm.pos>>
  BY DEF DriveSecond, DriveFirst, DriverReady, IInv, TypeOK
<1>4. CASE DriveSecond
  <2>1. AcceptedCommand' = Tracked
    BY <1>4 DEF DriveSecond, AcceptedCommand, IInv, TypeOK
  <2>2. axis[1] \in Servos
    BY <1>4, ConfigAssumption DEF DriveSecond, IInv, ControlInv, AxisIndex
  <2>3. servo' = servo \/ servo' = [servo EXCEPT ![axis[1]] = Tracked]
    BY <1>4 DEF DriveSecond, Write
  <2>4. CASE servo' = servo
    BY <1>2, <1>3, <2>1, <2>4 DEF Stutters
  <2>5. CASE servo' = [servo EXCEPT ![axis[1]] = Tracked]
    <3>1. Lease!Drive(axis[1])
      BY <1>2, <1>3, <2>1, <2>5 DEF Lease!Drive
    <3> QED
      BY <2>2, <3>1 DEF Lease!Next
  <2> QED
    BY <2>3, <2>4, <2>5
<1>5. CASE DriveFirst
  <2>1. AcceptedCommand' = Off
    BY <1>5 DEF DriveFirst, AcceptedCommand, Commanding, IInv, TypeOK
  <2>2. axis[0] \in Servos
    BY ConstantFacts
  <2>3. servo' = servo \/ servo' = [servo EXCEPT ![axis[0]] = Tracked]
    BY <1>5 DEF DriveFirst, Write
  <2>4. CASE servo' = servo
    <3>1. Lease!Discard
      BY <1>2, <1>3, <2>1, <2>4 DEF Lease!Discard
    <3> QED
      BY <3>1 DEF Lease!Next
  <2>5. CASE servo' = [servo EXCEPT ![axis[0]] = Tracked]
    <3>1. Lease!Finish(axis[0])
      BY <1>2, <1>3, <2>1, <2>5 DEF Lease!Finish
    <3> QED
      BY <2>2, <3>1 DEF Lease!Next
  <2> QED
    BY <2>3, <2>4, <2>5
<1> QED
  BY <1>4, <1>5

\* Every step maps to a step of DriveLease or to a stutter.
LEMMA LeaseStep == IInv /\ [Next]_vars => [Lease!Next]_(Lease!vars)
<1> SUFFICES ASSUME IInv, [Next]_vars PROVE Lease!Next \/ Stutters
  BY DEF Lease!vars, Stutters
<1> USE DEF Threads, InSetPPM, InMove, Opening
<1>1. CASE Stamp
  <2>1. Lease!Grant
    BY <1>1 DEF Stamp, Lease!Grant, Commanding, AcceptedCommand, DriverReady, IInv, TypeOK
  <2> QED
    BY <2>1 DEF Lease!Next
<1>2. CASE AlarmDisarms
  <2>1. /\ pc'["udp"] = pc["udp"] /\ i'["udp"] = i["udp"]
        /\ pc'["main"] = pc["main"]
    BY <1>2 DEF AlarmDisarms, BeginStopAll, IInv, TypeOK
  <2>2. Lease!Revoke
    BY <1>2, <2>1 DEF AlarmDisarms, Lease!Revoke, Commanding, AcceptedCommand, DriverReady
  <2> QED
    BY <2>2 DEF Lease!Next
<1>3. CASE ScaleOutput
  BY <1>3, ScaleIs DEF Lease!Next
<1>4. ASSUME NEW t \in Threads, FillDuty(t)
     PROVE  Lease!Next
  BY <1>4, FillIs DEF Lease!Next
<1>5. ASSUME NEW t \in Threads, WriteNeutral(t)
     PROVE  Lease!Next \/ Stutters
  <2>1. (Commanding' <=> Commanding) /\ buf' = buf
    <3>1. i["udp"] = NumAxes => t # "udp"
      BY <1>5, ConfigAssumption DEF WriteNeutral
    <3>2. i[t] + 1 \in 0 .. NumAxes
      BY <1>5, ConfigAssumption DEF WriteNeutral, IInv, TypeOK
    <3>3. t = "udp" => ~Commanding /\ ~Commanding'
      BY <1>5, <3>1, <3>2, ConfigAssumption
      DEF WriteNeutral, Commanding, IInv, TypeOK
    <3>4. t # "udp" => (Commanding' <=> Commanding)
      BY <1>5 DEF WriteNeutral, Commanding, IInv, TypeOK
    <3> QED
      BY <1>5, <3>3, <3>4 DEF WriteNeutral
  <2>2. (pc'["udp"] \in InMove <=> pc["udp"] \in InMove)
        /\ DriverReady' = DriverReady
    BY <1>5 DEF WriteNeutral, DriverReady, IInv, TypeOK, ControlInv
  <2>3. AcceptedCommand' = AcceptedCommand /\ UNCHANGED <<armed, ppm>>
    BY <1>5, <2>1, <2>2 DEF WriteNeutral, AcceptedCommand
  <2>4. CASE servo' = servo
    BY <2>2, <2>3, <2>4 DEF Stutters
  <2>5. CASE servo' = [servo EXCEPT ![ppm.ch] = ppm.pos]
    <3>1. ppm.pos # Off /\ ppm.ch \in Servos
      BY <1>5, WriteIs DEF WriteNeutral
    <3>2. Lease!Drive(ppm.ch)
      BY <2>2, <2>3, <2>5, <3>1 DEF Lease!Drive
    <3> QED
      BY <3>1, <3>2 DEF Lease!Next
  <2> QED
    BY <1>5, <2>4, <2>5, WriteIs DEF WriteNeutral
<1>6. CASE WriteCommand
  <2>1. Commanding /\ ~Commanding' /\ UNCHANGED <<armed, ppm, DriverReady>>
    BY <1>6 DEF WriteCommand, Commanding, DriverReady, IInv, TypeOK
  <2>2. AcceptedCommand # Off /\ AcceptedCommand' = Off
    BY <1>6, <2>1, CommandPos DEF AcceptedCommand, WriteCommand, IInv, TypeOK
  <2>3. CASE servo' = servo
    <3>1. Lease!Discard
      BY <2>1, <2>2, <2>3 DEF Lease!Discard
    <3> QED
      BY <3>1 DEF Lease!Next
  <2>4. CASE servo' = [servo EXCEPT ![ppm.ch] = ppm.pos]
    <3>1. ppm.pos # Off /\ ppm.ch \in Servos
      BY <1>6, WriteIs DEF WriteCommand
    <3>2. Lease!Finish(ppm.ch)
      BY <2>1, <2>2, <2>4, <3>1 DEF Lease!Finish
    <3> QED
      BY <3>1, <3>2 DEF Lease!Next
  <2> QED
    BY <1>6, <2>3, <2>4, WriteIs DEF WriteCommand
<1>7. CASE ParseRestart
  <2>1. ~Commanding' /\ ~DriverReady' /\ pc'["udp"] \notin InMove
    BY <1>7 DEF ParseRestart, Commanding, DriverReady
  <2>2. Lease!Die
    BY <1>7, <2>1 DEF ParseRestart, Lease!Die, AcceptedCommand
  <2> QED
    BY <2>2 DEF Lease!Next
<1> QED
  BY <1>1, <1>2, <1>3, <1>4, <1>5, <1>6, <1>7, GateIs, MoveIs, QuietSteps, QuietStopAll
  DEF Next, Udp, Alarm, Main, StopAll

\* The daemon implements DriveLease, with any number of axes, outputs and
\* stations, any axis table, and whatever fails, from its first instruction.
THEOREM LeaseImplemented == Spec => ImplementsDriveLease
<1>1. Init => Lease!Init
  BY DEF Init, BootLabels, Lease!Init, Threads, Commanding, AcceptedCommand, DriverReady, InSetPPM, InMove, Opening
<1> QED
  BY <1>1, Invariance, LeaseStep, PTL DEF Spec, ImplementsDriveLease, Lease!Spec

=============================================================================
