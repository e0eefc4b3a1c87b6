-------------------------- MODULE BoardStartProofs --------------------------
(***************************************************************************)
(* The daemon from start to start, for every command line, every text and   *)
(* every answer of the server: its telemetry is the telemetry of module     *)
(* Telemetry, so what TelemetryProofs proves holds of it, before the main   *)
(* loop the pipeline agrees with the configuration in all that no command   *)
(* has changed, and the configuration is what its text means.               *)
(***************************************************************************)
EXTENDS BoardStart, TelemetryProofs, SequenceTheorems, WellFoundedInduction

Settings == {"up", "playing", "bitrate", "mtu", "host", "port"}
Complete(g) == g = [f \in Settings |-> g[f]]

\* From the command line to the main loop, and the stages at which each
\* setting of the pipeline has been applied.
Starting ==
  {"config", "bitrate", "mtu", "host", "port", "threads", "outputs"}
BitrateApplied == {"mtu", "host", "port", "threads", "outputs"}
MTUApplied == {"host", "port", "threads", "outputs"}
HostApplied == {"port", "threads", "outputs"}
PortApplied == {"threads", "outputs"}

Set(applied, new, none, old) ==
  IF boot \in applied /\ new # none THEN new ELSE old

\* A configuration that was read names a kind of link.
ConfigInv ==
  /\ boot \in {"start", "exited", "loop"} \cup Starting
  /\ boot \in Starting \ {"config"} => config.wlantype \in WlanTypes

\* A living pipeline has what was applied so far, and the rest from before,
\* except for what the commands have touched.
PipelineInv ==
  /\ Complete(gstd)
  /\ boot # "outputs" => touched = {}
  /\ gstd.up /\ boot = "start" => gstd.playing = FALSE
  /\ gstd.up /\ boot \in Starting =>
       /\ \/ "bitrate" \in touched
          \/ gstd.bitrate = Set(BitrateApplied, config.bitrate, 0, before.bitrate)
       /\ \/ "mtu" \in touched
          \/ gstd.mtu = Set(MTUApplied, config.mtu, 0, before.mtu)
       /\ gstd.port = Set(PortApplied, config.videoport, 0, before.port)
       /\ \/ "host" \in touched
          \/ gstd.host =
               Set(HostApplied, config.initialhost, Loopback, before.host)
       /\ \/ "playing" \in touched
          \/ gstd.playing =
               (\/ boot \in BitrateApplied /\ config.bitrate # 0
                \/ boot \in HostApplied /\ config.initialhost # Loopback)

BoardInv == ConfigInv /\ PipelineInv

-----------------------------------------------------------------------------
(* A configuration text: assignments, the last one of a key counting.       *)

\* Any numbers have a least one.
LEMMA LeastOf ==
  ASSUME NEW S \in SUBSET Nat, S # {}
  PROVE  \E k \in S : \A j \in S : k <= j
<1>1. PICK k \in S : \A j \in S : <<j, k>> \notin OpToRel(<, Nat)
  BY WFMin, NatLessThanWellFounded
<1>2. \A j \in S : k <= j
  <2> TAKE j \in S
  <2>1. ~(<<j, k>> \in OpToRel(<, Nat))
    BY <1>1
  <2>2. j \in Nat /\ k \in Nat /\ ~(j < k)
    BY <2>1 DEF OpToRel
  <2> QED
    BY <2>2
<1> QED
  BY <1>2

\* Some of the first n numbers have a largest one.
LEMMA LargestOf ==
  ASSUME NEW n \in Nat, NEW S \in SUBSET (1 .. n), S # {}
  PROVE  Max(S) \in S /\ \A y \in S : y <= Max(S)
<1> DEFINE Bounds == {m \in Nat : \A y \in S : y <= m}
<1>1. PICK m \in Bounds : \A j \in Bounds : m <= j
  <2>1. n \in Bounds
    OBVIOUS
  <2> HIDE DEF Bounds
  <2> QED
    BY <2>1, LeastOf DEF Bounds
<1>2. m \in S
  <2> SUFFICES ASSUME m \notin S PROVE FALSE
    OBVIOUS
  <2>1. m \in Nat /\ \A y \in S : y \in Nat /\ y <= m /\ y >= 1 /\ y # m
    OBVIOUS
  <2>2. m - 1 \in Nat /\ \A y \in S : y <= m - 1
    <3>1. PICK z \in S : TRUE
      OBVIOUS
    <3>2. m >= 1
      BY <2>1, <3>1
    <3>3. \A y \in S : y <= m - 1
      BY <2>1
    <3> QED
      BY <2>1, <3>2, <3>3
  <2>3. m - 1 \in Bounds
    BY <2>2
  <2>4. ~(m <= m - 1)
    BY <2>1
  <2> QED
    BY <1>1, <2>3, <2>4
<1>3. \E x \in S : \A y \in S : x >= y
  BY <1>2
<1>4. Max(S) \in S /\ \A y \in S : Max(S) >= y
  BY <1>3 DEF Max
<1> QED
  BY <1>4

\* What the lines s of a text make of the defaults d.
Settled(lines, d, s) ==
  [k \in DOMAIN d |-> LET at == {n \in s : lines[n].key = k}
                      IN IF at = {} THEN d[k] ELSE lines[Max(at)].value]

\* One more line at the end.
LEMMA SettledNext ==
  ASSUME NEW lines, NEW d, NEW n \in Nat, NEW s \in SUBSET (1 .. n), s # {}
  PROVE  Settled(lines, d, s) =
           [Settled(lines, d, s \ {Max(s)})
              EXCEPT ![lines[Max(s)].key] = lines[Max(s)].value]
<1> DEFINE x == Max(s)
           rest == s \ {x}
           At(t, k) == {m \in t : lines[m].key = k}
<1>1. x \in s /\ \A y \in s : y <= x
  BY LargestOf
<1> HIDE DEF x
<1>2. ASSUME NEW k, k # lines[x].key
      PROVE  At(s, k) = At(rest, k)
  BY <1>2
<1>3. ASSUME NEW k, k = lines[x].key
      PROVE  At(s, k) # {} /\ Max(At(s, k)) = x
  <2>1. x \in At(s, k) /\ At(s, k) \in SUBSET (1 .. n)
    BY <1>1, <1>3
  <2>2. \A y \in At(s, k) : y <= x
    BY <1>1
  <2> HIDE DEF At
  <2>3. Max(At(s, k)) \in At(s, k) /\ \A y \in At(s, k) : y <= Max(At(s, k))
    BY <2>1, LargestOf
  <2> QED
    BY <2>1, <2>2, <2>3
<1>4. ASSUME NEW k \in DOMAIN d
      PROVE  Settled(lines, d, s)[k] =
               IF k = lines[x].key THEN lines[x].value
               ELSE Settled(lines, d, rest)[k]
  BY <1>2, <1>3 DEF Settled
<1>5. DOMAIN Settled(lines, d, s) = DOMAIN d
      /\ DOMAIN Settled(lines, d, rest) = DOMAIN d
  BY DEF Settled
<1>6. Settled(lines, d, s) = [k \in DOMAIN d |-> Settled(lines, d, s)[k]]
  BY DEF Settled
<1> QED
  BY <1>4, <1>5, <1>6 DEF x

\* Folding a text from the left is settling all of its lines: an induction
\* over them, as a least place where the two differ.
LEMMA AssignedLast ==
  ASSUME NEW lines, NEW n \in Nat, DOMAIN lines = 1 .. n,
         NEW d, d = [k \in DOMAIN d |-> d[k]]
  PROVE  Assigned(lines, d) = Settled(lines, d, 1 .. n)
<1> DEFINE S == 1 .. n
           Fold(h) == [s \in SUBSET S |->
                         IF s = {} THEN d
                         ELSE LET x == Max(s)
                              IN [h[s \ {x}]
                                    EXCEPT ![lines[x].key] = lines[x].value]]
           iter == CHOOSE h : h = Fold(h)
           closed == [s \in SUBSET S |-> Settled(lines, d, s)]
<1>1. Assigned(lines, d) = iter[S]
  BY DEF Assigned, FoldLeft, MapThenFoldSet
<1>2. closed = Fold(closed)
  <2>1. ASSUME NEW s \in SUBSET S
        PROVE  closed[s] = Fold(closed)[s]
    <3>1. CASE s = {}
      BY <3>1 DEF Settled
    <3>2. CASE s # {}
      <4>1. s \ {Max(s)} \in SUBSET S
        OBVIOUS
      <4> QED
        <5>1. closed[s] = Settled(lines, d, s)
              /\ closed[s \ {Max(s)}] = Settled(lines, d, s \ {Max(s)})
          BY <4>1
        <5>2. Settled(lines, d, s) =
                [Settled(lines, d, s \ {Max(s)})
                   EXCEPT ![lines[Max(s)].key] = lines[Max(s)].value]
          BY <3>2, SettledNext
        <5> HIDE DEF closed
        <5>3. Fold(closed)[s] = [closed[s \ {Max(s)}]
                                  EXCEPT ![lines[Max(s)].key] = lines[Max(s)].value]
          BY <3>2
        <5> QED
          BY Zenon, <5>1, <5>2, <5>3
    <3> QED
      BY <3>1, <3>2
  <2> QED
    BY <2>1
<1>3. iter = Fold(iter)
  BY Zenon, <1>2
<1> HIDE DEF iter
<1>4. ASSUME NEW s \in SUBSET S, iter[s] # closed[s]
      PROVE  FALSE
  <2> DEFINE Differ == {m \in 0 .. n : \E t \in SUBSET (1 .. m) : iter[t] # closed[t]}
  <2>1. n \in Differ
    BY <1>4
  <2>2. Differ \in SUBSET Nat
    OBVIOUS
  <2>3. PICK m \in Differ : \A j \in Differ : m <= j
    <3> HIDE DEF Differ
    <3> QED
      BY <2>1, <2>2, LeastOf
  <2>4. PICK t \in SUBSET (1 .. m) : iter[t] # closed[t]
    BY <2>3
  <2>5. m \in 0 .. n /\ t \in SUBSET S
    BY <2>3, <2>4
  <2>6. CASE t = {}
    BY <1>2, <1>3, <2>4, <2>5, <2>6
  <2>7. CASE t # {}
    <3> DEFINE x == Max(t)
    <3>1. x \in t /\ \A y \in t : y <= x
      BY <2>5, <2>7, LargestOf
    <3> HIDE DEF x
    <3>2. m # 0 /\ t \ {x} \in SUBSET (1 .. m - 1)
      BY <2>4, <2>5, <3>1
    <3>3. m - 1 \notin Differ
      <4> HIDE DEF Differ
      <4>1. m \in Nat /\ ~(m <= m - 1)
        BY <2>5
      <4> QED
        BY <2>3, <4>1
    <3>4. iter[t \ {x}] = closed[t \ {x}]
      BY <2>5, <3>2, <3>3
    <3>5. /\ iter[t] = [iter[t \ {x}] EXCEPT ![lines[x].key] = lines[x].value]
          /\ closed[t] = [closed[t \ {x}] EXCEPT ![lines[x].key] = lines[x].value]
      BY <1>2, <1>3, <2>5, <2>7 DEF x
    <3> QED
      BY <2>4, <3>4, <3>5
  <2> QED
    BY <2>6, <2>7
<1>5. S \in SUBSET S
  OBVIOUS
<1> QED
  BY <1>1, <1>4, <1>5

\* A text without an error is read to its end, and any text sets every key.
LEMMA ParsedText ==
  ASSUME NEW lines, lines \in Seq(ToSet(lines))
  PROVE  /\ (\A n \in DOMAIN lines : lines[n] # SyntaxError) =>
              Parsed(lines) = lines
         /\ \E n \in Nat : DOMAIN Parsed(lines) = 1 .. n
<1> DEFINE errors == {n \in DOMAIN lines : lines[n] = SyntaxError}
<1>1. Len(lines) \in Nat /\ DOMAIN lines = 1 .. Len(lines)
  BY LenProperties
<1>2. CASE errors = {}
  BY <1>1, <1>2 DEF Parsed
<1>3. CASE errors # {}
  <2> DEFINE first == CHOOSE n \in errors : \A m \in errors : n <= m
  <2>1. first \in errors
    <3>1. errors \in SUBSET Nat
      BY <1>1
    <3> HIDE DEF errors
    <3> QED
      BY <1>3, <3>1, LeastOf
  <2>2. first \in 1 .. Len(lines)
    BY <1>1, <2>1
  <2>3. Parsed(lines) = SubSeq(lines, 1, first - 1)
    BY <1>3 DEF Parsed
  <2> HIDE DEF first
  <2>4. DOMAIN SubSeq(lines, 1, first - 1) = 1 .. first - 1
    BY <1>1, <2>2
  <2> QED
    BY <1>3, <2>2, <2>3, <2>4
<1> QED
  BY <1>2, <1>3

LEMMA OptsFunction == opts = [k \in DOMAIN opts |-> opts[k]] /\ DOMAIN opts = Key
BY DEF opts, Key

LEMMA ConfiguredKeys ==
  ASSUME NEW lines, lines \in Seq(ToSet(lines))
  PROVE  DOMAIN Configured(lines) = Key
<1>1. PICK n \in Nat : DOMAIN Parsed(lines) = 1 .. n
  BY ParsedText
<1>2. Assigned(Parsed(lines), opts) = Settled(Parsed(lines), opts, 1 .. n)
  BY <1>1, AssignedLast, OptsFunction
<1>3. DOMAIN Assigned(Parsed(lines), opts) = Key
  BY <1>2, OptsFunction DEF Settled
<1> QED
  BY <1>3 DEF Configured

\* A text that is whole sets each key as its last line for it says, and leaves
\* the others to their defaults.
LEMMA TextAsMeant ==
  ASSUME NEW lines, lines \in Seq(ToSet(lines)),
         \A n \in DOMAIN lines : lines[n] # SyntaxError,
         \A k \in Quoted : \E n \in DOMAIN lines : lines[n].key = k,
         NEW k \in Key
  PROVE  LET at == {n \in DOMAIN lines : lines[n].key = k}
         IN Assigned(Parsed(lines), opts)[k] =
              IF at = {} THEN Meant[k]
              ELSE lines[CHOOSE n \in at : \A m \in at : m <= n].value
<1> DEFINE n == Len(lines)
           at == {m \in 1 .. n : lines[m].key = k}
<1>1. n \in Nat /\ DOMAIN lines = 1 .. n
  BY LenProperties
<1>2. Assigned(Parsed(lines), opts) = Settled(lines, opts, 1 .. n)
  <2>1. Parsed(lines) = lines
    BY ParsedText
  <2> QED
    BY <1>1, <2>1, AssignedLast, OptsFunction
<1>3. Settled(lines, opts, 1 .. n)[k] =
        IF at = {} THEN opts[k] ELSE lines[Max(at)].value
  BY OptsFunction DEF Settled
<1>4. at = {} => opts[k] = Meant[k]
  <2>1. at = {} => k \notin Quoted
    BY <1>1
  <2> QED
    BY <2>1 DEF opts, Meant, Quoted, Key
<1>5. at # {} => (CHOOSE m \in at : \A j \in at : j <= m) = Max(at)
  <2> SUFFICES ASSUME at # {}
      PROVE  (CHOOSE m \in at : \A j \in at : j <= m) = Max(at)
    OBVIOUS
  <2>1. at \in SUBSET (1 .. n)
    OBVIOUS
  <2>2. \A m \in at : m \in Nat
    BY <1>1
  <2> HIDE DEF at, n
  <2>3. Max(at) \in at /\ \A j \in at : j <= Max(at)
    BY <1>1, <2>1, LargestOf
  <2> DEFINE last == CHOOSE m \in at : \A j \in at : j <= m
  <2>4. last \in at /\ \A j \in at : j <= last
    BY <2>3
  <2> HIDE DEF last
  <2>5. last = Max(at)
    BY <2>2, <2>3, <2>4
  <2> QED
    BY <2>5 DEF last
<1> QED
  BY <1>1, <1>2, <1>3, <1>4, <1>5

-----------------------------------------------------------------------------
(* The configuration.                                                       *)

LEMMA ConfigStep == ConfigInv /\ [BoardNext]_boardVars => ConfigInv'
<1> SUFFICES ASSUME ConfigInv, [BoardNext]_boardVars PROVE ConfigInv'
  OBVIOUS
<1>1. CASE LoadLocal
  <2>1. PICK file \in Texts : config' = WithVerbose(Configured(file))
    BY <1>1 DEF LoadLocal
  <2>2. /\ DOMAIN Configured(file) = Key
        /\ Configured(file).wlantype \in WlanTypes
    BY TextsAssumption, ConfiguredKeys
  <2>3. config'.wlantype \in WlanTypes
    BY <2>1, <2>2 DEF WithVerbose, Key
  <2> QED BY <1>1, <2>3 DEF LoadLocal, Going, ConfigInv, Starting
<1>2. CASE LoadRemote
  <2>1. PICK chunks \in Replies :
          \/ /\ chunks = <<>> /\ Going("config", "exited")
             /\ config' = config
          \/ /\ chunks # <<>> /\ Going("config", "bitrate")
             /\ config' = WithVerbose(Configured(Loaded(chunks)))
    BY <1>2 DEF LoadRemote
  <2>2. CASE chunks = <<>>
    BY <2>1, <2>2 DEF Going, ConfigInv, Starting
  <2>3. CASE chunks # <<>>
    <3>1. /\ DOMAIN Configured(Loaded(chunks)) = Key
          /\ Configured(Loaded(chunks)).wlantype \in WlanTypes
      BY <2>1, <2>3, TextsAssumption, ConfiguredKeys
    <3>2. config'.wlantype \in WlanTypes
      BY <2>1, <2>3, <3>1 DEF WithVerbose, Key
    <3> QED BY <2>1, <2>3, <3>2 DEF Going, ConfigInv, Starting
  <2> QED BY <2>2, <2>3
<1>3. CASE ParseCmdline
  BY <1>3 DEF ParseCmdline, Going, ConfigInv, Starting
<1>4. CASE \/ ApplyBitrate \/ SetMTU \/ InitialPlayStreamTo \/ SetVideoPort
           \/ StartThreads \/ StreamCommand \/ OpenOutputs \/ EndProcess
           \/ RunSh \/ GstdDies
  BY <1>4 DEF ApplyBitrate, SetMTU, InitialPlayStreamTo, SetVideoPort,
              StartThreads, StreamCommand, OpenOutputs, EndProcess, RunSh, GstdDies, Apply,
              Going, ConfigInv, Starting
<1>5. CASE Run \/ UNCHANGED boardVars
  BY <1>5 DEF Run, boardVars, bootVars, ConfigInv
<1> QED BY <1>1, <1>2, <1>3, <1>4, <1>5 DEF BoardNext

-----------------------------------------------------------------------------
(* The pipeline.                                                            *)

\* A setting that is changed changes no other.
LEMMA ChangeOne ==
  ASSUME NEW g, Complete(g), NEW x \in Settings, NEW v
  PROVE  /\ Complete([g EXCEPT ![x] = v])
         /\ \A f \in Settings :
              [g EXCEPT ![x] = v][f] = IF f = x THEN v ELSE g[f]
BY DEF Complete

\* Nothing is applied without gstd, and what is applied is one change.
LEMMA ApplyOne ==
  ASSUME Complete(gstd), NEW x \in Settings \ {"up"}, NEW v,
         Apply([gstd EXCEPT ![x] = v])
  PROVE  /\ Complete(gstd') /\ gstd'.up = gstd.up
         /\ gstd.up => \A f \in Settings :
                         gstd'[f] = IF f = x THEN v ELSE gstd[f]
         /\ UNCHANGED <<argv, config, text, before>>
<1>1. /\ gstd' = IF gstd.up THEN [gstd EXCEPT ![x] = v] ELSE gstd
      /\ UNCHANGED <<argv, config, text, before>>
  BY DEF Apply
<1>2. /\ Complete([gstd EXCEPT ![x] = v])
      /\ \A f \in Settings :
           [gstd EXCEPT ![x] = v][f] = IF f = x THEN v ELSE gstd[f]
  BY ChangeOne
<1>3. CASE gstd.up
  BY <1>1, <1>2, <1>3 DEF Settings
<1>4. CASE ~gstd.up
  BY <1>1, <1>4
<1> QED BY <1>3, <1>4, <1>1

\* Two at once: a value and the state of the pipeline.
LEMMA ApplyTwo ==
  ASSUME Complete(gstd), NEW x \in Settings \ {"up", "playing"}, NEW v,
         Apply([gstd EXCEPT ![x] = v, !.playing = TRUE])
  PROVE  /\ Complete(gstd') /\ gstd'.up = gstd.up
         /\ gstd.up =>
              /\ gstd'.playing = TRUE
              /\ \A f \in Settings \ {"playing"} :
                   gstd'[f] = IF f = x THEN v ELSE gstd[f]
         /\ UNCHANGED <<argv, config, text, before>>
<1>1. /\ gstd' = IF gstd.up THEN [gstd EXCEPT ![x] = v, !.playing = TRUE]
                 ELSE gstd
      /\ UNCHANGED <<argv, config, text, before>>
  BY DEF Apply
<1>2. /\ Complete([gstd EXCEPT ![x] = v, !.playing = TRUE])
      /\ \A f \in Settings :
           [gstd EXCEPT ![x] = v, !.playing = TRUE][f] =
             IF f = "playing" THEN TRUE ELSE IF f = x THEN v ELSE gstd[f]
  BY DEF Complete, Settings
<1>3. CASE gstd.up
  BY <1>1, <1>2, <1>3 DEF Settings
<1>4. CASE ~gstd.up
  BY <1>1, <1>4
<1> QED BY <1>1, <1>3, <1>4

LEMMA NowhereFacts ==
  /\ Complete(Nowhere) /\ Nowhere.playing = FALSE
  /\ Complete([Nowhere EXCEPT !.up = FALSE])
  /\ [Nowhere EXCEPT !.up = FALSE].up = FALSE
<1>1. Complete(Nowhere) /\ Nowhere.playing = FALSE
  BY DEF Complete, Nowhere, Settings
<1> QED BY <1>1, ChangeOne DEF Settings

LEMMA ApplyBitrateStep ==
  ASSUME PipelineInv, ApplyBitrate
  PROVE  PipelineInv'
<1>1. boot = "bitrate" /\ boot' = "mtu" /\ touched = {} /\ touched' = {}
  BY DEF ApplyBitrate, Going, PipelineInv
<1>2. CASE config.bitrate = 0
  <2>1. UNCHANGED <<gstd, config, before>>
    BY <1>2 DEF ApplyBitrate, Apply
  <2> QED BY <1>1, <1>2, <2>1
          DEF PipelineInv, Set, Starting, BitrateApplied, MTUApplied,
              HostApplied, PortApplied
<1>3. CASE config.bitrate # 0
  <2>1. Apply([gstd EXCEPT !["bitrate"] = config.bitrate, !.playing = TRUE])
    BY <1>3 DEF ApplyBitrate, WithBitrate
  <2>2. "bitrate" \in Settings \ {"up", "playing"}
    BY DEF Settings
  <2>3. /\ Complete(gstd') /\ gstd'.up = gstd.up
        /\ gstd.up =>
             /\ gstd'.playing = TRUE
             /\ \A f \in Settings \ {"playing"} :
                  gstd'[f] = IF f = "bitrate" THEN config.bitrate ELSE gstd[f]
        /\ UNCHANGED <<config, before>>
    BY <2>1, <2>2, ApplyTwo DEF PipelineInv
  <2> QED BY <1>1, <1>3, <2>3
          DEF PipelineInv, Set, Starting, Settings, BitrateApplied,
              MTUApplied, HostApplied, PortApplied
<1> QED BY <1>2, <1>3

LEMMA SetMTUStep ==
  ASSUME PipelineInv, SetMTU
  PROVE  PipelineInv'
<1>1. boot = "mtu" /\ boot' = "host" /\ touched = {} /\ touched' = {}
  BY DEF SetMTU, Going, PipelineInv
<1>2. CASE config.mtu = 0
  <2>1. UNCHANGED <<gstd, config, before>>
    BY <1>2 DEF SetMTU, Apply
  <2> QED BY <1>1, <1>2, <2>1
          DEF PipelineInv, Set, Starting, BitrateApplied, MTUApplied,
              HostApplied, PortApplied
<1>3. CASE config.mtu # 0
  <2>1. Apply([gstd EXCEPT !["mtu"] = config.mtu])
    BY <1>3 DEF SetMTU
  <2>2. "mtu" \in Settings \ {"up"}
    BY DEF Settings
  <2>3. /\ Complete(gstd') /\ gstd'.up = gstd.up
        /\ gstd.up => \A f \in Settings :
             gstd'[f] = IF f = "mtu" THEN config.mtu ELSE gstd[f]
        /\ UNCHANGED <<config, before>>
    BY <2>1, <2>2, ApplyOne DEF PipelineInv
  <2> QED BY <1>1, <1>3, <2>3
          DEF PipelineInv, Set, Starting, Settings, BitrateApplied,
              MTUApplied, HostApplied, PortApplied
<1> QED BY <1>2, <1>3

LEMMA InitialPlayStreamToStep ==
  ASSUME PipelineInv, InitialPlayStreamTo
  PROVE  PipelineInv'
<1>1. boot = "host" /\ boot' = "port" /\ touched = {} /\ touched' = {}
  BY DEF InitialPlayStreamTo, Going, PipelineInv
<1>2. CASE config.initialhost = Loopback
  <2>1. UNCHANGED <<gstd, config, before>>
    BY <1>2 DEF InitialPlayStreamTo, Apply
  <2> QED BY <1>1, <1>2, <2>1
          DEF PipelineInv, Set, Starting, BitrateApplied, MTUApplied,
              HostApplied, PortApplied
<1>3. CASE config.initialhost # Loopback
  <2>1. Apply([gstd EXCEPT !["host"] = config.initialhost, !.playing = TRUE])
    BY <1>3 DEF InitialPlayStreamTo, Streaming
  <2>2. "host" \in Settings \ {"up", "playing"}
    BY DEF Settings
  <2>3. /\ Complete(gstd') /\ gstd'.up = gstd.up
        /\ gstd.up =>
             /\ gstd'.playing = TRUE
             /\ \A f \in Settings \ {"playing"} :
                  gstd'[f] = IF f = "host" THEN config.initialhost ELSE gstd[f]
        /\ UNCHANGED <<config, before>>
    BY <2>1, <2>2, ApplyTwo DEF PipelineInv
  <2> QED BY <1>1, <1>3, <2>3
          DEF PipelineInv, Set, Starting, Settings, BitrateApplied,
              MTUApplied, HostApplied, PortApplied
<1> QED BY <1>2, <1>3

LEMMA SetVideoPortStep ==
  ASSUME PipelineInv, SetVideoPort
  PROVE  PipelineInv'
<1>1. boot = "port" /\ boot' = "threads" /\ touched = {} /\ touched' = {}
  BY DEF SetVideoPort, Going, PipelineInv
<1>2. CASE config.videoport = 0
  <2>1. UNCHANGED <<gstd, config, before>>
    BY <1>2 DEF SetVideoPort, Apply
  <2> QED BY <1>1, <1>2, <2>1
          DEF PipelineInv, Set, Starting, BitrateApplied, MTUApplied,
              HostApplied, PortApplied
<1>3. CASE config.videoport # 0
  <2>1. Apply([gstd EXCEPT !["port"] = config.videoport])
    BY <1>3 DEF SetVideoPort
  <2>2. "port" \in Settings \ {"up"}
    BY DEF Settings
  <2>3. /\ Complete(gstd') /\ gstd'.up = gstd.up
        /\ gstd.up => \A f \in Settings :
             gstd'[f] = IF f = "port" THEN config.videoport ELSE gstd[f]
        /\ UNCHANGED <<config, before>>
    BY <2>1, <2>2, ApplyOne DEF PipelineInv
  <2> QED BY <1>1, <1>3, <2>3
          DEF PipelineInv, Set, Starting, Settings, BitrateApplied,
              MTUApplied, HostApplied, PortApplied
<1> QED BY <1>2, <1>3

\* A command before the main loop changes what it touches, and no more.
LEMMA CommandStep ==
  ASSUME PipelineInv, StreamCommand
  PROVE  PipelineInv'
<1>1. boot = "outputs" /\ boot' = "outputs"
  BY DEF StreamCommand, Going
<1>2. ASSUME NEW x \in Settings \ {"up", "playing", "port"}, NEW v,
             Apply([gstd EXCEPT ![x] = v, !.playing = TRUE]),
             touched' = touched \cup {x, "playing"}
      PROVE  PipelineInv'
  <2>1. /\ Complete(gstd') /\ gstd'.up = gstd.up
        /\ gstd.up => \A f \in Settings \ {"playing"} :
                        gstd'[f] = IF f = x THEN v ELSE gstd[f]
        /\ UNCHANGED <<config, before>>
    BY <1>2, ApplyTwo DEF PipelineInv
  <2> QED BY <1>1, <1>2, <2>1
          DEF PipelineInv, Set, Starting, Settings, BitrateApplied,
              MTUApplied, HostApplied, PortApplied
<1>3. ASSUME NEW x \in {"mtu", "playing"}, NEW v,
             Apply([gstd EXCEPT ![x] = v]), touched' = touched \cup {x}
      PROVE  PipelineInv'
  <2>1. /\ Complete(gstd') /\ gstd'.up = gstd.up
        /\ gstd.up => \A f \in Settings :
                        gstd'[f] = IF f = x THEN v ELSE gstd[f]
        /\ UNCHANGED <<config, before>>
    BY <1>3, ApplyOne DEF PipelineInv, Settings
  <2> QED BY <1>1, <1>3, <2>1
          DEF PipelineInv, Set, Starting, Settings, BitrateApplied,
              MTUApplied, HostApplied, PortApplied
<1>4. CASE \E rate \in Rates : /\ Apply(WithBitrate(gstd, rate))
                               /\ touched' = touched \cup {"bitrate", "playing"}
  <2>1. PICK rate \in Rates :
          /\ Apply([gstd EXCEPT !["bitrate"] = rate, !.playing = TRUE])
          /\ touched' = touched \cup {"bitrate", "playing"}
    BY <1>4 DEF WithBitrate
  <2> QED BY <1>2, <2>1 DEF Settings
<1>5. CASE \E mtu \in MTUs : /\ Apply([gstd EXCEPT !["mtu"] = mtu])
                             /\ touched' = touched \cup {"mtu"}
  BY <1>3, <1>5
<1>6. CASE \E host \in Hosts : /\ Apply(Streaming(gstd, host))
                               /\ touched' = touched \cup {"host", "playing"}
  <2>1. PICK host \in Hosts :
          /\ Apply([gstd EXCEPT !["host"] = host, !.playing = TRUE])
          /\ touched' = touched \cup {"host", "playing"}
    BY <1>6 DEF Streaming
  <2> QED BY <1>2, <2>1 DEF Settings
<1>7. CASE /\ Apply([gstd EXCEPT !["playing"] = FALSE])
           /\ touched' = touched \cup {"playing"}
  BY <1>3, <1>7
<1> QED BY <1>4, <1>5, <1>6, <1>7 DEF StreamCommand

\* What a running process does to the pipeline, the script's pause, and the
\* end of gstd.
LEMMA OutsideStep ==
  ASSUME PipelineInv, EndProcess \/ RunSh \/ GstdDies
  PROVE  PipelineInv'
<1>1. CASE EndProcess
  <2>1. boot' = "exited" /\ touched' = {}
    BY <1>1 DEF EndProcess, PipelineInv
  <2>2. PICK host \in Hosts \cup {gstd.host}, rate \in Rates \cup {gstd.bitrate},
             mtu \in MTUs \cup {gstd.mtu}, playing \in BOOLEAN :
          Apply([gstd EXCEPT !.host = host, !.bitrate = rate, !.mtu = mtu,
                             !.playing = playing])
    BY <1>1 DEF EndProcess
  <2> DEFINE one == [gstd EXCEPT !["host"] = host]
             two == [one EXCEPT !["bitrate"] = rate]
             three == [two EXCEPT !["mtu"] = mtu]
             four == [three EXCEPT !["playing"] = playing]
  <2>3. gstd' = IF gstd.up THEN four ELSE gstd
    BY <2>2 DEF Apply
  <2>4. Complete(one)
    BY ChangeOne DEF PipelineInv, Settings
  <2> HIDE DEF one
  <2>5. Complete(two)
    BY <2>4, ChangeOne DEF Settings
  <2> HIDE DEF two
  <2>6. Complete(three)
    BY <2>5, ChangeOne DEF Settings
  <2> HIDE DEF three
  <2>7. Complete(four)
    BY <2>6, ChangeOne DEF Settings
  <2> HIDE DEF four
  <2> QED BY <2>1, <2>3, <2>7 DEF PipelineInv, Starting
<1>2. CASE RunSh
  <2>1. /\ boot' = "start" /\ touched' = {}
        /\ Apply([gstd EXCEPT !["playing"] = FALSE])
    BY <1>2 DEF RunSh, Going, PipelineInv
  <2>2. /\ Complete(gstd') /\ gstd'.up = gstd.up
        /\ gstd.up => gstd'.playing = FALSE
    BY <2>1, ApplyOne DEF PipelineInv, Settings
  <2> QED BY <2>1, <2>2 DEF PipelineInv, Starting
<1>3. CASE GstdDies
  <2>1. /\ gstd' = [Nowhere EXCEPT !.up = FALSE]
        /\ UNCHANGED <<boot, touched>>
    BY <1>3 DEF GstdDies, history
  <2> QED BY <2>1, NowhereFacts DEF PipelineInv
<1> QED BY <1>1, <1>2, <1>3

LEMMA PipelineStep == PipelineInv /\ [BoardNext]_boardVars => PipelineInv'
<1> SUFFICES ASSUME PipelineInv, [BoardNext]_boardVars PROVE PipelineInv'
  OBVIOUS
<1>1. CASE ParseCmdline
  <2>1. /\ boot = "start" /\ boot' \in {"exited", "config"}
        /\ before' = gstd /\ gstd' = gstd /\ touched = {} /\ touched' = {}
    BY <1>1 DEF ParseCmdline, Going, PipelineInv
  <2> QED BY <2>1 DEF PipelineInv, Set, Starting, BitrateApplied, MTUApplied,
                      HostApplied, PortApplied
<1>2. CASE LoadLocal \/ LoadRemote
  <2>1. /\ boot = "config" /\ boot' \in {"exited", "bitrate"}
        /\ UNCHANGED <<gstd, before>> /\ touched = {} /\ touched' = {}
    BY <1>2 DEF LoadLocal, LoadRemote, Going, PipelineInv
  <2> QED BY <2>1 DEF PipelineInv, Set, Starting, BitrateApplied, MTUApplied,
                      HostApplied, PortApplied
<1>3. CASE StartThreads
  <2>1. /\ boot = "threads" /\ boot' \in {"exited", "outputs"}
        /\ UNCHANGED <<gstd, config, before>> /\ touched = {} /\ touched' = {}
    BY <1>3 DEF StartThreads, Going, history, PipelineInv
  <2> QED BY <2>1 DEF PipelineInv, Set, Starting, BitrateApplied, MTUApplied,
                      HostApplied, PortApplied
<1>4. CASE OpenOutputs
  <2>1. boot' \in {"exited", "loop"} /\ UNCHANGED gstd /\ touched' = {}
    BY <1>4 DEF OpenOutputs, Going
  <2> QED BY <2>1 DEF PipelineInv, Starting
<1>5. CASE Run \/ UNCHANGED boardVars
  <2>1. UNCHANGED <<boot, config, gstd, before, touched>>
    BY <1>5 DEF Run, boardVars, bootVars, history
  <2> QED BY <2>1 DEF PipelineInv, Set
<1> QED BY <1>1, <1>2, <1>3, <1>4, <1>5, ApplyBitrateStep, SetMTUStep,
           InitialPlayStreamToStep, SetVideoPortStep, CommandStep, OutsideStep
        DEF BoardNext

-----------------------------------------------------------------------------
(* The telemetry.                                                           *)

LEMMA TelemetryStep ==
  ConfigInv /\ [BoardNext]_boardVars => [TelemetryNext]_vars
<1> SUFFICES ASSUME ConfigInv, [BoardNext]_boardVars
             PROVE  TelemetryNext \/ UNCHANGED vars
  OBVIOUS
<1>1. CASE Run
  BY <1>1 DEF Run, TelemetryNext
<1>2. CASE EndProcess
  BY <1>2 DEF EndProcess, TelemetryNext
<1>3. CASE OpenOutputs
  <2>1. CASE Going("outputs", "exited")
    BY <2>1 DEF Going
  <2>2. CASE boot = "outputs" /\ Start(config.wlantype)
    <3>1. config.wlantype \in WlanTypes
      BY <2>2 DEF ConfigInv, Starting
    <3> QED BY <2>2, <3>1 DEF TelemetryNext
  <2> QED BY <1>3, <2>1, <2>2 DEF OpenOutputs
<1>4. CASE \/ ParseCmdline \/ LoadLocal \/ LoadRemote \/ ApplyBitrate
           \/ SetMTU \/ InitialPlayStreamTo \/ SetVideoPort \/ StartThreads
           \/ StreamCommand \/ RunSh \/ GstdDies
  BY <1>4 DEF ParseCmdline, LoadLocal, LoadRemote, ApplyBitrate, SetMTU,
              InitialPlayStreamTo, SetVideoPort, StartThreads, StreamCommand, RunSh,
              GstdDies, Going
<1>5. CASE UNCHANGED boardVars
  BY <1>5 DEF boardVars
<1> QED BY <1>1, <1>2, <1>3, <1>4, <1>5 DEF BoardNext

-----------------------------------------------------------------------------
(* The theorems.                                                            *)

LEMMA BoardInvariance == BoardSpec => []BoardInv
<1>1. BoardInit => BoardInv
  <2>1. BoardInit => ConfigInv
    BY DEF BoardInit, ConfigInv, Starting
  <2>2. BoardInit => PipelineInv
    BY NowhereFacts DEF BoardInit, PipelineInv, Starting
  <2> QED BY <2>1, <2>2 DEF BoardInv
<1>2. BoardInv /\ [BoardNext]_boardVars => BoardInv'
  BY ConfigStep, PipelineStep DEF BoardInv
<1> QED BY <1>1, <1>2, PTL DEF BoardSpec

\* The telemetry of a daemon that is configured, started, ended and started
\* again is that of module Telemetry: every step of the board is one of its
\* steps or leaves it alone (main of rcboard.c).
THEOREM TelemetryImplemented == BoardSpec => TelemetrySpec
<1>1. BoardInit => TelemetryInit
  BY DEF BoardInit
<1>2. BoardInv /\ [BoardNext]_boardVars => [TelemetryNext]_vars
  BY TelemetryStep DEF BoardInv
<1> QED BY <1>1, <1>2, BoardInvariance, PTL DEF BoardSpec, TelemetrySpec

\* Hence, for every configuration: no field of the status is sent twice and
\* nothing stale with it, over every sequence of processes (SendSignalStatus).
THEOREM BoardTelemetry ==
  BoardSpec => [](TelemetryTypeOK /\ SentAtMostOnce /\ NothingStale)
BY TelemetryImplemented, TelemetryTypes, SentOnce, NothingStaleSent, PTL

\* For every text, answer and command line, and whatever the process before
\* left in gstd: until the main loop, a living pipeline has what is configured,
\* and what is left open as it was, in every setting that no command of the
\* already running UDP thread has changed (main, SetBitrate, PlayStreamTo).
THEOREM StartReapplies == BoardSpec => []RestartReapplies
<1>1. PipelineInv => RestartReapplies
  <2> SUFFICES ASSUME PipelineInv, boot \in {"threads", "outputs"}, gstd.up
               PROVE  RestartReapplies
    BY DEF RestartReapplies
  <2>1. /\ boot \in Starting /\ boot \in BitrateApplied
        /\ boot \in MTUApplied /\ boot \in HostApplied
        /\ boot \in PortApplied
    BY DEF Starting, BitrateApplied, MTUApplied, HostApplied, PortApplied
  <2> QED BY <2>1 DEF PipelineInv, RestartReapplies, Set
<1>2. BoardInv => RestartReapplies
  BY <1>1 DEF BoardInv
<1> QED BY <1>2, BoardInvariance, PTL

\* What load_config leaves in config when the settings are about to be applied.
LEMMA LoadedText ==
  ASSUME [BoardNext]_boardVars, boot # "bitrate", boot' = "bitrate",
         Len(text') = 1
  PROVE  /\ text'[1] \in Seq(ToSet(text'[1]))
         /\ config' = WithVerbose(Configured(text'[1]))
         /\ UNCHANGED argv
<1>1. CASE LoadLocal
  BY <1>1, TextsAssumption DEF LoadLocal
<1>2. CASE LoadRemote
  <2>1. PICK chunks \in Replies :
          /\ text' = chunks
          /\ \/ /\ chunks = <<>> /\ Going("config", "exited")
                /\ config' = config
             \/ /\ chunks # <<>> /\ Going("config", "bitrate")
                /\ config' = WithVerbose(Configured(Loaded(chunks)))
    BY <1>2 DEF LoadRemote
  <2>2. /\ chunks # <<>> /\ config' = WithVerbose(Configured(Loaded(chunks)))
        /\ UNCHANGED argv
    BY <1>2, <2>1 DEF Going, LoadRemote
  <2>3. Loaded(chunks) = text'[1]
    BY <2>1 DEF Loaded
  <2>4. Loaded(chunks) \in Seq(ToSet(Loaded(chunks)))
    BY <2>2, TextsAssumption
  <2> QED
    BY <2>2, <2>3, <2>4
<1>3. CASE \/ ParseCmdline \/ ApplyBitrate \/ SetMTU \/ InitialPlayStreamTo
           \/ SetVideoPort \/ StartThreads \/ StreamCommand \/ OpenOutputs
           \/ EndProcess \/ RunSh \/ GstdDies \/ Run \/ UNCHANGED boardVars
  BY <1>3 DEF ParseCmdline, ApplyBitrate, SetMTU, InitialPlayStreamTo,
              SetVideoPort, StartThreads, StreamCommand, OpenOutputs,
              EndProcess, RunSh, GstdDies, Run, Going, boardVars, bootVars
<1> QED
  BY <1>1, <1>2, <1>3 DEF BoardNext

\* Nothing but load_config has to do with it before they are applied.
LEMMA StillLoaded ==
  ASSUME [BoardNext]_boardVars, boot = "bitrate", boot' = "bitrate"
  PROVE  UNCHANGED <<text, config, argv>>
BY DEF BoardNext, ParseCmdline, LoadLocal, LoadRemote, ApplyBitrate, SetMTU,
       InitialPlayStreamTo, SetVideoPort, StartThreads, StreamCommand, OpenOutputs,
       EndProcess, RunSh, GstdDies, Run, Apply, Going, boardVars, bootVars, history

\* What the text says for a key: its last assignment, or what is meant.
Intends(lines, k) ==
  LET at == {n \in DOMAIN lines : lines[n].key = k}
  IN IF k \in {lines[n].key : n \in DOMAIN lines}
     THEN lines[CHOOSE n \in at : \A m \in at : m <= n].value
     ELSE Meant[k]

\* A text is read as ReadAsMeant asks.
LEMMA TextRead ==
  ASSUME NEW lines, lines \in Seq(ToSet(lines)),
         "error" \notin {lines[n].key : n \in DOMAIN lines},
         Quoted \subseteq {lines[n].key : n \in DOMAIN lines}
  PROVE  LET c == WithVerbose(Configured(lines))
         IN /\ \A k \in Key \ {"role", "verbose"} : c[k] = Intends(lines, k)
            /\ c.role = 1 <=> Intends(lines, "role") = "client"
            /\ c.verbose = 0 => /\ Intends(lines, "verbose") = 0
                                /\ ~parse_cmdline(argv).verbose
<1> DEFINE cfg == Assigned(Parsed(lines), opts)
           c == WithVerbose(Configured(lines))
<1>1. \A n \in DOMAIN lines : lines[n] # SyntaxError
  BY DEF SyntaxError
<1>2. \A k \in Quoted : \E n \in DOMAIN lines : lines[n].key = k
  OBVIOUS
<1>3. \A k \in Key : cfg[k] = Intends(lines, k)
  <2> TAKE k \in Key
  <2> DEFINE at == {n \in DOMAIN lines : lines[n].key = k}
  <2>1. cfg[k] = IF at = {} THEN Meant[k]
                 ELSE lines[CHOOSE n \in at : \A m \in at : m <= n].value
    BY Zenon, <1>1, <1>2, TextAsMeant
  <2>2. at = {} <=> k \notin {lines[n].key : n \in DOMAIN lines}
    OBVIOUS
  <2> HIDE DEF cfg
  <2> QED
    BY Zenon, <2>1, <2>2 DEF Intends
<1>4. Configured(lines) = [cfg EXCEPT !.role = Role(@)]
  BY DEF Configured
<1>5. DOMAIN Configured(lines) = Key
  BY ConfiguredKeys
<1> HIDE DEF cfg
<1>6. DOMAIN cfg = Key
  BY <1>4, <1>5
<1>7. /\ \A k \in Key \ {"role", "verbose"} : c[k] = cfg[k]
      /\ c.role = Role(cfg.role)
      /\ c.verbose = IF parse_cmdline(argv).verbose THEN 1 ELSE cfg.verbose
  BY <1>4, <1>5, <1>6 DEF WithVerbose, Key
<1> HIDE DEF c
<1>8. "role" \in Key /\ "verbose" \in Key
  BY DEF Key
<1>9. c.role = 1 <=> cfg.role = "client"
  BY <1>7 DEF Role
<1>10. c.verbose = 0 => cfg.verbose = 0 /\ ~parse_cmdline(argv).verbose
  BY <1>7
<1> QED
  BY Zenon, <1>3, <1>7, <1>8, <1>9, <1>10 DEF c

\* ReadAsMeant of one answer, configuration and command line.
RightlyRead(chunks, c, args) ==
  LET whole == chunks[1]
      keys == {whole[n].key : n \in DOMAIN whole}
  IN Len(chunks) = 1 /\ "error" \notin keys /\ Quoted \subseteq keys =>
       /\ \A k \in Key \ {"role", "verbose"} : c[k] = Intends(whole, k)
       /\ c.role = 1 <=> Intends(whole, "role") = "client"
       /\ c.verbose = 0 =>
            Intends(whole, "verbose") = 0 /\ "v" \notin ToSet(args)

\* Whatever the texts and the answers of the server: one that came in one
\* piece, has no error and sets the five numbers is read as it was meant
\* (load_config, curlParser).
THEOREM ConfigurationRead == BoardSpec => []ReadAsMeant
<1> DEFINE Inv == boot = "bitrate" => RightlyRead(text, config, argv)
<1>1. BoardInit => Inv
  BY DEF BoardInit
<1>2. Inv /\ [BoardNext]_boardVars => Inv'
  <2> SUFFICES ASSUME Inv, [BoardNext]_boardVars PROVE Inv'
    OBVIOUS
  <2>1. CASE boot = "bitrate" /\ boot' = "bitrate"
    <3>1. text' = text /\ config' = config /\ argv' = argv
      BY <2>1, StillLoaded
    <3> QED
      BY Zenon, <2>1, <3>1
  <2>2. CASE boot' # "bitrate"
    BY <2>2
  <2>3. CASE boot # "bitrate" /\ boot' = "bitrate"
    <3> DEFINE whole == text'[1]
               keys == {whole[n].key : n \in DOMAIN whole}
    <3>1. SUFFICES ASSUME Len(text') = 1, "error" \notin keys,
                          Quoted \subseteq keys
          PROVE  /\ \A k \in Key \ {"role", "verbose"} :
                      config'[k] = Intends(whole, k)
                 /\ config'.role = 1 <=> Intends(whole, "role") = "client"
                 /\ config'.verbose = 0 =>
                      /\ Intends(whole, "verbose") = 0
                      /\ "v" \notin ToSet(argv')
      BY Zenon DEF RightlyRead
    <3>2. /\ whole \in Seq(ToSet(whole))
          /\ config' = WithVerbose(Configured(whole))
          /\ UNCHANGED argv
      BY Zenon, <2>3, <3>1, LoadedText
    <3>3. parse_cmdline(argv).verbose <=> "v" \in ToSet(argv)
      BY DEF parse_cmdline
    <3> HIDE DEF whole
    <3> QED
      BY Zenon, <3>1, <3>2, <3>3, TextRead
  <2> QED
    BY <2>1, <2>2, <2>3
<1>3. Inv => ReadAsMeant
  BY Zenon DEF RightlyRead, ReadAsMeant, Intends
<1> QED
  BY <1>1, <1>2, <1>3, PTL DEF BoardSpec

=============================================================================
