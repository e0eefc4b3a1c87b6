----------------------------- MODULE BoardStart -----------------------------
(***************************************************************************)
(* From run.sh to the main loop and back: the daemon reads its command line *)
(* and its configuration, applies the stream settings to the gstd that      *)
(* outlives it (video.c), starts its threads, opens the outputs             *)
(* (virt2real.c), runs with its telemetry (module Telemetry), ends, and is  *)
(* started again.                                                           *)
(***************************************************************************)
EXTENDS BoardConfig, Telemetry

CONSTANTS
  Arguments,   \* command lines of run.sh
  Texts,       \* what rcboard.conf may hold, from one start to the next
  Replies,     \* what the server may answer: chunks of text
  Hosts,       \* ground stations that PlayStreamTo may name
  Rates,       \* bitrates that a command may name
  MTUs         \* and sizes of a packet

\* What reaches load_config is a sequence of lines that names one of the kinds
\* of link.
ASSUME TextsAssumption ==
  \A text \in Texts \cup {Loaded(chunks) : chunks \in Replies \ {<<>>}} :
    text \in Seq(ToSet(text)) /\ Configured(text).wlantype \in WlanTypes

Loopback == "127.0.0.1"

Nowhere == [up |-> TRUE, playing |-> FALSE, bitrate |-> 300000,
            mtu |-> 1500, host |-> Loopback, port |-> 3000]
NoConfig ==
  [k \in Key |-> IF k \in {"initialhost", "server_addr"} THEN "" ELSE 0]

VARIABLES
  argv,      \* chosen once: run.sh's PARAMS
  boot,      \* where main is
  config,
  gstd,      \* the pipeline: up, playing, bitrate, mtu, host, port
  (* history, read by no guard *)
  text,      \* the chunks the configuration was to come from
  before,    \* gstd when this process started
  touched    \* settings that commands have changed; all until the main loop

history == <<text, before, touched>>
bootVars == <<argv, boot, config, gstd, history>>
boardVars == <<bootVars, vars>>

Going(from, to) == boot = from /\ boot' = to /\ UNCHANGED vars

-----------------------------------------------------------------------------
ParseCmdline ==
  /\ \/ parse_cmdline(argv).exit /\ Going("start", "exited")
     \/ ~parse_cmdline(argv).exit /\ Going("start", "config")
  /\ before' = gstd /\ config' = NoConfig /\ text' = <<>>
  /\ UNCHANGED <<argv, gstd, touched>>

\* -v wins over the file.
WithVerbose(c) ==
  IF parse_cmdline(argv).verbose THEN [c EXCEPT !.verbose = 1] ELSE c

LoadLocal ==
  /\ ~parse_cmdline(argv).remote /\ Going("config", "bitrate")
  /\ \E file \in Texts : /\ text' = <<file>>
                         /\ config' = WithVerbose(Configured(file))
  /\ UNCHANGED <<argv, gstd, before, touched>>

\* Without an answer the daemon ends.
LoadRemote ==
  /\ parse_cmdline(argv).remote
  /\ \E chunks \in Replies :
       /\ text' = chunks
       /\ \/ /\ chunks = <<>> /\ Going("config", "exited")
             /\ config' = config
          \/ /\ chunks # <<>> /\ Going("config", "bitrate")
             /\ config' = WithVerbose(Configured(Loaded(chunks)))
  /\ UNCHANGED <<argv, gstd, before, touched>>

\* One call of gst-client or a chain of them: nothing without gstd.
Apply(changed) ==
  /\ gstd' = IF gstd.up THEN changed ELSE gstd
  /\ UNCHANGED <<argv, config, text, before>>

\* A mutant: the pipeline is not started again.
WithBitrateStopped(g, rate) == [g EXCEPT !.bitrate = rate, !.playing = FALSE]

\* SetBitrate: null, set, play, to whatever host the pipeline has.
WithBitrate(g, rate) == [g EXCEPT !.bitrate = rate, !.playing = TRUE]

\* PlayStreamTo and InitialPlayStreamTo: set and play.
Streaming(g, host) == [g EXCEPT !.host = host, !.playing = TRUE]

\* A setting that is 0 is left as the pipeline has it.
ApplyBitrate ==
  /\ Going("bitrate", "mtu")
  /\ Apply(IF config.bitrate = 0 THEN gstd
           ELSE WithBitrate(gstd, config.bitrate))
  /\ UNCHANGED touched

SetMTU ==
  /\ Going("mtu", "host")
  /\ Apply(IF config.mtu = 0 THEN gstd ELSE [gstd EXCEPT !.mtu = config.mtu])
  /\ UNCHANGED touched

InitialPlayStreamTo ==
  /\ Going("host", "port")
  /\ Apply(IF config.initialhost = Loopback THEN gstd
           ELSE Streaming(gstd, config.initialhost))
  /\ UNCHANGED touched

SetVideoPort ==
  /\ Going("port", "threads")
  /\ Apply(IF config.videoport = 0 THEN gstd
           ELSE [gstd EXCEPT !.port = config.videoport])
  /\ UNCHANGED touched

\* pthread_create three times, that of the UDP thread last; each thread may
\* still end the process.  Those of the telemetry run from here on too, but
\* nobody looks at what they do before the main loop.
StartThreads ==
  /\ \/ Going("threads", "outputs") \/ Going("threads", "exited")
  /\ UNCHANGED <<argv, config, gstd, history>>

\* Until the main loop, while main opens and scales the outputs and waits, the
\* UDP thread already works on the stream: a bitrate, a size, a client that can
\* show video, the stopAll after a recvfrom that failed.
StreamCommand ==
  /\ Going("outputs", "outputs")
  /\ \/ \E rate \in Rates : /\ Apply(WithBitrate(gstd, rate))
                            /\ touched' = touched \cup {"bitrate", "playing"}
     \/ \E mtu \in MTUs : /\ Apply([gstd EXCEPT !.mtu = mtu])
                          /\ touched' = touched \cup {"mtu"}
     \/ \E host \in Hosts : /\ Apply(Streaming(gstd, host))
                            /\ touched' = touched \cup {"host", "playing"}
     \/ /\ Apply([gstd EXCEPT !.playing = FALSE])
        /\ touched' = touched \cup {"playing"}

\* virt2real_init_pwm, usleep, and the main loop; a thread or the restart
\* command may end the process.
OpenOutputs ==
  /\ \/ Going("outputs", "exited")
     \/ boot = "outputs" /\ boot' = "loop" /\ Start(config.wlantype)
  /\ before' = Nowhere /\ text' = <<>> /\ touched' = {}
  /\ UNCHANGED <<argv, config, gstd>>

\* Telemetry beside the rest of the running daemon.
Run ==
  /\ boot = "loop" /\ (Reader \/ Sample \/ MainLoop)
  /\ UNCHANGED bootVars

\* A command, a failure of a thread or a signal ends the process.  Until then
\* the UDP thread and the alarm worked on the stream (module RcBoard).
EndProcess ==
  /\ boot = "loop" /\ boot' = "exited" /\ Exit
  /\ \E host \in Hosts \cup {gstd.host}, rate \in Rates \cup {gstd.bitrate},
        mtu \in MTUs \cup {gstd.mtu}, playing \in BOOLEAN :
       Apply([gstd EXCEPT !.host = host, !.bitrate = rate, !.mtu = mtu,
                          !.playing = playing])
  /\ UNCHANGED touched

\* run.sh pauses the stream and starts the daemon again.
RunSh ==
  /\ Going("exited", "start")
  /\ Apply([gstd EXCEPT !.playing = FALSE])
  /\ UNCHANGED touched

\* With its pipeline, and nobody starts it again.  In the main loop it shows at
\* the next start.
GstdDies ==
  /\ gstd.up /\ boot # "loop"
  /\ gstd' = [Nowhere EXCEPT !.up = FALSE]
  /\ UNCHANGED <<argv, boot, config, history, vars>>

BoardInit ==
  /\ TelemetryInit
  /\ argv \in Arguments /\ boot = "start" /\ text = <<>>
  /\ config = NoConfig /\ gstd = Nowhere /\ before = gstd /\ touched = {}

BoardNext ==
  \/ ParseCmdline \/ LoadLocal \/ LoadRemote \/ ApplyBitrate \/ SetMTU
  \/ InitialPlayStreamTo \/ SetVideoPort \/ StartThreads
  \/ StreamCommand \/ OpenOutputs \/ Run \/ EndProcess \/ RunSh \/ GstdDies

BoardSpec == BoardInit /\ [][BoardNext]_boardVars /\ TelemetryFairness

-----------------------------------------------------------------------------
(* Properties.                                                              *)

\* A text that came in one piece, has no error and sets the five numbers
\* whose default is an address is read as it was meant: its last assignments,
\* the intended defaults, and the role of a client only by that word
\* (load_config, curlParser).
ReadAsMeant ==
  boot = "bitrate" /\ Len(text) = 1 =>
    LET whole == text[1]
        keys == {whole[n].key : n \in DOMAIN whole}
        At(k) == {n \in DOMAIN whole : whole[n].key = k}
        Final(k) == whole[CHOOSE n \in At(k) : \A m \in At(k) : m <= n].value
        Intended(k) == IF k \in keys THEN Final(k) ELSE Meant[k]
    IN "error" \notin keys /\ Quoted \subseteq keys =>
         /\ \A k \in Key \ {"role", "verbose"} : config[k] = Intended(k)
         /\ config.role = 1 <=> Intended("role") = "client"
         /\ config.verbose = 0 =>
              Intended("verbose") = 0 /\ "v" \notin ToSet(argv)

\* Until the main loop, what no command has changed of a living pipeline agrees
\* with the configuration, and only what the configuration leaves open is as
\* the last process left it: with no initial host the stream plays again to the
\* ground station of before, which has not spoken yet (main, SetBitrate).
RestartReapplies ==
  boot \in {"threads", "outputs"} /\ gstd.up =>
    LET Kept(new, none, old) == IF new = none THEN old ELSE new IN
    /\ gstd.port = Kept(config.videoport, 0, before.port)
    /\ \/ "bitrate" \in touched
       \/ gstd.bitrate = Kept(config.bitrate, 0, before.bitrate)
    /\ "mtu" \in touched \/ gstd.mtu = Kept(config.mtu, 0, before.mtu)
    /\ \/ "host" \in touched
       \/ gstd.host = Kept(config.initialhost, Loopback, before.host)
    /\ \/ "playing" \in touched
       \/ gstd.playing <=> config.bitrate # 0 \/ config.initialhost # Loopback

=============================================================================
