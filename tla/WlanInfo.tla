------------------------------ MODULE WlanInfo ------------------------------
(***************************************************************************)
(* How the board reads its Wi-Fi link: getwlaninfo (wlaninfo.c) opens a     *)
(* socket, asks the driver one request after another through iwlib.c,       *)
(* prints what it understood into ifaceinfo, and ReadWiFi (wlanstatus.c)    *)
(* joins those texts into the status message.                               *)
(*                                                                          *)
(* The driver and the kernel are the environment.  A driver has its layout  *)
(* of the range structure, its unit of signal level and its way to state a  *)
(* frequency; any request may fail, and the station may roam to another     *)
(* cell between two requests.  Only the status thread touches this state.   *)
(***************************************************************************)
EXTENDS Iwlib

\* A channel in the place of a frequency.
Number(channel) == [m |-> channel, e |-> 0]

CONSTANTS
  Drivers,   \* layout, ver, len, unit, table, channels, optional
  Cells,     \* ssid, long, channel, freq, qual, signal, noise, percent
  Silences   \* sets of _INVALID flags a driver may raise

ASSUME DriverAssumption == \A d \in Drivers :
  /\ d.layout \in {"we15", "we16"}
  /\ d.layout = "we15" => d.ver \in 9 .. 15
  /\ d.layout = "we16" => d.ver \in 16 .. 22 /\ d.len >= RangeBytes
  /\ d.len < 300 => d.ver <= 10
  /\ d.unit \in {"DBM", "RCPI"} => d.ver >= 19
  /\ d.unit \in {"DBM", "RCPI", "old dBm", "relative"}
  /\ d.ver \in Nat /\ d.len \in Nat /\ d.channels \in BOOLEAN

ASSUME CellAssumption == \A c \in Cells :
  /\ c.long \in BOOLEAN /\ c.signal \in -110 .. 63 /\ c.noise \in -110 .. 63
  /\ c.percent \in 0 .. 100 /\ c.qual \in 0 .. 255
  /\ c.channel \in 1 .. 999 /\ Below(iw_freq2float(Number(c.channel)), KILO)
  /\ ~Below(iw_freq2float(c.freq), KILO)

\* RCPI ends at 0 dBm.
ASSUME UnitAssumption == \A d \in Drivers, c \in Cells :
  d.unit = "RCPI" => c.signal <= 0 /\ c.noise <= 0

\* A table has numbers for a channel, or its frequency.
ASSUME TableAssumption == \A d \in Drivers, c \in Cells :
  LET listed == {k \in DOMAIN d.table : d.table[k].i = c.channel}
  IN /\ DOMAIN d.table \subseteq Nat
     /\ \/ \A k \in listed : d.table[k].m = c.channel /\ d.table[k].e = 0
        \/ \A k \in listed : iw_freq2float(d.table[k]) = iw_freq2float(c.freq)

ASSUME SilenceAssumption == Silences \subseteq SUBSET AllInvalid

VARIABLES
  pc,
  driver,      \* the driver of the interface, for good
  families,    \* a socket of some family could be opened: skfd >= 0
  info,        \* struct wireless_info, on the stack
  ifaceinfo,   \* the global texts
  message,     \* wlanstatus.message
  (* history, read by no guard *)
  shown        \* freq, link: the cell the text tells about, and how

vars == <<pc, driver, families, info, ifaceinfo, message, shown>>

NoName == ""
NoCell == [ssid |-> NoName]
Empty == [word |-> ""]
Garbage == [word |-> "garbage"]   \* an automatic buffer nothing was put in

-----------------------------------------------------------------------------
(* What a driver answers.                                                   *)

Floor == -110   \* the noise floor of a radio, in dBm
Reference(d) == IF d.unit = "old dBm" THEN Floor % 256 ELSE 100

\* The range fields the program reads, in the driver's layout.
DriverRange(d) ==
  [we_version_compiled |-> d.ver,
   max_qual |-> [qual |-> 70, level |-> Reference(d), noise |-> Reference(d)],
   freq |-> d.table]

Encoded(d, dbm, percent) ==
  CASE d.unit = "relative" -> percent [] d.unit = "RCPI" -> 2 * (dbm + 110)
    [] OTHER -> dbm % 256

\* Through SIOCGIWSTATS, or as a line of /proc/net/wireless, which has
\* decimals modulo 256 and a dot for each _UPDATED flag and no other flag.
DriverStats(d, c, silent, byRequest) ==
  [qual |-> c.qual, level |-> Encoded(d, c.signal, c.percent),
   noise |-> Encoded(d, c.noise, 0),
   updated |-> AllUpdated \cup (IF byRequest
                                THEN silent \cup ({d.unit} \cap {"DBM", "RCPI"})
                                ELSE {})]

DriverFreq(d, c) ==
  IF d.channels THEN Number(c.channel) ELSE c.freq

-----------------------------------------------------------------------------
(* Reading the answers.                                                     *)

\* Every answer but these five is stored and not looked at again.
Plain == {"NWID", "ENCODE", "MODE", "AP", "RATE", "POWER", "NICKN", "TXPOW",
          "SENS", "RETRY", "RTS", "FRAG"}

ZeroRange == [we_version_compiled |-> 0,
              max_qual |-> [qual |-> 0, level |-> 0, noise |-> 0],
              freq |-> <<>>]

\* memset of the structure.
NoInfo == [has |-> {}, freq |-> [m |-> 0, e |-> 0], freqFlags |-> "AUTO",
           essid |-> NoName, essidOn |-> FALSE, range |-> ZeroRange,
           stats |-> [qual |-> 0, level |-> 0, noise |-> 0, updated |-> {}],
           of |-> [f \in {"freq", "link"} |-> NoCell]]

\* The version is looked for where the new layout has it, in either.
RawVersion(d) ==
  IF d.len < 300 THEN 9
  ELSE IF d.layout = "we15" /\ VersionMoved THEN 0 ELSE d.ver

iw_get_range_info(d) ==
  LET sent == [DriverRange(d) EXCEPT !.we_version_compiled = RawVersion(d)]
  IN IF RawVersion(d) > 15 THEN sent
     ELSE [f \in DOMAIN sent |->
             IF {f} \cup (IF f = "freq" THEN {"num_frequency"} ELSE {})
                  \subseteq Carried
             THEN sent[f] ELSE ZeroRange[f]]

\* iw_get_stats: version 12 has the request, others the file.
ByRequest(i) == "RANGE" \in i.has /\ i.range.we_version_compiled > 11

\* The requests without further use, as a driver supports them; two of them
\* are asked only of newer drivers.
PlainAsked(i) ==
  Plain \ {r \in {"TXPOW", "RETRY"} :
             \/ "RANGE" \notin i.has
             \/ i.range.we_version_compiled <= IF r = "TXPOW" THEN 9 ELSE 10}

Step(from, to) == pc = from /\ pc' = to

\* iw_sockets_open tries four families; its failure is not looked at, and
\* then every request fails.
Open ==
  /\ Step("open", "name")
  /\ families' \in {{}, {"INET"}, {"APPLETALK"}}
  /\ info' = NoInfo
  /\ UNCHANGED <<driver, ifaceinfo, message, shown>>

\* Without a name there are no wireless extensions: get_info gives up, and
\* the caller does not look at that either.
GetName ==
  /\ \/ families # {} /\ Step("name", "freq")
     \/ Step("name", "display")
  /\ UNCHANGED <<driver, families, info, ifaceinfo, message, shown>>

\* A request fails, or is answered and `filled' is what info becomes.
Answered(request, filled) ==
  /\ info' \in {info, [filled EXCEPT !.has = @ \cup {request}]}
  /\ UNCHANGED <<driver, families, ifaceinfo, message, shown>>

GetFreq ==
  /\ Step("freq", "essid")
  /\ \E c \in Cells, fixed \in {"AUTO", "FIXED"} :
       Answered("FREQ", [info EXCEPT
         !.freq = iw_freq2float(DriverFreq(driver, c)), !.freqFlags = fixed,
         !.of.freq = c])

GetEssid ==
  /\ Step("essid", "range")
  /\ \E c \in Cells, on \in BOOLEAN :
       Answered("ESSID", [info EXCEPT !.essid = c.ssid, !.essidOn = on])

GetRange ==
  /\ Step("range", "stats")
  /\ Answered("RANGE", [info EXCEPT !.range = iw_get_range_info(driver)])

GetStats ==
  /\ Step("stats", "rest")
  /\ \E c \in Cells, silent \in Silences :
       Answered("STATS", [info EXCEPT
         !.stats = DriverStats(driver, c, silent, ByRequest(info)),
         !.of.link = c])

GetRest ==
  /\ Step("rest", "display")
  /\ info' = [info EXCEPT !.has = @ \cup (PlainAsked(info) \cap driver.optional)]
  /\ UNCHANGED <<driver, families, ifaceinfo, message, shown>>

-----------------------------------------------------------------------------
(* Displaying.                                                              *)

\* With its quotes the name fills ssid[20] and runs into freq[50].
Long(name) == \E c \in Cells : c.ssid = name /\ c.long
NameEnd == [word |-> "end of the name"]

\* A mutant: the frequency is printed before the name.
FreqAfterNameSwapped(old, text) ==
  IF "ESSID" \in info.has /\ info.essidOn /\ Long(info.essid) THEN NameEnd
  ELSE IF "FREQ" \in info.has THEN text ELSE old

\* What the bytes of ifaceinfo.freq hold at the end.
FreqAfterName(old, text) ==
  IF "FREQ" \in info.has THEN text
  ELSE IF "ESSID" \in info.has /\ info.essidOn /\ Long(info.essid) THEN NameEnd
  ELSE old

\* A driver that states channels is corrected by the table of its range.
freq ==
  IF "RANGE" \in info.has /\ Below(info.freq, KILO)
  THEN iw_channel_to_freq(info.freq.m * 10 ^ info.freq.e, info.freq,
                          info.range.freq)
  ELSE info.freq

\* One buffer serves the frequency and then the statistics.
display_info ==
  /\ Step("display", "join")
  /\ LET has == info.has
         freqText == iw_print_freq(freq, info.freqFlags)
         buffer == IF "FREQ" \in has THEN freqText ELSE Garbage
     IN /\ ifaceinfo' = [
             ssid |-> IF "ESSID" \notin has THEN ifaceinfo.ssid
                      ELSE IF info.essidOn THEN info.essid ELSE NoName,
             freq |-> FreqAfterName(ifaceinfo.freq, freqText),
             link |-> IF "STATS" \in has
                      THEN iw_print_stats(buffer, info.stats, info.range,
                                          "RANGE" \in has)
                      ELSE ifaceinfo.link]
        /\ shown' = [
             freq |-> IF "FREQ" \notin has THEN shown.freq
                      ELSE [cell |-> info.of.freq, ranged |-> "RANGE" \in has],
             link |-> IF "STATS" \notin has THEN shown.link
                      ELSE [cell |-> info.of.link, ranged |-> "RANGE" \in has,
                            flags |-> info.stats.updated]]
  /\ UNCHANGED <<driver, families, info, message>>

\* ReadWiFi: a name without its end is read on into the frequency.
ReadWiFi ==
  /\ Step("join", "open")
  /\ message' = [ssid |-> ifaceinfo.ssid,
                 runsOn |-> Long(ifaceinfo.ssid) /\ ifaceinfo.freq # NameEnd,
                 freq |-> ifaceinfo.freq, link |-> ifaceinfo.link]
  /\ info' = NoInfo
  /\ UNCHANGED <<driver, families, ifaceinfo, shown>>

Init ==
  /\ pc = "open" /\ driver \in Drivers /\ families = {} /\ info = NoInfo
  /\ ifaceinfo = [ssid |-> NoName, freq |-> Empty, link |-> Empty]
  /\ message = [ssid |-> NoName, runsOn |-> FALSE,
                freq |-> Empty, link |-> Empty]
  /\ shown = [freq |-> [cell |-> NoCell, ranged |-> FALSE],
              link |-> [cell |-> NoCell, ranged |-> FALSE, flags |-> {}]]

Next == \/ Open \/ GetName \/ GetFreq \/ GetEssid \/ GetRange \/ GetStats
        \/ GetRest \/ display_info \/ ReadWiFi

Spec == Init /\ [][Next]_vars

-----------------------------------------------------------------------------
(* Properties.                                                              *)

TypeOK ==
  /\ pc \in {"open", "name", "freq", "essid", "range", "stats", "rest",
             "display", "join"}
  /\ info.has \subseteq Plain \cup {"FREQ", "ESSID", "RANGE", "STATS"}
  /\ \A text \in {ifaceinfo.link, message.link} : "unit" \in DOMAIN text =>
       /\ text.unit \in {"raw", "dBm", "half dBm", "relative"}
       /\ {text.level, text.noise} \subseteq -220 .. 255 \cup {Omitted}
       /\ text.unit = "dBm" =>
            {text.level, text.noise} \subseteq -192 .. 63 \cup {Omitted}

\* The range the program works with is the one the driver described, whatever
\* its layout: the version is its own (or the guess 9), every field of an old
\* structure is found where the new one has it, and no byte of an old field
\* shows up in a field that the old structure did not have
\* (iw_get_range_info).
RangeTranslated ==
  "RANGE" \in info.has =>
    /\ info.range = [DriverRange(driver) EXCEPT
                       !.we_version_compiled = IF driver.len < 300 THEN 9 ELSE @]
    /\ driver.layout = "we15" => LayoutsAgree

\* A level shown in dBm is the true one, and so is the noise beside it; a
\* driver that flags dBm or RCPI is always understood once its range is known.
\* A driver of before the flags is misread as relative only at or below its
\* floor and from 0 dBm up, and shown raw at exactly 0: what the eight bits
\* cannot tell apart (iw_print_stats, iw_get_stats).
LinkDecodes ==
  LET l == ifaceinfo.link
      c == shown.link.cell
      Shows(v, true) == v \in {true, Omitted}
  IN "unit" \in DOMAIN l =>
       /\ l.unit = "dBm" => /\ driver.unit \in {"DBM", "old dBm"}
                            /\ Shows(l.level, c.signal)
                            /\ Shows(l.noise, c.noise)
       /\ l.unit = "half dBm" => /\ driver.unit = "RCPI"
                                 /\ Shows(l.level, 2 * c.signal)
                                 /\ Shows(l.noise, 2 * c.noise)
       /\ shown.link.ranged =>
            CASE driver.unit = "DBM" -> l.unit = "dBm"
              [] driver.unit = "RCPI" -> l.unit = "half dBm"
              [] driver.unit = "relative" ->
                   l.unit = IF c.percent = 0 THEN "raw" ELSE "relative"
              [] OTHER -> l.unit = CASE c.signal = 0 -> "raw"
                                     [] c.signal \in Floor + 1 .. -1 -> "dBm"
                                     [] OTHER -> "relative"

\* A frequency shown is that of the cell that answered, and it is shown as a
\* channel only if the driver states channels and its range is unknown or has
\* no frequency for this one; a long name printed into the same bytes never
\* outlives a frequency that was answered (display_info, iw_channel_to_freq).
FreqShown ==
  LET f == ifaceinfo.freq
      c == shown.freq.cell
  IN /\ f.word = "Frequency" => f.value = iw_freq2float(c.freq)
     /\ f.word = "Channel" =>
          /\ driver.channels /\ f.value.m * 10 ^ f.value.e = c.channel
          /\ shown.freq.ranged =>
               \A k \in DOMAIN driver.table :
                 driver.table[k].i = c.channel => driver.table[k].e = 0
     /\ pc = "join" /\ "FREQ" \in info.has => f.word \in {"Channel", "Frequency"}

\* The link text is made of statistics.  It is a left-over of the frequency,
\* or of nothing at all, only when a driver with a known range raised every
\* _INVALID flag (display_info uses one buffer for both, and iw_print_stats
\* may leave it alone).
LinkIsStatistics ==
  "word" \in DOMAIN ifaceinfo.link =>
    \/ ifaceinfo.link = Empty
    \/ shown.link.ranged /\ AllInvalid \subseteq shown.link.flags

=============================================================================
