--------------------------- MODULE WlanInfoProofs ---------------------------
(***************************************************************************)
(* What the text of a reading of the Wi-Fi link says, for every set of      *)
(* drivers and cells, whichever requests fail and wherever the station      *)
(* roams between them.                                                      *)
(***************************************************************************)
EXTENDS WlanInfo, IwlibProofs

-----------------------------------------------------------------------------
(* Frequencies.                                                             *)

\* A channel number survives the normal form of frequencies.
LEMMA ChannelKept ==
  ASSUME NEW in, in.m \in 1 .. 999, in.e = 0
  PROVE  iw_freq2float(in).m * 10 ^ iw_freq2float(in).e = in.m
<1> DEFINE n == in.m
           Ends(z) == n % 10 ^ z = 0 /\ n % 10 ^ (z + 1) # 0
<1>1. \E z \in 0 .. 8 : Ends(z)
  <2>1. n % 10 ^ 0 = 0
    BY SMT
  <2>2. n % 1000 # 0
    BY SMT
  <2>3. CASE n % 10 # 0
    <3>1. Ends(0)
      BY SMT, <2>1, <2>3
    <3> QED
      BY <3>1
  <2>4. CASE n % 10 = 0 /\ n % 100 # 0
    <3>1. Ends(1)
      BY SMT, <2>4
    <3> QED
      BY <3>1
  <2>5. CASE n % 100 = 0
    <3>1. Ends(2)
      BY SMT, <2>2, <2>5
    <3> QED
      BY <3>1
  <2> QED
    BY SMT, <2>3, <2>4, <2>5
<1> DEFINE z == TrailingZeros(n)
<1>2. z \in 0 .. 8 /\ Ends(z)
  BY <1>1 DEF TrailingZeros
<1> HIDE DEF z
<1>3. z \in 0 .. 2
  <2> DEFINE Divides(k) == n % 10 ^ k = 0
  <2>1. ~Divides(3) /\ ~Divides(4) /\ ~Divides(5)
    BY SMT
  <2>2. ~Divides(6) /\ ~Divides(7) /\ ~Divides(8)
    BY SMT
  <2>3. Divides(z) /\ z \in 0 .. 8
    BY Zenon, <1>2
  <2> HIDE DEF Divides
  <2> QED
    BY <2>1, <2>2, <2>3
<1>4. iw_freq2float(in) = [m |-> n \div 10 ^ z, e |-> z]
  BY <1>2, <1>3 DEF iw_freq2float, z
<1>5. (n \div 10 ^ z) * 10 ^ z = n
  <2>1. z = 0 => (n \div 10 ^ z) * 10 ^ z = n
    BY SMT
  <2>2. z = 1 => (n \div 10 ^ z) * 10 ^ z = n
    BY SMT, <1>2
  <2>3. z = 2 => (n \div 10 ^ z) * 10 ^ z = n
    BY SMT, <1>2
  <2> QED
    BY <1>3, <2>1, <2>2, <2>3
<1> QED
  BY <1>4, <1>5

-----------------------------------------------------------------------------
(* Statistics: what the eight bits of a driver become.                      *)

\* A level and the noise beside it are bytes, and which ones.
LEMMA EncodedBytes ==
  ASSUME NEW d \in Drivers, NEW c \in Cells
  PROVE  LET level == Encoded(d, c.signal, c.percent)
             noise == Encoded(d, c.noise, 0)
         IN /\ level \in 0 .. 255 /\ noise \in 0 .. 255
            /\ d.unit = "relative" => level = c.percent /\ noise = 0
            /\ d.unit = "RCPI" => /\ level = 2 * (c.signal + 110)
                                 /\ noise = 2 * (c.noise + 110)
                                 /\ level <= 220 /\ noise <= 220
            /\ d.unit \in {"DBM", "old dBm"} =>
                 /\ level = IF c.signal < 0 THEN c.signal + 256 ELSE c.signal
                 /\ noise = IF c.noise < 0 THEN c.noise + 256 ELSE c.noise
<1>1. /\ c.signal \in -110 .. 63 /\ c.noise \in -110 .. 63
      /\ c.percent \in 0 .. 100
  BY CellAssumption
<1>2. d.unit \in {"DBM", "RCPI", "old dBm", "relative"}
  BY DriverAssumption
<1>3. CASE d.unit = "relative"
  BY <1>1, <1>3 DEF Encoded
<1>4. CASE d.unit = "RCPI"
  <2>1. c.signal <= 0 /\ c.noise <= 0
    BY <1>4, UnitAssumption
  <2> QED
    BY <1>1, <1>4, <2>1 DEF Encoded
<1> DEFINE level == Encoded(d, c.signal, c.percent)
           noise == Encoded(d, c.noise, 0)
<1>5. CASE d.unit \in {"DBM", "old dBm"}
  <2>1. \A v \in -110 .. 63 : v % 256 = IF v < 0 THEN v + 256 ELSE v
    BY SMT
  <2>2. \A v, p : Encoded(d, v, p) = v % 256
    BY <1>5 DEF Encoded
  <2>3. level = IF c.signal < 0 THEN c.signal + 256 ELSE c.signal
    BY <1>1, <2>1, <2>2
  <2>4. noise = IF c.noise < 0 THEN c.noise + 256 ELSE c.noise
    BY <1>1, <2>1, <2>2
  <2>5. d.unit # "relative" /\ d.unit # "RCPI"
    BY <1>5
  <2> HIDE DEF level, noise
  <2>6. level \in 0 .. 255 /\ noise \in 0 .. 255
    BY <1>1, <2>3, <2>4
  <2> QED
    BY Zenon, <2>3, <2>4, <2>5, <2>6 DEF level, noise
<1> QED
  BY <1>2, <1>3, <1>4, <1>5

\* The flags of a driver: none of another's unit, and _INVALID only by request.
LEMMA DriverFlags ==
  ASSUME NEW d \in Drivers, NEW c, NEW silent \in Silences,
         NEW byRequest \in BOOLEAN
  PROVE  LET u == DriverStats(d, c, silent, byRequest).updated
         IN /\ "DBM" \in u <=> byRequest /\ d.unit = "DBM"
            /\ "RCPI" \in u <=> byRequest /\ d.unit = "RCPI"
            /\ ~byRequest => u \cap AllInvalid = {}
<1>1. "DBM" \notin silent /\ "RCPI" \notin silent
  BY SilenceAssumption DEF AllInvalid
<1> QED
  BY <1>1 DEF DriverStats, AllUpdated, AllInvalid

\* Whether anything of the statistics is interpreted, and how.
Interpreted(q, hasRange) ==
  hasRange /\ (q.level # 0 \/ q.updated \cap {"DBM", "RCPI"} # {})

UnitOf(q, range, hasRange) ==
  IF ~Interpreted(q, hasRange) THEN "raw"
  ELSE IF "RCPI" \in q.updated THEN "half dBm"
  ELSE IF IsDBm(q, range) THEN "dBm" ELSE "relative"

LevelIn(unit, v) ==
  IF unit = "half dBm" THEN v - 220 ELSE IF unit = "dBm" THEN DBm(v) ELSE v

\* The text, field by field.
LEMMA TextFields ==
  ASSUME NEW q, NEW range, NEW hasRange
  PROVE  LET t == StatsText(q, range, hasRange)
             known == Interpreted(q, hasRange)
             unit == UnitOf(q, range, hasRange)
         IN /\ DOMAIN t = {"unit", "qual", "level", "noise", "fresh"}
            /\ t.unit = unit
            /\ t.qual = IF known /\ "QUAL_INVALID" \in q.updated
                        THEN Omitted ELSE q.qual
            /\ t.level = IF known /\ "LEVEL_INVALID" \in q.updated
                         THEN Omitted ELSE LevelIn(unit, q.level)
            /\ t.noise = IF known /\ "NOISE_INVALID" \in q.updated
                         THEN Omitted ELSE LevelIn(unit, q.noise)
<1>1. StatsText(q, range, hasRange).unit = UnitOf(q, range, hasRange)
  BY DEF StatsText, UnitOf, Interpreted
<1>2. DOMAIN StatsText(q, range, hasRange)
        = {"unit", "qual", "level", "noise", "fresh"}
  BY DEF StatsText
<1>3. \A v : LevelIn("half dBm", v) = v - 220 /\ LevelIn("dBm", v) = DBm(v)
             /\ LevelIn("raw", v) = v /\ LevelIn("relative", v) = v
  BY DEF LevelIn
<1> QED
  BY <1>1, <1>2, <1>3 DEF StatsText, UnitOf, Interpreted

\* What LinkDecodes asks of one text.
Decodes(l, d, c, ranged) ==
  LET Shows(v, true) == v \in {true, Omitted}
  IN /\ l.unit = "dBm" => /\ d.unit \in {"DBM", "old dBm"}
                          /\ Shows(l.level, c.signal) /\ Shows(l.noise, c.noise)
     /\ l.unit = "half dBm" => /\ d.unit = "RCPI"
                               /\ Shows(l.level, 2 * c.signal)
                               /\ Shows(l.noise, 2 * c.noise)
     /\ ranged =>
          CASE d.unit = "DBM" -> l.unit = "dBm"
            [] d.unit = "RCPI" -> l.unit = "half dBm"
            [] d.unit = "relative" ->
                 l.unit = IF c.percent = 0 THEN "raw" ELSE "relative"
            [] OTHER -> l.unit = CASE c.signal = 0 -> "raw"
                                   [] c.signal \in Floor + 1 .. -1 -> "dBm"
                                   [] OTHER -> "relative"

\* The unit of a text, driver by driver.
LEMMA UnitShown ==
  ASSUME NEW d \in Drivers, NEW c \in Cells, NEW silent \in Silences,
         NEW byRequest \in BOOLEAN, NEW range, NEW ranged \in BOOLEAN,
         ranged => range.max_qual.level = Reference(d),
         byRequest => ranged,
         ranged /\ d.unit \in {"DBM", "RCPI"} => byRequest
  PROVE  LET unit == UnitOf(DriverStats(d, c, silent, byRequest), range, ranged)
         IN /\ ~ranged => unit = "raw"
            /\ ranged /\ d.unit = "DBM" => unit = "dBm"
            /\ ranged /\ d.unit = "RCPI" => unit = "half dBm"
            /\ ranged /\ d.unit = "relative" =>
                 unit = IF c.percent = 0 THEN "raw" ELSE "relative"
            /\ ranged /\ d.unit = "old dBm" =>
                 unit = IF c.signal = 0 THEN "raw"
                        ELSE IF c.signal \in Floor + 1 .. -1 THEN "dBm"
                        ELSE "relative"
<1> DEFINE q == DriverStats(d, c, silent, byRequest)
           unit == UnitOf(q, range, ranged)
<1>1. /\ "DBM" \in q.updated <=> byRequest /\ d.unit = "DBM"
      /\ "RCPI" \in q.updated <=> byRequest /\ d.unit = "RCPI"
  BY DriverFlags
<1>2. q.level = Encoded(d, c.signal, c.percent)
  BY DEF DriverStats
<1> HIDE DEF q
<1>3. ~ranged => unit = "raw"
  BY DEF UnitOf, Interpreted
<1>4. ranged /\ d.unit = "DBM" => unit = "dBm"
  BY <1>1 DEF UnitOf, Interpreted, IsDBm
<1>5. ranged /\ d.unit = "RCPI" => unit = "half dBm"
  BY <1>1 DEF UnitOf, Interpreted
<1>6. ASSUME ranged, d.unit = "relative"
      PROVE  unit = IF c.percent = 0 THEN "raw" ELSE "relative"
  <2>1. c.percent \in 0 .. 100
    BY CellAssumption
  <2>2. q.level = c.percent
    BY <1>2, <1>6, EncodedBytes
  <2>3. range.max_qual.level = 100
    BY <1>6 DEF Reference
  <2>4. "DBM" \notin q.updated /\ "RCPI" \notin q.updated
    BY <1>1, <1>6
  <2>5. Interpreted(q, ranged) <=> c.percent # 0
    BY <1>6, <2>2, <2>4 DEF Interpreted
  <2>6. ~IsDBm(q, range)
    BY <2>1, <2>2, <2>3, <2>4 DEF IsDBm
  <2> QED
    BY <2>4, <2>5, <2>6 DEF UnitOf
<1>7. ASSUME ranged, d.unit = "old dBm"
      PROVE  unit = IF c.signal = 0 THEN "raw"
                    ELSE IF c.signal \in Floor + 1 .. -1 THEN "dBm"
                    ELSE "relative"
  <2>1. q.level = IF c.signal < 0 THEN c.signal + 256 ELSE c.signal
    BY <1>2, <1>7, EncodedBytes
  <2>2. c.signal \in -110 .. 63
    BY CellAssumption
  <2>3. range.max_qual.level = 146
    <3>1. \A v \in -110 .. 63 : v < 0 => v % 256 = v + 256
      BY SMT
    <3>2. Floor \in -110 .. 63 /\ Floor < 0 /\ Floor + 256 = 146
      BY SMT DEF Floor
    <3>3. Floor % 256 = 146
      BY <3>1, <3>2
    <3> QED
      BY <1>7, <3>3 DEF Reference
  <2>4. "DBM" \notin q.updated /\ "RCPI" \notin q.updated
    BY <1>1, <1>7
  <2>5. q.level # 0 <=> c.signal # 0
    BY <2>1, <2>2
  <2>6. Interpreted(q, ranged) <=> c.signal # 0
    BY <1>7, <2>4, <2>5 DEF Interpreted
  <2>7. IsDBm(q, range) <=> c.signal \in Floor + 1 .. -1
    BY <2>1, <2>2, <2>3, <2>4 DEF IsDBm, Floor
  <2> QED
    BY <2>4, <2>6, <2>7 DEF UnitOf
<1> QED
  BY <1>3, <1>4, <1>5, <1>6, <1>7 DEF q

\* What TypeOK asks of a text of statistics.
InRanges(l) ==
  /\ l.unit \in {"raw", "dBm", "half dBm", "relative"}
  /\ {l.level, l.noise} \subseteq -220 .. 255 \cup {Omitted}
  /\ l.unit = "dBm" => {l.level, l.noise} \subseteq -192 .. 63 \cup {Omitted}

\* Whatever bytes are printed, the parts of the text are in their ranges, and
\* all three are left out only if every flag says so of a known range.
LEMMA TextParts ==
  ASSUME NEW q, q.qual \in 0 .. 255, q.level \in 0 .. 255, q.noise \in 0 .. 255,
         NEW range, NEW hasRange \in BOOLEAN
  PROVE  LET t == StatsText(q, range, hasRange)
         IN /\ InRanges(t)
            /\ {t.qual, t.level, t.noise} = {Omitted} =>
                 hasRange /\ AllInvalid \subseteq q.updated
<1> DEFINE t == StatsText(q, range, hasRange)
           Fits(v) == v \in -220 .. 255 /\ (t.unit = "dBm" => v \in -192 .. 63)
<1>1. /\ t.unit = UnitOf(q, range, hasRange)
      /\ t.qual = IF Interpreted(q, hasRange) /\ "QUAL_INVALID" \in q.updated
                  THEN Omitted ELSE q.qual
      /\ t.level = IF Interpreted(q, hasRange) /\ "LEVEL_INVALID" \in q.updated
                   THEN Omitted ELSE LevelIn(t.unit, q.level)
      /\ t.noise = IF Interpreted(q, hasRange) /\ "NOISE_INVALID" \in q.updated
                   THEN Omitted ELSE LevelIn(t.unit, q.noise)
  BY TextFields
<1> HIDE DEF t
<1>2. t.unit \in {"raw", "dBm", "half dBm", "relative"}
  BY <1>1 DEF UnitOf
<1>3. \A v \in 0 .. 255 : Fits(LevelIn(t.unit, v))
  <2>1. \A v \in 0 .. 255 : /\ v \in -220 .. 255 /\ v - 220 \in -220 .. 255
                            /\ DBm(v) \in -192 .. 63 /\ DBm(v) \in -220 .. 255
    BY DEF DBm
  <2>2. \A v : /\ t.unit = "dBm" => LevelIn(t.unit, v) = DBm(v)
               /\ t.unit = "half dBm" => LevelIn(t.unit, v) = v - 220
               /\ t.unit \in {"raw", "relative"} => LevelIn(t.unit, v) = v
    BY DEF LevelIn
  <2> SUFFICES ASSUME NEW v \in 0 .. 255 PROVE Fits(LevelIn(t.unit, v))
    BY ZenonT(40)
  <2>3. /\ v \in -220 .. 255 /\ v - 220 \in -220 .. 255
        /\ DBm(v) \in -192 .. 63 /\ DBm(v) \in -220 .. 255
    BY <2>1
  <2> DEFINE l == LevelIn(t.unit, v)
  <2>4. l \in -220 .. 255
    <3>1. l = DBm(v) \/ l = v - 220 \/ l = v
      BY <1>2, <2>2
    <3> HIDE DEF l
    <3> QED
      BY ZenonT(40), <2>3, <3>1
  <2>5. ASSUME t.unit = "dBm"
        PROVE  l \in -192 .. 63
    <3>1. l = DBm(v)
      BY Zenon, <2>2, <2>5
    <3> HIDE DEF l
    <3> QED
      BY Zenon, <2>3, <3>1
  <2> QED
    BY ZenonT(40), <2>4, <2>5
<1>4. Fits(LevelIn(t.unit, q.level)) /\ Fits(LevelIn(t.unit, q.noise))
  BY ZenonT(40), <1>3
<1>5. /\ {t.level, t.noise} \subseteq -220 .. 255 \cup {Omitted}
      /\ t.unit = "dBm" =>
           {t.level, t.noise} \subseteq -192 .. 63 \cup {Omitted}
  BY <1>1, <1>4
<1>6. ASSUME {t.qual, t.level, t.noise} = {Omitted}
      PROVE  hasRange /\ AllInvalid \subseteq q.updated
  <2>1. t.qual = Omitted /\ t.level = Omitted /\ t.noise = Omitted
    BY <1>6
  <2>2. \A v \in -220 .. 255 : v # Omitted
    BY DEF Omitted
  <2>3. q.qual # Omitted
    BY DEF Omitted
  <2>4. LevelIn(t.unit, q.level) # Omitted /\ LevelIn(t.unit, q.noise) # Omitted
    BY Zenon, <1>4, <2>2
  <2>5. /\ Interpreted(q, hasRange) /\ "QUAL_INVALID" \in q.updated
        /\ "LEVEL_INVALID" \in q.updated /\ "NOISE_INVALID" \in q.updated
    BY <1>1, <2>1, <2>3, <2>4
  <2> QED
    BY <2>5 DEF Interpreted, AllInvalid
<1> QED
  BY Zenon, <1>2, <1>5, <1>6 DEF t, InRanges

\* The text of a level is the true level, in the unit of its driver.
LEMMA LinkOf ==
  ASSUME NEW d \in Drivers, NEW c \in Cells, NEW silent \in Silences,
         NEW byRequest \in BOOLEAN, NEW range, NEW ranged \in BOOLEAN,
         ranged => range.max_qual.level = Reference(d),
         byRequest => ranged,
         ranged /\ d.unit \in {"DBM", "RCPI"} => byRequest
  PROVE  LET q == DriverStats(d, c, silent, byRequest)
         IN Decodes(StatsText(q, range, ranged), d, c, ranged)
<1> DEFINE q == DriverStats(d, c, silent, byRequest)
           t == StatsText(q, range, ranged)
           level == Encoded(d, c.signal, c.percent)
           noise == Encoded(d, c.noise, 0)
<1>1. /\ c.signal \in -110 .. 63 /\ c.noise \in -110 .. 63
      /\ c.percent \in 0 .. 100
  BY CellAssumption
<1>2. d.unit \in {"DBM", "RCPI", "old dBm", "relative"}
  BY DriverAssumption
<1>3. q.level = level /\ q.noise = noise
  BY DEF DriverStats
<1>4. /\ d.unit = "RCPI" => level = 2 * (c.signal + 110)
                            /\ noise = 2 * (c.noise + 110)
      /\ d.unit \in {"DBM", "old dBm"} =>
           /\ level = IF c.signal < 0 THEN c.signal + 256 ELSE c.signal
           /\ noise = IF c.noise < 0 THEN c.noise + 256 ELSE c.noise
  BY EncodedBytes
<1>5. /\ t.unit = UnitOf(q, range, ranged)
      /\ t.level = IF Interpreted(q, ranged) /\ "LEVEL_INVALID" \in q.updated
                   THEN Omitted ELSE LevelIn(t.unit, level)
      /\ t.noise = IF Interpreted(q, ranged) /\ "NOISE_INVALID" \in q.updated
                   THEN Omitted ELSE LevelIn(t.unit, noise)
  BY TextFields, <1>3
<1>6. /\ ~ranged => t.unit = "raw"
      /\ ranged /\ d.unit = "DBM" => t.unit = "dBm"
      /\ ranged /\ d.unit = "RCPI" => t.unit = "half dBm"
      /\ ranged /\ d.unit = "relative" =>
           t.unit = IF c.percent = 0 THEN "raw" ELSE "relative"
      /\ ranged /\ d.unit = "old dBm" =>
           t.unit = IF c.signal = 0 THEN "raw"
                    ELSE IF c.signal \in Floor + 1 .. -1 THEN "dBm"
                    ELSE "relative"
  <2> DEFINE unit == UnitOf(q, range, ranged)
  <2>1. /\ ~ranged => unit = "raw"
        /\ ranged /\ d.unit = "DBM" => unit = "dBm"
        /\ ranged /\ d.unit = "RCPI" => unit = "half dBm"
        /\ ranged /\ d.unit = "relative" =>
             unit = IF c.percent = 0 THEN "raw" ELSE "relative"
        /\ ranged /\ d.unit = "old dBm" =>
             unit = IF c.signal = 0 THEN "raw"
                    ELSE IF c.signal \in Floor + 1 .. -1 THEN "dBm"
                    ELSE "relative"
    BY Zenon, UnitShown
  <2>2. t.unit = unit
    BY <1>5
  <2> QED
    BY Zenon, <2>1, <2>2
<1> HIDE DEF q, t, level, noise
<1>7. t.unit = "dBm" => d.unit \in {"DBM", "old dBm"}
  BY <1>2, <1>6
<1>8. t.unit = "half dBm" => d.unit = "RCPI"
  BY <1>2, <1>6
<1>9. t.unit = "dBm" =>
         LevelIn(t.unit, level) = c.signal /\ LevelIn(t.unit, noise) = c.noise
  <2>1. \A v \in -110 .. 63 : DBm(IF v < 0 THEN v + 256 ELSE v) = v
    BY DEF DBm
  <2>2. ASSUME t.unit = "dBm"
        PROVE  DBm(level) = c.signal /\ DBm(noise) = c.noise
    <3>1. /\ level = IF c.signal < 0 THEN c.signal + 256 ELSE c.signal
          /\ noise = IF c.noise < 0 THEN c.noise + 256 ELSE c.noise
      BY <1>4, <1>7, <2>2
    <3> QED
      BY Zenon, <1>1, <2>1, <3>1
  <2> QED
    BY <2>2 DEF LevelIn
<1>10. t.unit = "half dBm" =>
         /\ LevelIn(t.unit, level) = 2 * c.signal
         /\ LevelIn(t.unit, noise) = 2 * c.noise
  <2>1. \A v \in -110 .. 63 : 2 * (v + 110) - 220 = 2 * v
    OBVIOUS
  <2>2. ASSUME t.unit = "half dBm"
        PROVE  level - 220 = 2 * c.signal /\ noise - 220 = 2 * c.noise
    BY <1>1, <1>4, <1>8, <2>1, <2>2
  <2> QED
    BY <2>2 DEF LevelIn
<1>11. Decodes(t, d, c, ranged)
  <2>1. t.unit = "dBm" => t.level \in {c.signal, Omitted}
                          /\ t.noise \in {c.noise, Omitted}
    BY <1>5, <1>9
  <2>2. t.unit = "half dBm" => t.level \in {2 * c.signal, Omitted}
                               /\ t.noise \in {2 * c.noise, Omitted}
    BY <1>5, <1>10
  <2> QED
    <3>1. CASE d.unit = "DBM"
      BY <1>6, <1>7, <1>8, <2>1, <2>2, <3>1 DEF Decodes
    <3>2. CASE d.unit = "RCPI"
      BY <1>6, <1>7, <1>8, <2>1, <2>2, <3>2 DEF Decodes
    <3>3. CASE d.unit = "relative"
      BY <1>6, <1>7, <1>8, <2>1, <2>2, <3>3 DEF Decodes
    <3>4. CASE d.unit = "old dBm"
      <4> DEFINE Asked == CASE c.signal = 0 -> "raw"
                            [] c.signal \in Floor + 1 .. -1 -> "dBm"
                            [] OTHER -> "relative"
      <4>1. ranged => t.unit = Asked
        <5>1. 0 \notin Floor + 1 .. -1
          BY DEF Floor
        <5> QED
          BY <1>6, <3>4, <5>1
      <4> HIDE DEF Asked
      <4>2. /\ t.unit = "dBm" => /\ d.unit \in {"DBM", "old dBm"}
                                 /\ t.level \in {c.signal, Omitted}
                                 /\ t.noise \in {c.noise, Omitted}
            /\ t.unit = "half dBm" => /\ d.unit = "RCPI"
                                      /\ t.level \in {2 * c.signal, Omitted}
                                      /\ t.noise \in {2 * c.noise, Omitted}
        BY Zenon, <1>7, <1>8, <2>1, <2>2
      <4>3. /\ d.unit # "DBM" /\ d.unit # "RCPI" /\ d.unit # "relative"
        BY <3>4
      <4>4. ranged =>
              CASE d.unit = "DBM" -> t.unit = "dBm"
                [] d.unit = "RCPI" -> t.unit = "half dBm"
                [] d.unit = "relative" ->
                     t.unit = IF c.percent = 0 THEN "raw" ELSE "relative"
                [] OTHER -> t.unit = Asked
        BY <4>1, <4>3
      <4> QED
        BY Zenon, <4>2, <4>4 DEF Decodes, Asked
    <3> QED
      BY <1>2, <3>1, <3>2, <3>3, <3>4
<1> QED
  BY <1>11 DEF q, t

-----------------------------------------------------------------------------
(* The range of a driver, and the frequency printed with it.                *)

\* The translation of an old range loses nothing the program reads, and the
\* version of a driver that flags its unit is new enough to be asked for
\* statistics.
LEMMA RangeRead ==
  ASSUME NEW d \in Drivers
  PROVE  LET r == iw_get_range_info(d)
         IN /\ r = [DriverRange(d) EXCEPT
                      !.we_version_compiled = IF d.len < 300 THEN 9 ELSE @]
            /\ r.max_qual.level = Reference(d) /\ r.freq = d.table
            /\ d.unit \in {"DBM", "RCPI"} => r.we_version_compiled > 11
<1> DEFINE sent == [DriverRange(d) EXCEPT !.we_version_compiled = RawVersion(d)]
<1>1. RawVersion(d) = IF d.len < 300 THEN 9 ELSE d.ver
  BY LayoutsDoAgree DEF RawVersion, LayoutsAgree
<1>2. sent = [DriverRange(d) EXCEPT
                !.we_version_compiled = IF d.len < 300 THEN 9 ELSE @]
  BY <1>1 DEF DriverRange
<1>3. DOMAIN sent = {"we_version_compiled", "max_qual", "freq"}
  BY DEF DriverRange
<1>4. \A f \in DOMAIN sent :
        {f} \cup (IF f = "freq" THEN {"num_frequency"} ELSE {}) \subseteq Carried
  BY <1>3, LayoutsDoAgree DEF LayoutsAgree
<1>5. sent = [f \in DOMAIN sent |-> sent[f]]
  BY DEF DriverRange
<1>6. iw_get_range_info(d) = sent
  BY <1>4, <1>5 DEF iw_get_range_info
<1>7. /\ sent.max_qual.level = Reference(d) /\ sent.freq = d.table
      /\ sent.we_version_compiled = RawVersion(d)
  BY DEF DriverRange
<1>8. d.unit \in {"DBM", "RCPI"} => RawVersion(d) > 11
  <2>1. d.unit \in {"DBM", "RCPI"} => d.ver >= 19 /\ ~(d.len < 300)
    <3>1. /\ d.len < 300 => d.ver <= 10
          /\ d.unit \in {"DBM", "RCPI"} => d.ver >= 19
          /\ d.ver \in Nat
      BY DriverAssumption
    <3> QED
      BY <3>1
  <2> QED
    <3>1. d.unit \in {"DBM", "RCPI"} => RawVersion(d) = d.ver
      BY <1>1, <2>1
    <3>2. d.ver \in Nat
      BY DriverAssumption
    <3> QED
      BY <2>1, <3>1, <3>2
<1> QED
  BY <1>2, <1>6, <1>7, <1>8

\* What FreqShown asks of one text.
Tells(f, d, c, ranged) ==
  /\ f.word = "Frequency" => f.value = iw_freq2float(c.freq)
  /\ f.word = "Channel" =>
       /\ d.channels /\ f.value.m * 10 ^ f.value.e = c.channel
       /\ ranged => \A k \in DOMAIN d.table :
                      d.table[k].i = c.channel => d.table[k].e = 0

\* The frequency as display_info corrects it.
Corrected(f, range, ranged) ==
  IF ranged /\ Below(f, KILO)
  THEN iw_channel_to_freq(f.m * 10 ^ f.e, f, range.freq)
  ELSE f

\* The normal form depends on mantissa and exponent only.
LEMMA SameFrequency ==
  ASSUME NEW a, NEW b, a.m = b.m, a.e = b.e
  PROVE  iw_freq2float(a) = iw_freq2float(b)
BY DEF iw_freq2float

\* The first of some table entries is one of them.
LEMMA FirstListed ==
  ASSUME NEW S \in SUBSET Nat, S # {}
  PROVE  (CHOOSE k \in S : \A j \in S : k <= j) \in S
BY LeastOf

\* Whatever of frequency and range was answered, the text is true of the cell
\* that answered.
LEMMA FreqOf ==
  ASSUME NEW d \in Drivers, NEW c \in Cells, NEW range, NEW ranged \in BOOLEAN,
         NEW flags, ranged => range.freq = d.table
  PROVE  LET f == Corrected(iw_freq2float(DriverFreq(d, c)), range, ranged)
             t == iw_print_freq(f, flags)
         IN Tells(t, d, c, ranged) /\ t.word \in {"Channel", "Frequency"}
<1> DEFINE read == iw_freq2float(DriverFreq(d, c))
           f == Corrected(read, range, ranged)
           t == iw_print_freq(f, flags)
<1>1. /\ t.value = f /\ t.word \in {"Channel", "Frequency"}
      /\ t.word = "Channel" <=> Below(f, KILO)
  BY DEF iw_print_freq
<1>2. /\ Below(iw_freq2float(Number(c.channel)), KILO)
      /\ ~Below(iw_freq2float(c.freq), KILO)
      /\ c.channel \in 1 .. 999
  BY CellAssumption
<1> SUFFICES Tells(t, d, c, ranged)
  BY <1>1
<1> HIDE DEF t, f
<1>3. CASE ~d.channels
  <2>1. f = iw_freq2float(c.freq)
    BY <1>2, <1>3 DEF f, Corrected, DriverFreq
  <2> QED
    BY <1>1, <1>2, <2>1 DEF Tells
<1>4. CASE d.channels
  <2>1. read = iw_freq2float(Number(c.channel)) /\ Below(read, KILO)
    BY <1>2, <1>4 DEF DriverFreq
  <2>2. read.m * 10 ^ read.e = c.channel
    <3>1. /\ Number(c.channel).m = c.channel
          /\ Number(c.channel).e = 0
      BY DEF Number
    <3> QED
      BY <1>2, <2>1, <3>1, ChannelKept
  <2> HIDE DEF read
  <2> DEFINE listed == {k \in DOMAIN d.table : d.table[k].i = c.channel}
             first == CHOOSE k \in listed : \A j \in listed : k <= j
             hasFreq == \E k \in DOMAIN d.table :
                          d.table[k].e # 0 \/ d.table[k].m > 1000
  <2>3. CASE ~ranged
    <3>1. f = read
      BY <2>3 DEF f, Corrected
    <3> QED
      BY <1>1, <1>4, <2>1, <2>2, <2>3, <3>1 DEF Tells
  <2>4. CASE ranged
    <3>1. f = IF ~hasFreq \/ listed = {} THEN read
              ELSE iw_freq2float(d.table[first])
      <4>1. f = iw_channel_to_freq(read.m * 10 ^ read.e, read, range.freq)
        BY <2>1, <2>4 DEF f, Corrected, read
      <4>2. f = iw_channel_to_freq(c.channel, read, d.table)
        BY <2>2, <2>4, <4>1
      <4> QED
        BY Zenon, <4>2 DEF iw_channel_to_freq
    <3>2. /\ listed \subseteq Nat
          /\ \/ \A k \in listed : d.table[k].m = c.channel /\ d.table[k].e = 0
             \/ \A k \in listed :
                  iw_freq2float(d.table[k]) = iw_freq2float(c.freq)
      BY TableAssumption
    <3>3. CASE ~hasFreq \/ listed = {}
      <4>1. \A k \in listed : d.table[k].e = 0
        BY <3>3
      <4> QED
        BY <1>1, <1>4, <2>1, <2>2, <3>1, <3>3, <4>1 DEF Tells
    <3>4. CASE ~(~hasFreq \/ listed = {})
      <4> HIDE DEF listed
      <4>1. first \in listed
        BY <3>2, <3>4, FirstListed
      <4> HIDE DEF first
      <4>2. f = iw_freq2float(d.table[first])
        BY <3>1, <3>4
      <4>3. CASE \A k \in listed : d.table[k].m = c.channel /\ d.table[k].e = 0
        <5>1. f = read
          <6>1. d.table[first].m = Number(c.channel).m
                /\ d.table[first].e = Number(c.channel).e
            BY <4>1, <4>3 DEF Number
          <6> QED
            BY <2>1, <4>2, <6>1, SameFrequency
        <5> QED
          BY <1>1, <1>4, <2>1, <2>2, <4>3, <5>1 DEF Tells, listed
      <4>4. CASE \A k \in listed :
                   iw_freq2float(d.table[k]) = iw_freq2float(c.freq)
        <5>1. f = iw_freq2float(c.freq)
          BY <4>1, <4>2, <4>4
        <5> QED
          BY <1>1, <1>2, <5>1 DEF Tells
      <4> QED
        BY <3>2, <4>3, <4>4
    <3> QED
      BY <3>3, <3>4
  <2> QED
    BY <2>3, <2>4
<1> QED
  BY <1>3, <1>4, DriverAssumption

-----------------------------------------------------------------------------
(* The invariant of a reading: info holds answers, each of some cell.       *)

Asking == {"open", "name", "freq", "essid", "range", "stats"}

InfoOK(i, d) ==
  /\ DOMAIN i = {"has", "freq", "freqFlags", "essid", "essidOn", "range",
                 "stats", "of"}
  /\ DOMAIN i.of = {"freq", "link"}
  /\ i.has \subseteq Plain \cup {"FREQ", "ESSID", "RANGE", "STATS"}
  /\ "FREQ" \in i.has => /\ i.of.freq \in Cells
                         /\ i.freq = iw_freq2float(DriverFreq(d, i.of.freq))
  /\ "RANGE" \in i.has => i.range = iw_get_range_info(d)
  /\ "STATS" \in i.has =>
       /\ i.of.link \in Cells
       /\ \E silent \in Silences :
            i.stats = DriverStats(d, i.of.link, silent, ByRequest(i))

\* Statistics come after the range: how they were asked for stays true.
ReadInv ==
  /\ driver \in Drivers /\ InfoOK(info, driver)
  /\ pc \in Asking => "STATS" \notin info.has

\* The requests by their names are different requests.
LEMMA PlainApart == {"FREQ", "ESSID", "RANGE", "STATS"} \cap Plain = {}
BY DEF Plain

\* The structure before the first request.
LEMMA NothingRead ==
  ASSUME NEW d
  PROVE  InfoOK(NoInfo, d) /\ NoInfo.has = {}
BY DEF InfoOK, NoInfo

\* A reading that begins, and every step after, keeps the invariant.
LEMMA ReadStep == ReadInv /\ [Next]_vars => ReadInv'
<1> SUFFICES ASSUME ReadInv, [Next]_vars PROVE ReadInv'
  OBVIOUS
<1> USE DEF Asking
<1>1. CASE Open
  BY <1>1, NothingRead DEF ReadInv, Open, Step
<1>2. CASE GetName
  BY <1>2 DEF ReadInv, GetName, Step
<1>3. CASE GetFreq
  <2>1. /\ pc = "freq" /\ pc' = "essid" /\ driver' = driver
        /\ "STATS" \notin info.has
    BY <1>3 DEF ReadInv, GetFreq, Step, Answered
  <2>2. CASE info' = info
    BY <2>1, <2>2 DEF ReadInv
  <2>3. ASSUME NEW c \in Cells, NEW fixed,
               info' = [[info EXCEPT
                          !.freq = iw_freq2float(DriverFreq(driver, c)),
                          !.freqFlags = fixed, !.of.freq = c]
                        EXCEPT !.has = @ \cup {"FREQ"}]
        PROVE  ReadInv'
    <3>1. /\ DOMAIN info' = DOMAIN info /\ DOMAIN info'.of = DOMAIN info.of
          /\ info'.has = info.has \cup {"FREQ"} /\ info'.of.freq = c
          /\ info'.freq = iw_freq2float(DriverFreq(driver, c))
          /\ info'.range = info.range
      BY <2>3 DEF ReadInv, InfoOK
    <3> QED
      BY <2>1, <3>1 DEF ReadInv, InfoOK
  <2> QED
    BY <1>3, <2>2, <2>3 DEF GetFreq, Answered
<1>4. CASE GetEssid
  <2>1. /\ pc = "essid" /\ pc' = "range" /\ driver' = driver
        /\ "STATS" \notin info.has
    BY <1>4 DEF ReadInv, GetEssid, Step, Answered
  <2>2. CASE info' = info
    BY <2>1, <2>2 DEF ReadInv
  <2>3. ASSUME NEW name, NEW on,
               info' = [[info EXCEPT !.essid = name, !.essidOn = on]
                        EXCEPT !.has = @ \cup {"ESSID"}]
        PROVE  ReadInv'
    <3>1. /\ DOMAIN info' = DOMAIN info /\ info'.of = info.of
          /\ info'.has = info.has \cup {"ESSID"} /\ info'.freq = info.freq
          /\ info'.range = info.range
      BY <2>3 DEF ReadInv, InfoOK
    <3> QED
      BY <2>1, <3>1 DEF ReadInv, InfoOK
  <2> QED
    BY <1>4, <2>2, <2>3 DEF GetEssid, Answered
<1>5. CASE GetRange
  <2>1. /\ pc = "range" /\ pc' = "stats" /\ driver' = driver
        /\ "STATS" \notin info.has
    BY <1>5 DEF ReadInv, GetRange, Step, Answered
  <2>2. CASE info' = info
    BY <2>1, <2>2 DEF ReadInv
  <2>3. CASE info' = [[info EXCEPT !.range = iw_get_range_info(driver)]
                      EXCEPT !.has = @ \cup {"RANGE"}]
    <3>1. /\ DOMAIN info' = DOMAIN info /\ info'.of = info.of
          /\ info'.has = info.has \cup {"RANGE"} /\ info'.freq = info.freq
          /\ info'.range = iw_get_range_info(driver)
      BY <2>3 DEF ReadInv, InfoOK
    <3> QED
      BY <2>1, <3>1 DEF ReadInv, InfoOK
  <2> QED
    BY <1>5, <2>2, <2>3 DEF GetRange, Answered
<1>6. CASE GetStats
  <2>1. pc = "stats" /\ pc' = "rest" /\ driver' = driver
    BY <1>6 DEF GetStats, Step, Answered
  <2>2. CASE info' = info
    BY <2>1, <2>2 DEF ReadInv
  <2>3. ASSUME NEW c \in Cells, NEW silent \in Silences,
               info' = [[info EXCEPT
                          !.stats = DriverStats(driver, c, silent,
                                                ByRequest(info)),
                          !.of.link = c]
                        EXCEPT !.has = @ \cup {"STATS"}]
        PROVE  ReadInv'
    <3>1. /\ DOMAIN info' = DOMAIN info /\ DOMAIN info'.of = DOMAIN info.of
          /\ info'.has = info.has \cup {"STATS"} /\ info'.of.link = c
          /\ info'.of.freq = info.of.freq /\ info'.freq = info.freq
          /\ info'.stats = DriverStats(driver, c, silent, ByRequest(info))
          /\ info'.range = info.range
      BY <2>3 DEF ReadInv, InfoOK
    <3>2. ByRequest(info') = ByRequest(info)
      BY <3>1 DEF ByRequest
    <3> QED
      BY <2>1, <3>1, <3>2 DEF ReadInv, InfoOK
  <2> QED
    BY <1>6, <2>2, <2>3 DEF GetStats, Answered
<1>7. CASE GetRest
  <2>1. /\ pc' = "display" /\ driver' = driver
        /\ info' = [info EXCEPT
                      !.has = @ \cup (PlainAsked(info) \cap driver.optional)]
    BY <1>7 DEF GetRest, Step
  <2> DEFINE more == PlainAsked(info) \cap driver.optional
  <2>2. more \subseteq Plain
    BY DEF PlainAsked
  <2> HIDE DEF more
  <2>3. /\ DOMAIN info' = DOMAIN info /\ info'.of = info.of
        /\ info'.has = info.has \cup more /\ info'.freq = info.freq
        /\ info'.range = info.range /\ info'.stats = info.stats
    BY <2>1 DEF ReadInv, InfoOK, more
  <2>4. \A r \in {"FREQ", "ESSID", "RANGE", "STATS"} :
          r \in info'.has <=> r \in info.has
    BY <2>2, <2>3, PlainApart
  <2>5. ByRequest(info') = ByRequest(info)
    BY <2>3, <2>4 DEF ByRequest
  <2> QED
    BY <2>1, <2>2, <2>3, <2>4, <2>5 DEF ReadInv, InfoOK
<1>8. CASE display_info
  BY <1>8 DEF ReadInv, display_info, Step
<1>9. CASE ReadWiFi
  BY <1>9, NothingRead DEF ReadInv, ReadWiFi, Step
<1>10. CASE UNCHANGED vars
  BY <1>10 DEF ReadInv, vars
<1> QED
  BY <1>1, <1>2, <1>3, <1>4, <1>5, <1>6, <1>7, <1>8, <1>9, <1>10 DEF Next

\* What info holds is what the driver answered, at every moment of a reading.
LEMMA Reading == Spec => []ReadInv
<1>1. Init => ReadInv
  BY NothingRead DEF Init, ReadInv
<1> QED
  BY <1>1, ReadStep, PTL DEF Spec

-----------------------------------------------------------------------------
(* What a reading leaves behind: the texts.                                 *)

\* The range of the invariant is the one the driver described, and the unit of
\* a driver that has a flag is asked for once it is known.
LEMMA RangeOfReading ==
  ASSUME ReadInv
  PROVE  LET ranged == "RANGE" \in info.has
         IN /\ ranged => /\ info.range.max_qual.level = Reference(driver)
                         /\ info.range.freq = driver.table
            /\ ByRequest(info) => ranged
            /\ ranged /\ driver.unit \in {"DBM", "RCPI"} => ByRequest(info)
<1>1. ASSUME "RANGE" \in info.has
      PROVE  /\ info.range.max_qual.level = Reference(driver)
             /\ info.range.freq = driver.table
             /\ driver.unit \in {"DBM", "RCPI"} =>
                  info.range.we_version_compiled > 11
  <2>1. driver \in Drivers /\ info.range = iw_get_range_info(driver)
    BY <1>1 DEF ReadInv, InfoOK
  <2> QED
    BY <2>1, RangeRead
<1> QED
  BY <1>1 DEF ByRequest

\* A text of statistics, or what the buffer held.
Printed(l) == "unit" \in DOMAIN l => InRanges(l)

\* The link text that display_info prints from the answers of one reading.
LEMMA LinkText ==
  ASSUME ReadInv, "STATS" \in info.has,
         NEW buffer, "unit" \notin DOMAIN buffer
  PROVE  LET ranged == "RANGE" \in info.has
             l == iw_print_stats(buffer, info.stats, info.range, ranged)
         IN /\ Printed(l)
            /\ "word" \in DOMAIN l =>
                 ranged /\ AllInvalid \subseteq info.stats.updated
            /\ "unit" \in DOMAIN l =>
                 Decodes(l, driver, info.of.link, ranged)
<1> DEFINE ranged == "RANGE" \in info.has
<1> DEFINE t == StatsText(info.stats, info.range, ranged)
           l == iw_print_stats(buffer, info.stats, info.range, ranged)
<1>1. /\ driver \in Drivers /\ info.of.link \in Cells
      /\ ranged \in BOOLEAN /\ ByRequest(info) \in BOOLEAN
  BY DEF ReadInv, InfoOK, ByRequest
<1>2. PICK silent \in Silences :
        info.stats = DriverStats(driver, info.of.link, silent, ByRequest(info))
  BY DEF ReadInv, InfoOK
<1>3. /\ info.stats.qual \in 0 .. 255 /\ info.stats.level \in 0 .. 255
      /\ info.stats.noise \in 0 .. 255
  <2>1. /\ info.stats.qual = info.of.link.qual
        /\ info.stats.level =
             Encoded(driver, info.of.link.signal, info.of.link.percent)
        /\ info.stats.noise = Encoded(driver, info.of.link.noise, 0)
    BY <1>2 DEF DriverStats
  <2>2. info.of.link.qual \in 0 .. 255
    BY <1>1, CellAssumption
  <2>3. /\ Encoded(driver, info.of.link.signal, info.of.link.percent) \in 0 .. 255
        /\ Encoded(driver, info.of.link.noise, 0) \in 0 .. 255
    BY Zenon, <1>1, EncodedBytes
  <2> QED
    BY Zenon, <2>1, <2>2, <2>3
<1>4. /\ InRanges(t)
      /\ {t.qual, t.level, t.noise} = {Omitted} =>
           ranged /\ AllInvalid \subseteq info.stats.updated
  BY Zenon, <1>1, <1>3, TextParts
<1>5. DOMAIN t = {"unit", "qual", "level", "noise", "fresh"}
  BY TextFields
<1>6. Decodes(t, driver, info.of.link, ranged)
  <2>1. /\ ranged => info.range.max_qual.level = Reference(driver)
        /\ ByRequest(info) => ranged
        /\ ranged /\ driver.unit \in {"DBM", "RCPI"} => ByRequest(info)
    BY Zenon, RangeOfReading
  <2> HIDE DEF ranged
  <2>2. Decodes(StatsText(DriverStats(driver, info.of.link, silent,
                                      ByRequest(info)), info.range, ranged),
                driver, info.of.link, ranged)
    BY Zenon, <1>1, <2>1, LinkOf
  <2> QED
    BY Zenon, <1>2, <2>2
<1>7. l = IF {t.qual, t.level, t.noise} = {Omitted} THEN buffer ELSE t
  BY Zenon DEF iw_print_stats
<1> HIDE DEF l, t, ranged
<1>8. CASE l = t
  <2>1. "word" \notin DOMAIN l
    BY <1>5, <1>8
  <2>2. Printed(l)
    BY Zenon, <1>4, <1>8 DEF Printed
  <2> QED
    BY Zenon, <1>6, <1>8, <2>1, <2>2 DEF l, ranged
<1>9. CASE l = buffer /\ {t.qual, t.level, t.noise} = {Omitted}
  BY Zenon, <1>4, <1>9 DEF Printed, l, ranged
<1> QED
  BY Zenon, <1>7, <1>8, <1>9

\* The buffer that display_info hands to iw_print_stats.
Buffer == IF "FREQ" \in info.has THEN iw_print_freq(freq, info.freqFlags)
          ELSE Garbage

LEMMA BufferIsWord == "unit" \notin DOMAIN Buffer
BY DEF Buffer, Garbage, iw_print_freq

\* Only display_info writes the link text, from statistics if it has any.
LEMMA LinkWritten ==
  ASSUME [Next]_vars
  PROVE  LET ranged == "RANGE" \in info.has
         IN \/ ifaceinfo'.link = ifaceinfo.link /\ shown'.link = shown.link
            \/ /\ "STATS" \in info.has
               /\ ifaceinfo'.link = iw_print_stats(Buffer, info.stats,
                                                   info.range, ranged)
               /\ shown'.link = [cell |-> info.of.link, ranged |-> ranged,
                                 flags |-> info.stats.updated]
<1>1. CASE display_info
  BY <1>1 DEF display_info, Buffer
<1>2. CASE ~display_info
  BY <1>2 DEF Next, vars, Open, GetName, GetFreq, GetEssid, GetRange, GetStats,
              GetRest, ReadWiFi, Answered
<1> QED
  BY <1>1, <1>2

\* The answers, the texts of the program and of its message have their types:
\* a level in dBm is one eight bits can say (display_info, iw_print_stats).
THEOREM ReadingTypes == Spec => []TypeOK
<1> DEFINE Texts == Printed(ifaceinfo.link) /\ Printed(message.link)
           Stages == {"open", "name", "freq", "essid", "range", "stats",
                      "rest", "display", "join"}
           Inv == pc \in Stages /\ Texts
<1>1. Init => Inv
  <2>1. "unit" \notin DOMAIN Empty
    BY DEF Empty
  <2>2. Init => pc \in Stages /\ ifaceinfo.link = Empty /\ message.link = Empty
    BY DEF Init
  <2> QED
    BY Zenon, <2>1, <2>2 DEF Printed
<1>2. ReadInv /\ Inv /\ [Next]_vars => Inv'
  <2> SUFFICES ASSUME ReadInv, Inv, [Next]_vars PROVE Inv'
    OBVIOUS
  <2>1. pc' \in Stages
    BY DEF Next, vars, Open, GetName, GetFreq, GetEssid, GetRange, GetStats,
           GetRest, display_info, ReadWiFi, Step
  <2>2. Printed(ifaceinfo'.link)
    BY Zenon, LinkWritten, LinkText, BufferIsWord
  <2>3. message'.link = message.link \/ message'.link = ifaceinfo.link
    <3>1. CASE ReadWiFi
      BY <3>1 DEF ReadWiFi
    <3>2. CASE ~ReadWiFi
      BY <3>2 DEF Next, vars, Open, GetName, GetFreq, GetEssid, GetRange,
                  GetStats, GetRest, display_info, Answered
    <3> QED
      BY <3>1, <3>2
  <2> QED
    BY Zenon, <2>1, <2>2, <2>3
<1>3. ReadInv /\ Inv => TypeOK
  <2> SUFFICES ASSUME ReadInv, Inv PROVE TypeOK
    OBVIOUS
  <2>1. info.has \subseteq Plain \cup {"FREQ", "ESSID", "RANGE", "STATS"}
    BY DEF ReadInv, InfoOK
  <2>2. \A text \in {ifaceinfo.link, message.link} :
          "unit" \in DOMAIN text => InRanges(text)
    BY Zenon DEF Printed
  <2>3. pc \in Stages
    OBVIOUS
  <2> QED
    BY Zenon, <2>1, <2>2, <2>3 DEF TypeOK, InRanges
<1> QED
  BY <1>1, <1>2, <1>3, Reading, PTL DEF Spec

\* The link text shown is made of statistics, unless a driver with a known
\* range disowned every part of them: the buffer that held the frequency is
\* never shown for another reason (display_info, iw_print_stats).
THEOREM LinkTextHonest == Spec => []LinkIsStatistics
<1>1. Init => LinkIsStatistics
  BY DEF Init, LinkIsStatistics
<1>2. ReadInv /\ LinkIsStatistics /\ [Next]_vars => LinkIsStatistics'
  <2> SUFFICES ASSUME ReadInv, LinkIsStatistics, [Next]_vars
      PROVE  LinkIsStatistics'
    OBVIOUS
  <2>1. CASE ifaceinfo'.link = ifaceinfo.link /\ shown'.link = shown.link
    BY <2>1 DEF LinkIsStatistics
  <2>2. ASSUME "STATS" \in info.has,
               ifaceinfo'.link = iw_print_stats(Buffer, info.stats, info.range,
                                                "RANGE" \in info.has),
               shown'.link = [cell |-> info.of.link,
                              ranged |-> "RANGE" \in info.has,
                              flags |-> info.stats.updated]
        PROVE  LinkIsStatistics'
    <3>1. "word" \in DOMAIN ifaceinfo'.link =>
            "RANGE" \in info.has /\ AllInvalid \subseteq info.stats.updated
      BY Zenon, <2>2, LinkText, BufferIsWord
    <3>2. /\ shown'.link.ranged = ("RANGE" \in info.has)
          /\ shown'.link.flags = info.stats.updated
      BY <2>2
    <3> QED
      BY Zenon, <3>1, <3>2 DEF LinkIsStatistics
  <2> QED
    BY Zenon, <2>1, <2>2, LinkWritten
<1> QED
  BY <1>1, <1>2, Reading, PTL DEF Spec

\* A level shown is the true one: in dBm or half dBm it is the cell's own, and a
\* driver that flags its unit is understood as soon as its range is known
\* (iw_get_stats, iw_print_stats).
THEOREM LevelsTrue == Spec => []LinkDecodes
<1>1. LinkDecodes <=>
        ("unit" \in DOMAIN ifaceinfo.link =>
           Decodes(ifaceinfo.link, driver, shown.link.cell, shown.link.ranged))
  BY Zenon DEF LinkDecodes, Decodes
<1> DEFINE Right == "unit" \in DOMAIN ifaceinfo.link =>
             Decodes(ifaceinfo.link, driver, shown.link.cell, shown.link.ranged)
<1>2. Init => Right
  <2>1. "unit" \notin DOMAIN Empty
    BY DEF Empty
  <2>2. Init => ifaceinfo.link = Empty
    BY DEF Init
  <2> QED
    BY Zenon, <2>1, <2>2
<1>3. ReadInv /\ Right /\ [Next]_vars => Right'
  <2> SUFFICES ASSUME ReadInv, Right, [Next]_vars PROVE Right'
    OBVIOUS
  <2>1. driver' = driver
    BY DEF Next, vars, Open, GetName, GetFreq, GetEssid, GetRange, GetStats,
           GetRest, display_info, ReadWiFi, Answered
  <2>2. CASE ifaceinfo'.link = ifaceinfo.link /\ shown'.link = shown.link
    BY Zenon, <2>1, <2>2
  <2>3. ASSUME "STATS" \in info.has,
               ifaceinfo'.link = iw_print_stats(Buffer, info.stats, info.range,
                                                "RANGE" \in info.has),
               shown'.link = [cell |-> info.of.link,
                              ranged |-> "RANGE" \in info.has,
                              flags |-> info.stats.updated]
        PROVE  Right'
    <3>1. "unit" \in DOMAIN ifaceinfo'.link =>
            Decodes(ifaceinfo'.link, driver, info.of.link, "RANGE" \in info.has)
      BY Zenon, <2>3, LinkText, BufferIsWord
    <3>2. /\ shown'.link.cell = info.of.link
          /\ shown'.link.ranged = ("RANGE" \in info.has)
      BY <2>3
    <3> QED
      BY Zenon, <2>1, <3>1, <3>2
  <2> QED
    BY Zenon, <2>2, <2>3, LinkWritten
<1> QED
  BY <1>1, <1>2, <1>3, Reading, PTL DEF Spec

\* An old range is read as the driver wrote it (iw_get_range_info).
THEOREM RangeUnderstood == Spec => []RangeTranslated
<1>1. ReadInv => RangeTranslated
  BY RangeRead, LayoutsDoAgree DEF ReadInv, InfoOK, RangeTranslated
<1> QED
  BY <1>1, Reading, PTL

\* What display_info makes of the bytes of the frequency.
LEMMA FrequencyWritten ==
  ASSUME ReadInv, [Next]_vars
  PROVE  LET ranged == "RANGE" \in info.has
             f == Corrected(info.freq, info.range, ranged)
         IN \/ /\ pc' # "join" \/ UNCHANGED <<pc, info>>
               /\ UNCHANGED <<ifaceinfo, shown>>
            \/ /\ "FREQ" \notin info.has /\ info' = info
               /\ ifaceinfo'.freq \in {ifaceinfo.freq, NameEnd}
               /\ shown'.freq = shown.freq
            \/ /\ "FREQ" \in info.has
               /\ ifaceinfo'.freq = iw_print_freq(f, info.freqFlags)
               /\ shown'.freq = [cell |-> info.of.freq, ranged |-> ranged]
<1> DEFINE ranged == "RANGE" \in info.has
           f == Corrected(info.freq, info.range, ranged)
<1>1. CASE display_info
  <2>1. freq = f
    BY Zenon DEF freq, Corrected
  <2>2. /\ ifaceinfo'.freq = FreqAfterName(ifaceinfo.freq,
                                            iw_print_freq(f, info.freqFlags))
        /\ shown'.freq = IF "FREQ" \notin info.has THEN shown.freq
                         ELSE [cell |-> info.of.freq, ranged |-> ranged]
        /\ info' = info
    BY <1>1, <2>1 DEF display_info
  <2> HIDE DEF f, ranged
  <2>3. CASE "FREQ" \in info.has
    BY Zenon, <2>2, <2>3 DEF FreqAfterName, f, ranged
  <2>4. CASE "FREQ" \notin info.has
    <3>1. ifaceinfo'.freq \in {ifaceinfo.freq, NameEnd}
      BY <2>2, <2>4 DEF FreqAfterName
    <3> QED
      BY Zenon, <2>2, <2>4, <3>1
  <2> QED
    BY <2>3, <2>4
<1>2. CASE ~display_info
  BY <1>2 DEF Next, vars, Open, GetName, GetFreq, GetEssid, GetRange, GetStats,
              GetRest, ReadWiFi, Answered, Step
<1> QED
  BY <1>1, <1>2

\* A frequency shown is that of the cell that answered, and a channel is shown
\* only of a driver that states channels and whose known range has no frequency
\* for it; a name printed over the bytes is always printed over again
\* (display_info, iw_channel_to_freq).
THEOREM FrequencyTrue == Spec => []FreqShown
<1> DEFINE Right == Tells(ifaceinfo.freq, driver, shown.freq.cell,
                         shown.freq.ranged)
           Shown == pc = "join" /\ "FREQ" \in info.has =>
                       ifaceinfo.freq.word \in {"Channel", "Frequency"}
           Inv == Right /\ Shown
<1>1. FreqShown <=> Inv
  BY Zenon DEF FreqShown, Tells
<1>2. Init => Inv
  <2>1. Empty.word # "Frequency" /\ Empty.word # "Channel"
    BY DEF Empty
  <2>2. Init => pc = "open" /\ ifaceinfo.freq = Empty
    BY DEF Init
  <2>3. "open" # "join"
    OBVIOUS
  <2> QED
    BY Zenon, <2>1, <2>2, <2>3 DEF Tells
<1>3. ReadInv /\ Inv /\ [Next]_vars => Inv'
  <2> SUFFICES ASSUME ReadInv, Inv, [Next]_vars PROVE Inv'
    OBVIOUS
  <2> DEFINE ranged == "RANGE" \in info.has
             f == Corrected(info.freq, info.range, ranged)
  <2>1. driver' = driver
    BY DEF Next, vars, Open, GetName, GetFreq, GetEssid, GetRange, GetStats,
           GetRest, display_info, ReadWiFi, Answered
  <2>2. CASE /\ pc' # "join" \/ UNCHANGED <<pc, info>>
             /\ UNCHANGED <<ifaceinfo, shown>>
    BY Zenon, <2>1, <2>2
  <2>3. ASSUME "FREQ" \notin info.has, info' = info,
               ifaceinfo'.freq \in {ifaceinfo.freq, NameEnd},
               shown'.freq = shown.freq
        PROVE  Inv'
    <3>1. CASE ifaceinfo'.freq = ifaceinfo.freq
      BY Zenon, <2>1, <2>3, <3>1
    <3>2. CASE ifaceinfo'.freq = NameEnd
      <4>1. NameEnd.word # "Frequency" /\ NameEnd.word # "Channel"
        BY DEF NameEnd
      <4> QED
        BY Zenon, <2>1, <2>3, <3>2, <4>1 DEF Tells
    <3> QED
      BY <2>3, <3>1, <3>2
  <2>4. ASSUME "FREQ" \in info.has,
               ifaceinfo'.freq = iw_print_freq(f, info.freqFlags),
               shown'.freq = [cell |-> info.of.freq, ranged |-> ranged]
        PROVE  Inv'
    <3>1. /\ driver \in Drivers /\ info.of.freq \in Cells
          /\ info.freq = iw_freq2float(DriverFreq(driver, info.of.freq))
      BY <2>4 DEF ReadInv, InfoOK
    <3>2. ranged \in BOOLEAN /\ (ranged => info.range.freq = driver.table)
      BY RangeOfReading
    <3>3. shown'.freq.cell = info.of.freq /\ shown'.freq.ranged = ranged
      BY <2>4
    <3> HIDE DEF ranged
    <3>4. /\ Tells(iw_print_freq(f, info.freqFlags), driver, info.of.freq, ranged)
          /\ iw_print_freq(f, info.freqFlags).word \in {"Channel", "Frequency"}
      BY Zenon, <3>1, <3>2, FreqOf
    <3> QED
      BY Zenon, <2>1, <2>4, <3>3, <3>4
  <2> QED
    BY Zenon, <2>2, <2>3, <2>4, FrequencyWritten
<1> QED
  BY <1>1, <1>2, <1>3, Reading, PTL DEF Spec

=============================================================================
