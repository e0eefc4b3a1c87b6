------------------------------- MODULE Iwlib -------------------------------
(***************************************************************************)
(* The pure part of the wireless library the board is built with            *)
(* (src/board/iwconfig): the two layouts of the driver's range structure    *)
(* and the translation of the old one, the conversions between a channel, a *)
(* frequency and what is printed, and between the eight bits of a signal    *)
(* level and its value.                                                     *)
(*                                                                          *)
(* Offsets are those of the board's compiler, 32-bit ARM: a field starts at *)
(* a multiple of its alignment.                                             *)
(***************************************************************************)
EXTENDS Integers, Sequences, SequencesExt

-----------------------------------------------------------------------------
(* Layouts: sequences of fields.  A type is its size and alignment.         *)

U8 == <<1, 1>>
U16 == <<2, 2>>
U32 == <<4, 4>>
iw_freq == <<8, 4>>
iw_quality == <<4, 1>>

Array(name, type, n) ==
  <<[name |-> name, size |-> n * type[1], align |-> type[2]]>>

Fields(type, names) ==
  [k \in DOMAIN names |->
     [name |-> names[k], size |-> type[1], align |-> type[2]]]

Thresholds == Fields(U32, <<"min_rts", "max_rts", "min_frag", "max_frag",
                            "min_pmp", "max_pmp", "min_pmt", "max_pmt">>)
              \o Fields(U16, <<"pmp_flags", "pmt_flags", "pm_capa">>)
Retries == Fields(U16, <<"retry_capa", "retry_flags", "r_time_flags">>)
           \o Fields(U32, <<"min_retry", "max_retry",
                            "min_r_time", "max_r_time">>)
Versions == Fields(U8, <<"we_version_compiled", "we_version_source">>)
Channels(max) == Fields(U16, <<"num_channels">>)
                 \o Fields(U8, <<"num_frequency">>)
                 \o Array("freq", iw_freq, max)
Bitrates(max) == Fields(U8, <<"num_bitrates">>) \o Array("bitrate", U32, max)
Powers == Fields(U16, <<"txpower_capa">>) \o Fields(U8, <<"num_txpower">>)
          \o Array("txpower", U32, 8)
Tokens == Array("encoding_size", U16, 8)
          \o Fields(U8, <<"num_encoding_sizes", "max_encoding_tokens">>)
Network == Fields(U32, <<"throughput", "min_nwid", "max_nwid">>)

\* Wireless extensions 9 to 15.
iw15_range ==
  Network \o Channels(16) \o Fields(U32, <<"sensitivity">>)
  \o Fields(iw_quality, <<"max_qual">>) \o Bitrates(8) \o Thresholds
  \o Tokens \o Powers \o Versions \o Retries
  \o Fields(iw_quality, <<"avg_qual">>)

\* Wireless extensions 16 and later.
iw_range ==
  Network \o Fields(U16, <<"old_num_channels">>)
  \o Fields(U8, <<"old_num_frequency">>) \o Array("event_capa", U32, 6)
  \o Fields(U32, <<"sensitivity">>)
  \o Fields(iw_quality, <<"max_qual", "avg_qual">>) \o Bitrates(32)
  \o Thresholds \o Tokens \o Fields(U8, <<"encoding_login_index">>)
  \o Powers \o Versions \o Retries \o Channels(32)
  \o Fields(U32, <<"enc_capa", "min_pms", "max_pms">>)
  \o Fields(U16, <<"pms_flags">>)
  \o Fields(U32, <<"modul_capa", "bitrate_capa">>)

Aligned(n, align) == ((n + align - 1) \div align) * align

\* The offset of each field of a layout, by name.
Offsets(layout) ==
  LET off[k \in DOMAIN layout] ==
        IF k = 1 THEN 0
        ELSE Aligned(off[k - 1] + layout[k - 1].size, layout[k].align)
  IN [f \in {layout[k].name : k \in DOMAIN layout} |->
        off[CHOOSE k \in DOMAIN layout : layout[k].name = f]]

SizeOf(layout) ==
  LET last == layout[Len(layout)] IN
  Aligned(Offsets(layout)[last.name] + last.size, 4)

iwr15_off == Offsets(iw15_range)
iwr_off == Offsets(iw_range)
SizeIn(layout, f) ==
  layout[CHOOSE k \in DOMAIN layout : layout[k].name = f].size

Bytes(layout, f) ==
  Offsets(layout)[f] .. (Offsets(layout)[f] + SizeIn(layout, f) - 1)

-----------------------------------------------------------------------------
(* iw_get_range_info: the translation of an old answer.                     *)

\* A mutant: the transmit powers are copied with the fields before them.
BlocksTxpowerUnmoved ==
  <<<<"throughput", "num_channels">>, <<"num_channels", "sensitivity">>,
    <<"sensitivity", "num_bitrates">>, <<"num_bitrates", "min_rts">>,
    <<"min_rts", "txpower">>, <<"txpower", "avg_qual">>>>

\* Each memcpy moves the bytes from one field up to another.
Blocks ==
  <<<<"throughput", "num_channels">>, <<"num_channels", "sensitivity">>,
    <<"sensitivity", "num_bitrates">>, <<"num_bitrates", "min_rts">>,
    <<"min_rts", "txpower_capa">>, <<"txpower_capa", "txpower">>,
    <<"txpower", "avg_qual">>>>

\* Where byte b of the new structure comes from, -1 if it stays zero.  Later
\* copies win; the last one moves avg_qual alone.
Source ==
  LET Copied(k, b) ==
        b - iwr_off[Blocks[k][1]]
          \in 0 .. (iwr15_off[Blocks[k][2]] - iwr15_off[Blocks[k][1]] - 1)
  IN [b \in 0 .. SizeOf(iw_range) - 1 |->
        IF b \in Bytes(iw_range, "avg_qual")
        THEN b - iwr_off["avg_qual"] + iwr15_off["avg_qual"]
        ELSE LET ks == {k \in DOMAIN Blocks : Copied(k, b)}
                 k == CHOOSE k \in ks : \A j \in ks : j <= k
             IN IF ks = {} THEN -1
                ELSE b - iwr_off[Blocks[k][1]] + iwr15_off[Blocks[k][1]]]

\* The fields of an old answer that are where the new structure has them.
Carried ==
  {f \in DOMAIN iwr15_off : \A n \in 0 .. SizeIn(iw15_range, f) - 1 :
     Source[iwr_off[f] + n] = iwr15_off[f] + n}

\* The fields of the new structure that no byte of an old field got into.
Clean ==
  LET old == UNION {Bytes(iw15_range, f) : f \in DOMAIN iwr15_off}
  IN {f \in DOMAIN iwr_off : \A b \in Bytes(iw_range, f) : Source[b] \notin old}

VersionMoved ==
  iwr_off["we_version_compiled"] # iwr15_off["we_version_compiled"]

\* Every old field is found where the new structure has it, no byte of one
\* gets into a field the old structure did not have, and the version can be
\* read before the layout is known.
LayoutsAgree ==
  /\ Carried = DOMAIN iwr15_off
  /\ Clean = DOMAIN iwr_off \ DOMAIN iwr15_off
  /\ {"we_version_compiled", "max_qual", "freq", "num_frequency"} \subseteq Carried
  /\ ~VersionMoved

RangeBytes == SizeOf(iw_range)

-----------------------------------------------------------------------------
(* Frequencies: m * 10^e, m without trailing zeros.                         *)

Digits(n) ==
  CHOOSE d \in 1 .. 9 : n < 10 ^ d /\ \A c \in 1 .. d - 1 : n >= 10 ^ c

TrailingZeros(m) ==
  CHOOSE z \in 0 .. 8 : m % 10 ^ z = 0 /\ m % 10 ^ (z + 1) # 0

iw_freq2float(in) ==
  LET zeros == TrailingZeros(in.m)
  IN IF in.m = 0 THEN [m |-> 0, e |-> 0]
     ELSE [m |-> in.m \div 10 ^ zeros, e |-> in.e + zeros]

Below(freq, power) == Digits(freq.m) + freq.e <= power
KILO == 3
MEGA == 6
GIGA == 9

\* The first entry of the table for a channel.
iw_channel_to_freq(channel, freq, table) ==
  LET listed == {k \in DOMAIN table : table[k].i = channel}
      hasFreq == \E k \in DOMAIN table : table[k].e # 0 \/ table[k].m > 1000
  IN IF ~hasFreq \/ listed = {} THEN freq
     ELSE iw_freq2float(table[CHOOSE k \in listed : \A j \in listed : k <= j])

\* What is printed: with a scale, or as a channel.  %g keeps six digits, more
\* than a Wi-Fi frequency has.
iw_print_freq(freq, flags) ==
  [word |-> IF Below(freq, KILO) THEN "Channel" ELSE "Frequency",
   sep |-> IF flags = "FIXED" THEN "=" ELSE ":",
   value |-> freq,
   scale |-> Max({0} \cup {p \in {KILO, MEGA, GIGA} : ~Below(freq, p)})]

-----------------------------------------------------------------------------
(* Statistics.  `updated' is the set of its flags without IW_QUAL_.         *)

AllInvalid == {"QUAL_INVALID", "LEVEL_INVALID", "NOISE_INVALID"}
AllUpdated == {"QUAL_UPDATED", "LEVEL_UPDATED", "NOISE_UPDATED"}

\* A mutant: dBm are always negative, as in older tools.
DBmNegative(level) == level - 256

\* dBm are encoded between -192 and 63.
DBm(level) == IF level >= 64 THEN level - 256 ELSE level

Omitted == 1000   \* no level has this value

\* A mutant: the maximum itself counts as dBm.
IsDBmAtMax(qual, range) ==
  "DBM" \in qual.updated \/ qual.level >= range.max_qual.level

\* By the flag, or the old way: relative levels go from 0 to the maximum.
IsDBm(qual, range) ==
  "DBM" \in qual.updated \/ qual.level > range.max_qual.level

\* What iw_print_stats writes.  `unit' is that of level and noise; levels in
\* RCPI are in half dB.
StatsText(qual, range, hasRange) ==
  LET u == qual.updated
      known == hasRange /\ (qual.level # 0 \/ u \cap {"DBM", "RCPI"} # {})
      unit == IF ~known THEN "raw"
              ELSE IF "RCPI" \in u THEN "half dBm"
              ELSE IF IsDBm(qual, range) THEN "dBm" ELSE "relative"
      Level(v) == CASE unit = "half dBm" -> v - 220 [] unit = "dBm" -> DBm(v)
                    [] OTHER -> v
      Unless(flag, v) == IF known /\ flag \in u THEN Omitted ELSE v
  IN [unit |-> unit, qual |-> Unless("QUAL_INVALID", qual.qual),
      level |-> Unless("LEVEL_INVALID", Level(qual.level)),
      noise |-> Unless("NOISE_INVALID", Level(qual.noise)),
      fresh |-> IF known THEN u \cap AllUpdated ELSE {}]

\* A mutant: without a level nothing is printed.
iw_print_statsLevelOnly(buffer, qual, range, hasRange) ==
  LET text == StatsText(qual, range, hasRange)
  IN IF text.level = Omitted THEN buffer ELSE text

\* If nothing is printed the buffer keeps what it held.
iw_print_stats(buffer, qual, range, hasRange) ==
  LET text == StatsText(qual, range, hasRange)
  IN IF {text.qual, text.level, text.noise} = {Omitted} THEN buffer ELSE text

=============================================================================
