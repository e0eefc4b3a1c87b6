---------------------------- MODULE IwlibProofs ----------------------------
(***************************************************************************)
(* The translation of the old range structure is right: LayoutsAgree.  The  *)
(* statement has no variable, but it is about offsets, which add up field   *)
(* by field.  Two tables write them down; a layout that spells a table is   *)
(* laid out as the table says, because the recursion has only one solution, *)
(* and what is left is arithmetic on the tables.                            *)
(***************************************************************************)
EXTENDS Iwlib, SequenceTheorems, WellFoundedInduction, TLAPS

-----------------------------------------------------------------------------
(* The tables.                                                              *)

\* The layout of extensions 9 to 15: names, places, sizes and alignments.
OldNames ==
  <<"throughput", "min_nwid", "max_nwid", "num_channels", "num_frequency",
  "freq", "sensitivity", "max_qual", "num_bitrates", "bitrate", "min_rts",
  "max_rts", "min_frag", "max_frag", "min_pmp", "max_pmp", "min_pmt",
  "max_pmt", "pmp_flags", "pmt_flags", "pm_capa", "encoding_size",
  "num_encoding_sizes", "max_encoding_tokens", "txpower_capa",
  "num_txpower", "txpower", "we_version_compiled", "we_version_source",
  "retry_capa", "retry_flags", "r_time_flags", "min_retry", "max_retry",
  "min_r_time", "max_r_time", "avg_qual">>
OldStarts ==
  <<0, 4, 8, 12, 14, 16, 144, 148, 152, 156, 188, 192, 196, 200, 204, 208,
  212, 216, 220, 222, 224, 226, 242, 243, 244, 246, 248, 280, 281, 282, 284,
  286, 288, 292, 296, 300, 304>>
OldSizes ==
  <<4, 4, 4, 2, 1, 128, 4, 4, 1, 32, 4, 4, 4, 4, 4, 4, 4, 4, 2, 2, 2, 16, 1,
  1, 2, 1, 32, 1, 1, 2, 2, 2, 4, 4, 4, 4, 4>>
OldAligns ==
  <<4, 4, 4, 2, 1, 4, 4, 1, 1, 4, 4, 4, 4, 4, 4, 4, 4, 4, 2, 2, 2, 2, 1, 1,
  2, 1, 4, 1, 1, 2, 2, 2, 4, 4, 4, 4, 1>>

\* The layout of extensions 16 and later.
NewNames ==
  <<"throughput", "min_nwid", "max_nwid", "old_num_channels",
  "old_num_frequency", "event_capa", "sensitivity", "max_qual", "avg_qual",
  "num_bitrates", "bitrate", "min_rts", "max_rts", "min_frag", "max_frag",
  "min_pmp", "max_pmp", "min_pmt", "max_pmt", "pmp_flags", "pmt_flags",
  "pm_capa", "encoding_size", "num_encoding_sizes", "max_encoding_tokens",
  "encoding_login_index", "txpower_capa", "num_txpower", "txpower",
  "we_version_compiled", "we_version_source", "retry_capa", "retry_flags",
  "r_time_flags", "min_retry", "max_retry", "min_r_time", "max_r_time",
  "num_channels", "num_frequency", "freq", "enc_capa", "min_pms", "max_pms",
  "pms_flags", "modul_capa", "bitrate_capa">>
NewStarts ==
  <<0, 4, 8, 12, 14, 16, 40, 44, 48, 52, 56, 184, 188, 192, 196, 200, 204,
  208, 212, 216, 218, 220, 222, 238, 239, 240, 242, 244, 248, 280, 281, 282,
  284, 286, 288, 292, 296, 300, 304, 306, 308, 564, 568, 572, 576, 580,
  584>>
NewSizes ==
  <<4, 4, 4, 2, 1, 24, 4, 4, 4, 1, 128, 4, 4, 4, 4, 4, 4, 4, 4, 2, 2, 2, 16,
  1, 1, 1, 2, 1, 32, 1, 1, 2, 2, 2, 4, 4, 4, 4, 2, 1, 256, 4, 4, 4, 2, 4,
  4>>
NewAligns ==
  <<4, 4, 4, 2, 1, 4, 4, 1, 1, 1, 4, 4, 4, 4, 4, 4, 4, 4, 4, 2, 2, 2, 2, 1,
  1, 1, 2, 1, 4, 1, 1, 2, 2, 2, 4, 4, 4, 4, 2, 1, 4, 4, 4, 4, 2, 4, 4>>

\* Of each field of the first table its place in the second and the block that
\* carries it, and of each block where it starts and ends.
NewPlace ==
  <<1, 2, 3, 39, 40, 41, 7, 8, 10, 11, 12, 13, 14, 15, 16, 17, 18, 19, 20,
    21, 22, 23, 24, 25, 27, 28, 29, 30, 31, 32, 33, 34, 35, 36, 37, 38, 9>>
BlockOf ==
  <<1, 1, 1, 2, 2, 2, 3, 3, 4, 4, 5, 5, 5, 5, 5, 5, 5, 5, 5, 5, 5, 5, 5, 5,
    6, 6, 7, 7, 7, 7, 7, 7, 7, 7, 7, 7>>
OldFrom == <<0, 12, 144, 152, 188, 244, 248>>
OldTo == <<12, 144, 152, 188, 244, 248, 304>>
NewFrom == <<0, 304, 40, 52, 184, 242, 248>>

\* The fields that only the second table has.
Added == {4, 5, 6, 26, 42, 43, 44, 45, 46, 47}

-----------------------------------------------------------------------------
(* Layouts and tables.                                                      *)

\* A table as a sequence of fields.
Rows(names, sizes, aligns, n) ==
  [k \in 1 .. n |->
     [name |-> names[k], size |-> sizes[k], align |-> aligns[k]]]

\* A table: distinct fields, each at the first place after the one before it
\* that it can start at.
Fit(names, starts, sizes, aligns, n) ==
  /\ n \in Nat \ {0} /\ starts[1] = 0
  /\ \A j, k \in 1 .. n : names[j] = names[k] => j = k
  /\ \A k \in 2 .. n :
       starts[k] = Aligned(starts[k - 1] + sizes[k - 1], aligns[k])

\* A layout has these fields, at these places and of these sizes.
Laid(layout, names, starts, sizes, n) ==
  /\ DOMAIN Offsets(layout) = {names[k] : k \in 1 .. n}
  /\ \A k \in 1 .. n : /\ Offsets(layout)[names[k]] = starts[k]
                       /\ SizeIn(layout, names[k]) = sizes[k]

\* The rows of the two tables.
OldRow == Rows(OldNames, OldSizes, OldAligns, 37)
NewRow == Rows(NewNames, NewSizes, NewAligns, 47)

\* A sequence of fields is the rows of a table from one place to another.
Spells(s, m, n, R) ==
  /\ s \in Seq({R[k] : k \in DOMAIN R}) /\ Len(s) = n - m
  /\ \A k \in 1 .. n - m : s[k] = R[m + k]

\* Some numbers have a least one.
LEMMA LeastOf ==
  ASSUME NEW S \in SUBSET Nat, S # {}
  PROVE  \E k \in S : \A j \in S : k <= j
<1>1. PICK k \in S : \A j \in S : <<j, k>> \notin OpToRel(<, Nat)
  BY WFMin, NatLessThanWellFounded
<1>2. \A j \in S : k <= j
  <2> TAKE j \in S
  <2>1. ~(<<j, k>> \in OpToRel(<, Nat))
    BY <1>1
  <2>2. j \in Nat /\ k \in Nat /\ ~(j < k)
    BY <2>1 DEF OpToRel
  <2> QED
    BY <2>2
<1> QED
  BY <1>2

\* Two pieces of a table, one after the other.
LEMMA Concatenated ==
  ASSUME NEW m \in Nat, NEW n \in Nat, NEW p \in Nat, NEW R,
         NEW s, NEW t, m <= n, n <= p, Spells(s, m, n, R), Spells(t, n, p, R)
  PROVE  Spells(s \o t, m, p, R)
<1> DEFINE Row == {R[k] : k \in DOMAIN R}
<1> HIDE DEF Row
<1>1. /\ s \in Seq(Row) /\ Len(s) = n - m
      /\ t \in Seq(Row) /\ Len(t) = p - n
  BY DEF Spells, Row
<1>2. /\ s \o t \in Seq(Row) /\ Len(s \o t) = p - m
      /\ \A k \in 1 .. n - m : (s \o t)[k] = s[k]
      /\ \A k \in 1 .. p - n : (s \o t)[n - m + k] = t[k]
  <2>1. /\ s \o t \in Seq(Row) /\ Len(s \o t) = Len(s) + Len(t)
        /\ \A k \in 1 .. Len(s) + Len(t) : (s \o t)[k] =
             IF k <= Len(s) THEN s[k] ELSE t[k - Len(s)]
    BY Zenon, <1>1, ConcatProperties
  <2>2. ASSUME NEW k \in 1 .. n - m PROVE (s \o t)[k] = s[k]
    BY <1>1, <2>1
  <2>3. ASSUME NEW k \in 1 .. p - n PROVE (s \o t)[n - m + k] = t[k]
    <3> DEFINE j == n - m + k
    <3>1. j \in 1 .. Len(s) + Len(t) /\ ~(j <= Len(s)) /\ j - Len(s) = k
      BY <1>1
    <3> HIDE DEF j
    <3>2. (s \o t)[j] = t[k]
      BY <2>1, <3>1
    <3> QED
      BY <3>2 DEF j
  <2> QED
    BY <1>1, <2>1, <2>2, <2>3
<1>3. ASSUME NEW k \in 1 .. p - m PROVE (s \o t)[k] = R[m + k]
  <2>1. CASE k <= n - m
    BY <1>2, <2>1 DEF Spells
  <2>2. CASE k > n - m
    <3> DEFINE j == k - (n - m)
    <3>1. j \in 1 .. p - n /\ k = n - m + j /\ n + j = m + k
      BY <2>2
    <3>2. t[j] = R[n + j]
      BY <3>1 DEF Spells
    <3> HIDE DEF j
    <3> QED
      BY <1>2, <3>1, <3>2
  <2>3. k <= n - m \/ k > n - m
    OBVIOUS
  <2> QED
    BY Zenon, <2>1, <2>2, <2>3
<1> QED
  BY <1>2, <1>3 DEF Spells, Row

\* The rows from m to n are fields of one type with these names.
Lists(names, type, m, n, R) ==
  /\ m \in Nat /\ n \in Nat /\ m <= n /\ DOMAIN names = 1 .. n - m
  /\ \A k \in 1 .. n - m :
       /\ m + k \in DOMAIN R
       /\ R[m + k] = [name |-> names[k], size |-> type[1], align |-> type[2]]

\* Fields of one type.
LEMMA FieldsSpelt ==
  ASSUME NEW m, NEW n, NEW R, NEW type, NEW names, Lists(names, type, m, n, R)
  PROVE  Spells(Fields(type, names), m, n, R)
<1> DEFINE Row == {R[k] : k \in DOMAIN R}
<1>1. Fields(type, names) = [k \in 1 .. n - m |-> R[m + k]]
  BY DEF Fields, Lists
<1>2. Fields(type, names) \in [1 .. n - m -> Row]
  BY <1>1 DEF Lists
<1>3. n - m \in Nat
  BY DEF Lists
<1> HIDE DEF Row
<1>4. Fields(type, names) \in Seq(Row)
  BY <1>2, <1>3
<1>5. Len(Fields(type, names)) = n - m
  BY <1>1, <1>3, <1>4, LenProperties
<1> QED
  BY <1>1, <1>4, <1>5 DEF Spells, Row

\* The row after m is one array.
IsArray(name, type, size, m, n, R) ==
  /\ m \in Nat /\ n = m + 1 /\ n \in DOMAIN R
  /\ R[n] = [name |-> name, size |-> size * type[1], align |-> type[2]]

\* An array.
LEMMA ArraySpelt ==
  ASSUME NEW m, NEW n, NEW R, NEW name, NEW type, NEW size,
         IsArray(name, type, size, m, n, R)
  PROVE  Spells(Array(name, type, size), m, n, R)
<1> DEFINE Row == {R[k] : k \in DOMAIN R}
           row == R[n]
<1>1. Array(name, type, size) = <<row>> /\ row \in Row
  BY DEF Array, IsArray
<1> HIDE DEF Row, row
<1>2. <<row>> \in Seq(Row) /\ Len(<<row>>) = 1 /\ <<row>>[1] = row
  BY <1>1
<1> QED
  BY <1>1, <1>2 DEF Spells, Row, row, IsArray

\* A layout that spells a table is laid out as the table says.
LEMMA LaidOut ==
  ASSUME NEW L, NEW names, NEW starts, NEW sizes, NEW aligns, NEW n,
         Fit(names, starts, sizes, aligns, n),
         Spells(L, 0, n, Rows(names, sizes, aligns, n))
  PROVE  Laid(L, names, starts, sizes, n)
<1> DEFINE Next(f) == [k \in DOMAIN L |->
              IF k = 1 THEN 0
              ELSE Aligned(f[k - 1] + L[k - 1].size, L[k].align)]
           off == CHOOSE f : f = Next(f)
           table == [k \in 1 .. n |-> starts[k]]
           Place(f) == CHOOSE k \in DOMAIN L : L[k].name = f
           keys == {L[k].name : k \in DOMAIN L}
<1>1. n \in Nat \ {0} /\ starts[1] = 0
  BY DEF Fit
<1>2. \A j, k \in 1 .. n : names[j] = names[k] => j = k
  BY DEF Fit
<1>3. \A k \in 2 .. n :
        starts[k] = Aligned(starts[k - 1] + sizes[k - 1], aligns[k])
  BY DEF Fit
<1>4. /\ DOMAIN L = 1 .. n
      /\ \A k \in 1 .. n : /\ L[k].name = names[k] /\ L[k].size = sizes[k]
                           /\ L[k].align = aligns[k]
  <2>1. DOMAIN L = 1 .. Len(L) /\ Len(L) = n
    BY <1>1, LenProperties DEF Spells
  <2>2. \A k \in 1 .. n : L[k] = Rows(names, sizes, aligns, n)[k]
    BY <1>1 DEF Spells
  <2> QED
    BY <2>1, <2>2 DEF Rows
<1>5. \A k \in 1 .. n : Place(names[k]) = k /\ names[k] \in keys
  BY <1>2, <1>4
<1>6. off = Next(off)
  <2>1. ASSUME NEW k \in 1 .. n PROVE table[k] = Next(table)[k]
    <3>1. k # 1 => k - 1 \in 1 .. n /\ k \in 2 .. n
      BY <1>1
    <3> QED
      BY <1>1, <1>3, <1>4, <3>1
  <2>2. table = Next(table)
    BY <1>4, <2>1
  <2> QED
    BY <2>2
<1>7. /\ Offsets(L) = [f \in keys |-> off[Place(f)]]
      /\ \A f : SizeIn(L, f) = L[Place(f)].size
  BY Zenon DEF Offsets, SizeIn
<1> HIDE DEF off, Place
<1>8. \A k \in 1 .. n : off[k] = starts[k]
  <2> DEFINE Bad == {k \in 1 .. n : off[k] # starts[k]}
  <2> SUFFICES ASSUME Bad # {} PROVE FALSE
    OBVIOUS
  <2>1. Bad \in SUBSET Nat
    OBVIOUS
  <2>2. PICK k \in Bad : \A j \in Bad : k <= j
    BY <2>1, LeastOf
  <2>3. k # 1
    BY <1>1, <1>4, <1>6
  <2>4. k - 1 \in 1 .. n /\ k \in 2 .. n /\ k - 1 \notin Bad
    BY <1>1, <2>2, <2>3
  <2>5. /\ L[k - 1].size = sizes[k - 1] /\ L[k].align = aligns[k]
        /\ k \in DOMAIN L
    BY <1>4, <2>4
  <2>6. off[k] = Aligned(off[k - 1] + L[k - 1].size, L[k].align)
    <3>1. off[k] = Next(off)[k]
      BY Zenon, <1>6
    <3> QED
      BY <2>3, <2>5, <3>1
  <2> QED
    BY <1>3, <2>2, <2>4, <2>5, <2>6
<1>9. DOMAIN Offsets(L) = {names[k] : k \in 1 .. n}
  <2>1. DOMAIN Offsets(L) = keys
    BY Zenon, <1>7
  <2>2. keys = {names[k] : k \in 1 .. n}
    <3>1. ASSUME NEW k \in DOMAIN L
          PROVE  L[k].name \in {names[j] : j \in 1 .. n}
      BY <1>4
    <3>2. ASSUME NEW k \in 1 .. n PROVE names[k] \in keys
      BY <1>5
    <3> QED
      BY <3>1, <3>2
  <2> QED
    BY <2>1, <2>2
<1>10. ASSUME NEW k \in 1 .. n
      PROVE  /\ Offsets(L)[names[k]] = starts[k]
             /\ SizeIn(L, names[k]) = sizes[k]
  <2>1. Place(names[k]) = k /\ names[k] \in keys
    BY <1>5
  <2>2. Offsets(L)[names[k]] = off[Place(names[k])]
    <3> HIDE DEF keys
    <3> QED
      BY Zenon, <1>7, <2>1
  <2>3. SizeIn(L, names[k]) = L[Place(names[k])].size
    BY Zenon, <1>7
  <2> QED
    BY <1>4, <1>8, <2>1, <2>2, <2>3
<1> QED
  BY <1>9, <1>10 DEF Laid

-----------------------------------------------------------------------------
(* The two layouts.                                                         *)

\* The layout of extensions 9 to 15 is the first table.
LEMMA OldSpelt == Spells(iw15_range, 0, 37, OldRow)
<1> DEFINE Is(s, m, n) == Spells(s, m, n, OldRow)
<1>1. /\ Lists(<<"throughput", "min_nwid", "max_nwid">>, U32, 0, 3, OldRow)
      /\ Lists(<<"num_channels">>, U16, 3, 4, OldRow)
      /\ Lists(<<"num_frequency">>, U8, 4, 5, OldRow)
      /\ IsArray("freq", iw_freq, 16, 5, 6, OldRow)
      /\ Lists(<<"sensitivity">>, U32, 6, 7, OldRow)
      /\ Lists(<<"max_qual">>, iw_quality, 7, 8, OldRow)
      /\ Lists(<<"num_bitrates">>, U8, 8, 9, OldRow)
      /\ IsArray("bitrate", U32, 8, 9, 10, OldRow)
      /\ Lists(<<"min_rts", "max_rts", "min_frag", "max_frag", "min_pmp",
                "max_pmp", "min_pmt", "max_pmt">>, U32, 10, 18, OldRow)
      /\ Lists(<<"pmp_flags", "pmt_flags", "pm_capa">>,
                U16, 18, 21, OldRow)
      /\ IsArray("encoding_size", U16, 8, 21, 22, OldRow)
      /\ Lists(<<"num_encoding_sizes", "max_encoding_tokens">>,
                U8, 22, 24, OldRow)
      /\ Lists(<<"txpower_capa">>, U16, 24, 25, OldRow)
      /\ Lists(<<"num_txpower">>, U8, 25, 26, OldRow)
      /\ IsArray("txpower", U32, 8, 26, 27, OldRow)
      /\ Lists(<<"we_version_compiled", "we_version_source">>,
                U8, 27, 29, OldRow)
      /\ Lists(<<"retry_capa", "retry_flags", "r_time_flags">>,
                U16, 29, 32, OldRow)
      /\ Lists(<<"min_retry", "max_retry", "min_r_time", "max_r_time">>,
                U32, 32, 36, OldRow)
      /\ Lists(<<"avg_qual">>, iw_quality, 36, 37, OldRow)
  BY DEF Lists, IsArray, Rows, OldRow, OldNames, OldSizes, OldAligns, U32,
         U16, U8, iw_freq, iw_quality
<1>2. Is(Network, 0, 3)
  BY Zenon, <1>1, FieldsSpelt DEF Network
<1>3. Is(Channels(16), 3, 6)
  BY <1>1, ArraySpelt, FieldsSpelt, Concatenated DEF Channels
<1>4. Is(Fields(U32, <<"sensitivity">>), 6, 7)
  BY Zenon, <1>1, FieldsSpelt
<1>5. Is(Fields(iw_quality, <<"max_qual">>), 7, 8)
  BY Zenon, <1>1, FieldsSpelt
<1>6. Is(Bitrates(8), 8, 10)
  BY <1>1, ArraySpelt, FieldsSpelt, Concatenated DEF Bitrates
<1>7. Is(Thresholds, 10, 21)
  BY <1>1, FieldsSpelt, Concatenated DEF Thresholds
<1>8. Is(Tokens, 21, 24)
  BY <1>1, ArraySpelt, FieldsSpelt, Concatenated DEF Tokens
<1>9. Is(Powers, 24, 27)
  BY <1>1, ArraySpelt, FieldsSpelt, Concatenated DEF Powers
<1>10. Is(Versions, 27, 29)
  BY Zenon, <1>1, FieldsSpelt DEF Versions
<1>11. Is(Retries, 29, 36)
  BY <1>1, FieldsSpelt, Concatenated DEF Retries
<1>12. Is(Fields(iw_quality, <<"avg_qual">>), 36, 37)
  BY Zenon, <1>1, FieldsSpelt
<1> QED
  BY <1>2, <1>3, <1>4, <1>5, <1>6, <1>7, <1>8, <1>9, <1>10, <1>11, <1>12,
     Concatenated DEF iw15_range

\* The layout of extensions 16 and later is the second table.
LEMMA NewSpelt == Spells(iw_range, 0, 47, NewRow)
<1> DEFINE Is(s, m, n) == Spells(s, m, n, NewRow)
<1>1. /\ Lists(<<"throughput", "min_nwid", "max_nwid">>, U32, 0, 3, NewRow)
      /\ Lists(<<"old_num_channels">>, U16, 3, 4, NewRow)
      /\ Lists(<<"old_num_frequency">>, U8, 4, 5, NewRow)
      /\ IsArray("event_capa", U32, 6, 5, 6, NewRow)
      /\ Lists(<<"sensitivity">>, U32, 6, 7, NewRow)
      /\ Lists(<<"max_qual", "avg_qual">>, iw_quality, 7, 9, NewRow)
      /\ Lists(<<"num_bitrates">>, U8, 9, 10, NewRow)
      /\ IsArray("bitrate", U32, 32, 10, 11, NewRow)
      /\ Lists(<<"min_rts", "max_rts", "min_frag", "max_frag", "min_pmp",
                "max_pmp", "min_pmt", "max_pmt">>, U32, 11, 19, NewRow)
      /\ Lists(<<"pmp_flags", "pmt_flags", "pm_capa">>,
                U16, 19, 22, NewRow)
      /\ IsArray("encoding_size", U16, 8, 22, 23, NewRow)
      /\ Lists(<<"num_encoding_sizes", "max_encoding_tokens">>,
                U8, 23, 25, NewRow)
      /\ Lists(<<"encoding_login_index">>, U8, 25, 26, NewRow)
      /\ Lists(<<"txpower_capa">>, U16, 26, 27, NewRow)
      /\ Lists(<<"num_txpower">>, U8, 27, 28, NewRow)
      /\ IsArray("txpower", U32, 8, 28, 29, NewRow)
      /\ Lists(<<"we_version_compiled", "we_version_source">>,
                U8, 29, 31, NewRow)
      /\ Lists(<<"retry_capa", "retry_flags", "r_time_flags">>,
                U16, 31, 34, NewRow)
      /\ Lists(<<"min_retry", "max_retry", "min_r_time", "max_r_time">>,
                U32, 34, 38, NewRow)
      /\ Lists(<<"num_channels">>, U16, 38, 39, NewRow)
      /\ Lists(<<"num_frequency">>, U8, 39, 40, NewRow)
      /\ IsArray("freq", iw_freq, 32, 40, 41, NewRow)
      /\ Lists(<<"enc_capa", "min_pms", "max_pms">>, U32, 41, 44, NewRow)
      /\ Lists(<<"pms_flags">>, U16, 44, 45, NewRow)
      /\ Lists(<<"modul_capa", "bitrate_capa">>, U32, 45, 47, NewRow)
  BY DEF Lists, IsArray, Rows, NewRow, NewNames, NewSizes, NewAligns, U32,
         U16, U8, iw_quality, iw_freq
<1>2. Is(Network, 0, 3)
  BY Zenon, <1>1, FieldsSpelt DEF Network
<1>3. Is(Fields(U16, <<"old_num_channels">>), 3, 4)
  BY Zenon, <1>1, FieldsSpelt
<1>4. Is(Fields(U8, <<"old_num_frequency">>), 4, 5)
  BY Zenon, <1>1, FieldsSpelt
<1>5. Is(Array("event_capa", U32, 6), 5, 6)
  BY Zenon, <1>1, ArraySpelt
<1>6. Is(Fields(U32, <<"sensitivity">>), 6, 7)
  BY Zenon, <1>1, FieldsSpelt
<1>7. Is(Fields(iw_quality, <<"max_qual", "avg_qual">>), 7, 9)
  BY Zenon, <1>1, FieldsSpelt
<1>8. Is(Bitrates(32), 9, 11)
  BY <1>1, ArraySpelt, FieldsSpelt, Concatenated DEF Bitrates
<1>9. Is(Thresholds, 11, 22)
  BY <1>1, FieldsSpelt, Concatenated DEF Thresholds
<1>10. Is(Tokens, 22, 25)
  BY <1>1, ArraySpelt, FieldsSpelt, Concatenated DEF Tokens
<1>11. Is(Fields(U8, <<"encoding_login_index">>), 25, 26)
  BY Zenon, <1>1, FieldsSpelt
<1>12. Is(Powers, 26, 29)
  BY <1>1, ArraySpelt, FieldsSpelt, Concatenated DEF Powers
<1>13. Is(Versions, 29, 31)
  BY Zenon, <1>1, FieldsSpelt DEF Versions
<1>14. Is(Retries, 31, 38)
  BY <1>1, FieldsSpelt, Concatenated DEF Retries
<1>15. Is(Channels(32), 38, 41)
  BY <1>1, ArraySpelt, FieldsSpelt, Concatenated DEF Channels
<1>16. Is(Fields(U32, <<"enc_capa", "min_pms", "max_pms">>), 41, 44)
  BY Zenon, <1>1, FieldsSpelt
<1>17. Is(Fields(U16, <<"pms_flags">>), 44, 45)
  BY Zenon, <1>1, FieldsSpelt
<1>18. Is(Fields(U32, <<"modul_capa", "bitrate_capa">>), 45, 47)
  BY Zenon, <1>1, FieldsSpelt
<1> QED
  BY <1>2, <1>3, <1>4, <1>5, <1>6, <1>7, <1>8, <1>9, <1>10, <1>11, <1>12,
     <1>13, <1>14, <1>15, <1>16, <1>17, <1>18, Concatenated DEF iw_range

\* Where each field of the two layouts is.
\* So the first table says where the fields of the old layout are,
LEMMA OldLaid == Laid(iw15_range, OldNames, OldStarts, OldSizes, 37)
<1>1. Fit(OldNames, OldStarts, OldSizes, OldAligns, 37)
  BY DEF Fit, OldNames, OldStarts, OldSizes, OldAligns, Aligned
<1> QED
  BY Zenon, <1>1, OldSpelt, LaidOut DEF OldRow

\* and the second where those of the new one are.
LEMMA NewLaid == Laid(iw_range, NewNames, NewStarts, NewSizes, 47)
<1>1. Fit(NewNames, NewStarts, NewSizes, NewAligns, 47)
  BY DEF Fit, NewNames, NewStarts, NewSizes, NewAligns, Aligned
<1> QED
  BY Zenon, <1>1, NewSpelt, LaidOut DEF NewRow

\* The new structure has 588 bytes.
LEMMA SizeOfNew ==
  SizeOf(iw_range) = 588 /\ Bytes(iw_range, "avg_qual") = 48 .. 51
<1>1. Len(iw_range) = 47 /\ iw_range[47] = NewRow[47]
  BY NewSpelt DEF Spells
<1>2. NewRow[47] = [name |-> "bitrate_capa", size |-> 4, align |-> 4]
  BY DEF NewRow, Rows, NewNames, NewSizes, NewAligns
<1>3. /\ Offsets(iw_range)["bitrate_capa"] = 584
      /\ Offsets(iw_range)["avg_qual"] = 48 /\ SizeIn(iw_range, "avg_qual") = 4
  <2>1. /\ Offsets(iw_range)[NewNames[47]] = NewStarts[47]
        /\ Offsets(iw_range)[NewNames[9]] = NewStarts[9]
        /\ SizeIn(iw_range, NewNames[9]) = NewSizes[9]
    <3>1. 47 \in 1 .. 47 /\ 9 \in 1 .. 47
      OBVIOUS
    <3> QED
      BY Zenon, <3>1, NewLaid DEF Laid
  <2>2. /\ NewNames[47] = "bitrate_capa" /\ NewStarts[47] = 584
        /\ NewNames[9] = "avg_qual" /\ NewStarts[9] = 48 /\ NewSizes[9] = 4
    BY DEF NewNames, NewStarts, NewSizes
  <2> QED
    BY <2>1, <2>2
<1> DEFINE last == iw_range[Len(iw_range)]
<1>4. SizeOf(iw_range) = Aligned(Offsets(iw_range)[last.name] + last.size, 4)
  BY DEF SizeOf
<1>5. last.name = "bitrate_capa" /\ last.size = 4
  BY <1>1, <1>2
<1> HIDE DEF last
<1>6. SizeOf(iw_range) = Aligned(584 + 4, 4)
  BY Zenon, <1>3, <1>4, <1>5
<1> QED
  BY <1>3, <1>6 DEF Aligned, Bytes

-----------------------------------------------------------------------------
(* The moves.                                                               *)

\* Where the blocks of iw_get_range_info start and end.
LEMMA BlocksLaid ==
  /\ DOMAIN Blocks = 1 .. 7
  /\ \A k \in 1 .. 7 : /\ iwr_off[Blocks[k][1]] = NewFrom[k]
                       /\ iwr15_off[Blocks[k][1]] = OldFrom[k]
                       /\ iwr15_off[Blocks[k][2]] = OldTo[k]
  /\ iwr_off["avg_qual"] = 48 /\ iwr15_off["avg_qual"] = 304
<1> DEFINE from == <<1, 4, 7, 9, 11, 25, 27>>
           to == <<4, 7, 9, 11, 25, 27, 37>>
           new == <<1, 39, 7, 10, 12, 27, 29>>
<1>1. DOMAIN Blocks = 1 .. 7
  BY DEF Blocks
<1>2. \A k \in 1 .. 7 :
        /\ from[k] \in 1 .. 37 /\ to[k] \in 1 .. 37 /\ new[k] \in 1 .. 47
        /\ Blocks[k][1] = OldNames[from[k]] /\ Blocks[k][2] = OldNames[to[k]]
        /\ Blocks[k][1] = NewNames[new[k]]
        /\ OldStarts[from[k]] = OldFrom[k] /\ OldStarts[to[k]] = OldTo[k]
        /\ NewStarts[new[k]] = NewFrom[k]
  BY DEF Blocks, OldNames, NewNames, OldStarts, NewStarts,
         OldFrom, OldTo, NewFrom
<1>3. /\ OldNames[37] = "avg_qual" /\ OldStarts[37] = 304
      /\ NewNames[9] = "avg_qual" /\ NewStarts[9] = 48
      /\ 37 \in 1 .. 37 /\ 9 \in 1 .. 47
  BY DEF OldNames, NewNames, OldStarts, NewStarts
<1>4. /\ \A k \in 1 .. 37 : iwr15_off[OldNames[k]] = OldStarts[k]
      /\ \A k \in 1 .. 47 : iwr_off[NewNames[k]] = NewStarts[k]
  BY Zenon, OldLaid, NewLaid DEF Laid, iwr15_off, iwr_off
<1> HIDE DEF from, to, new
<1>5. iwr_off["avg_qual"] = 48 /\ iwr15_off["avg_qual"] = 304
  <2>1. /\ iwr15_off[OldNames[37]] = OldStarts[37]
        /\ iwr_off[NewNames[9]] = NewStarts[9]
    BY <1>3, <1>4
  <2> QED
    BY <1>3, <2>1
<1>6. ASSUME NEW k \in 1 .. 7
      PROVE  /\ iwr_off[Blocks[k][1]] = NewFrom[k]
             /\ iwr15_off[Blocks[k][1]] = OldFrom[k]
             /\ iwr15_off[Blocks[k][2]] = OldTo[k]
  <2>1. /\ iwr15_off[OldNames[from[k]]] = OldStarts[from[k]]
        /\ iwr15_off[OldNames[to[k]]] = OldStarts[to[k]]
        /\ iwr_off[NewNames[new[k]]] = NewStarts[new[k]]
    BY Zenon, <1>2, <1>4
  <2> QED
    BY <1>2, <2>1
<1> QED
  BY Zenon, <1>1, <1>5, <1>6

\* The bytes of the new structure that block k fills.
Filled(k) == NewFrom[k] .. NewFrom[k] + OldTo[k] - OldFrom[k] - 1

\* The bytes that nothing is copied into.
Untouched(b) ==
  /\ b \in 0 .. 587 /\ b \notin 48 .. 51
  /\ \A k \in 1 .. 7 : b \notin Filled(k)

\* Where every byte of the new structure comes from.
LEMMA SourceIs ==
  /\ \A b \in 48 .. 51 : Source[b] = b + 256
  /\ \A k \in 1 .. 7 : \A b \in Filled(k) :
       Source[b] = b - NewFrom[k] + OldFrom[k]
  /\ \A b : Untouched(b) => Source[b] = -1
<1> DEFINE Copied(k, b) ==
             b - iwr_off[Blocks[k][1]]
               \in 0 .. (iwr15_off[Blocks[k][2]] - iwr15_off[Blocks[k][1]] - 1)
           ks(b) == {k \in DOMAIN Blocks : Copied(k, b)}
           Latest(b) == CHOOSE k \in ks(b) : \A j \in ks(b) : j <= k
           Block(b) ==
             IF ks(b) = {} THEN -1
             ELSE b - iwr_off[Blocks[Latest(b)][1]]
                    + iwr15_off[Blocks[Latest(b)][1]]
<1>1. Source = [b \in 0 .. SizeOf(iw_range) - 1 |->
        IF b \in Bytes(iw_range, "avg_qual")
        THEN b - iwr_off["avg_qual"] + iwr15_off["avg_qual"]
        ELSE Block(b)]
  BY Zenon DEF Source
<1>2. \A b \in Int : \A k \in 1 .. 7 : k \in ks(b) <=> b \in Filled(k)
  <2>1. \A k \in 1 .. 7 : /\ NewFrom[k] \in Int /\ OldFrom[k] \in Int
                          /\ OldTo[k] \in Int
    BY DEF NewFrom, OldFrom, OldTo
  <2> QED
    BY <2>1, BlocksLaid DEF Filled
<1>3. \A b : ks(b) \subseteq 1 .. 7
  BY BlocksLaid
<1> HIDE DEF ks
<1>4. \A k \in 1 .. 7 : \A b \in Filled(k) :
        /\ b \in 0 .. 587 /\ b \notin 48 .. 51
        /\ \A j \in 1 .. 7 : b \in Filled(j) => j = k
  BY DEF Filled, NewFrom, OldFrom, OldTo
<1>5. ASSUME NEW k \in 1 .. 7, NEW b \in Filled(k) PROVE ks(b) = {k}
  <2>1. b \in Int
    BY <1>4
  <2>2. k \in ks(b)
    BY Zenon, <1>2, <2>1
  <2>3. \A j \in 1 .. 7 : j \in ks(b) => b \in Filled(j)
    BY Zenon, <1>2, <2>1
  <2>4. \A j \in 1 .. 7 : b \in Filled(j) => j = k
    BY <1>4
  <2> QED
    BY Zenon, <1>3, <2>2, <2>3, <2>4
<1>6. \A b : \A k \in 1 .. 7 : ks(b) = {k} => Latest(b) = k
  OBVIOUS
<1> HIDE DEF Latest
<1>7. 0 .. SizeOf(iw_range) - 1 = 0 .. 587
  BY SizeOfNew
<1>8. ASSUME NEW b \in 0 .. 587
      PROVE  /\ b \in 48 .. 51 => Source[b] = b - 48 + 304
             /\ b \notin 48 .. 51 => Source[b] = Block(b)
  <2>1. b \in 0 .. SizeOf(iw_range) - 1
    BY <1>7
  <2>2. Source[b] = IF b \in Bytes(iw_range, "avg_qual")
                    THEN b - iwr_off["avg_qual"] + iwr15_off["avg_qual"]
                    ELSE Block(b)
    BY Zenon, <1>1, <2>1
  <2> HIDE DEF Block
  <2> QED
    BY <2>2, SizeOfNew, BlocksLaid
<1>9. ASSUME NEW b \in 48 .. 51 PROVE Source[b] = b + 256
  <2> HIDE DEF Block
  <2> QED
    BY <1>8
<1>10. ASSUME NEW k \in 1 .. 7, NEW b \in Filled(k)
       PROVE  Source[b] = b - NewFrom[k] + OldFrom[k]
  <2>1. b \in 0 .. 587 /\ b \notin 48 .. 51
    BY <1>4
  <2>2. ks(b) = {k} /\ Latest(b) = k
    BY Zenon, <1>5, <1>6
  <2>3. /\ iwr_off[Blocks[k][1]] = NewFrom[k]
        /\ iwr15_off[Blocks[k][1]] = OldFrom[k]
    BY Zenon, BlocksLaid
  <2>4. Block(b) = b - iwr_off[Blocks[Latest(b)][1]]
                     + iwr15_off[Blocks[Latest(b)][1]]
    <3>1. ks(b) # {}
      BY <2>2
    <3> QED
      BY Zenon, <3>1
  <2> HIDE DEF Block
  <2>5. Source[b] = Block(b)
    BY SMTT(30), <1>8, <2>1
  <2> QED
    BY Zenon, <2>2, <2>3, <2>4, <2>5
<1>11. ASSUME NEW b, Untouched(b) PROVE Source[b] = -1
  <2>1. b \in 0 .. 587 /\ b \notin 48 .. 51
    BY <1>11 DEF Untouched
  <2>2. ks(b) = {}
    BY <1>2, <1>3, <1>11, <2>1 DEF Untouched
  <2>3. Block(b) = -1
    BY Zenon, <2>2
  <2> HIDE DEF Block
  <2>4. Source[b] = Block(b)
    BY SMTT(30), <1>8, <2>1
  <2> QED
    BY Zenon, <2>3, <2>4
<1> QED
  BY <1>9, <1>10, <1>11

\* The block moves of iw_get_range_info put every field of the old structure
\* where the new one has it, and none where it has another; the version is at
\* the same place in both.
THEOREM LayoutsDoAgree == LayoutsAgree
<1>1. \A i \in 1 .. 37 :
        /\ NewPlace[i] \in 1 .. 47 /\ NewNames[NewPlace[i]] = OldNames[i]
        /\ OldStarts[i] \in Nat /\ OldSizes[i] \in Nat \ {0}
        /\ NewSizes[NewPlace[i]] \in Nat \ {0}
  BY DEF NewPlace, NewNames, OldNames, OldStarts, OldSizes, NewSizes
<1>2. \A i \in 1 .. 36 :
        /\ BlockOf[i] \in 1 .. 7
        /\ NewStarts[NewPlace[i]] - NewFrom[BlockOf[i]] =
             OldStarts[i] - OldFrom[BlockOf[i]]
        /\ NewStarts[NewPlace[i]] >= NewFrom[BlockOf[i]]
        /\ OldStarts[i] + OldSizes[i] <= OldTo[BlockOf[i]]
  BY DEF BlockOf, NewStarts, NewPlace, NewFrom, OldStarts, OldFrom, OldSizes,
         OldTo
<1>3. ASSUME NEW i \in 1 .. 37, NEW n \in 0 .. OldSizes[i] - 1
      PROVE  Source[NewStarts[NewPlace[i]] + n] = OldStarts[i] + n
  <2>1. CASE i \in 1 .. 36
    <3>1. /\ NewFrom[BlockOf[i]] \in Nat /\ OldFrom[BlockOf[i]] \in Nat
          /\ OldTo[BlockOf[i]] \in Nat /\ NewStarts[NewPlace[i]] \in Nat
      BY <2>1 DEF NewFrom, OldFrom, OldTo, BlockOf, NewStarts, NewPlace
    <3> DEFINE b == NewStarts[NewPlace[i]] + n
               k == BlockOf[i]
    <3>2. /\ NewStarts[NewPlace[i]] - NewFrom[k] = OldStarts[i] - OldFrom[k]
          /\ NewStarts[NewPlace[i]] >= NewFrom[k]
          /\ OldStarts[i] + OldSizes[i] <= OldTo[k]
      BY Zenon, <1>2, <2>1
    <3>3. OldStarts[i] \in Nat /\ OldSizes[i] \in Nat
      BY <1>1
    <3>4. b \in Filled(k)
      BY <3>1, <3>2, <3>3 DEF Filled
    <3>5. Source[b] = b - NewFrom[k] + OldFrom[k]
      BY Zenon, <1>2, <2>1, <3>4, SourceIs
    <3>6. b - NewFrom[k] + OldFrom[k] = OldStarts[i] + n
      BY <3>1, <3>2, <3>3
    <3> QED
      BY Zenon, <3>5, <3>6
  <2>2. CASE i = 37
    <3>1. /\ NewStarts[NewPlace[37]] = 48 /\ OldStarts[37] = 304
          /\ OldSizes[37] = 4
      BY DEF NewStarts, NewPlace, OldStarts, OldSizes
    <3> QED
      BY <2>2, <3>1, SourceIs
  <2> QED
    BY <2>1, <2>2
<1>4. /\ DOMAIN iwr15_off = {OldNames[i] : i \in 1 .. 37}
      /\ \A i \in 1 .. 37 : /\ iwr15_off[OldNames[i]] = OldStarts[i]
                            /\ SizeIn(iw15_range, OldNames[i]) = OldSizes[i]
  BY Zenon, OldLaid DEF Laid, iwr15_off
<1>5. /\ DOMAIN iwr_off = {NewNames[i] : i \in 1 .. 47}
      /\ \A i \in 1 .. 47 : /\ iwr_off[NewNames[i]] = NewStarts[i]
                            /\ SizeIn(iw_range, NewNames[i]) = NewSizes[i]
  BY Zenon, NewLaid DEF Laid, iwr_off
<1>6. \A i \in 1 .. 37 : iwr_off[OldNames[i]] = NewStarts[NewPlace[i]]
  BY Zenon, <1>1, <1>5
<1>7. Carried = DOMAIN iwr15_off
  <2>1. ASSUME NEW i \in 1 .. 37,
               NEW n \in 0 .. SizeIn(iw15_range, OldNames[i]) - 1
        PROVE  Source[iwr_off[OldNames[i]] + n] = iwr15_off[OldNames[i]] + n
    <3>1. /\ SizeIn(iw15_range, OldNames[i]) = OldSizes[i]
          /\ iwr15_off[OldNames[i]] = OldStarts[i]
          /\ iwr_off[OldNames[i]] = NewStarts[NewPlace[i]]
      BY Zenon, <1>4, <1>6
    <3>2. n \in 0 .. OldSizes[i] - 1
      BY Zenon, <3>1
    <3>3. Source[NewStarts[NewPlace[i]] + n] = OldStarts[i] + n
      BY Zenon, <1>3, <3>2
    <3> QED
      BY Zenon, <3>1, <3>3
  <2>2. ASSUME NEW f \in DOMAIN iwr15_off,
               NEW n \in 0 .. SizeIn(iw15_range, f) - 1
        PROVE  Source[iwr_off[f] + n] = iwr15_off[f] + n
    <3>1. PICK i \in 1 .. 37 : f = OldNames[i]
      BY Zenon, <1>4
    <3> QED
      BY Zenon, <2>1, <3>1
  <2> QED
    BY Zenon, <2>2 DEF Carried
<1>8. \A f \in DOMAIN iwr15_off : f \in DOMAIN iwr_off /\ f \notin Clean
  <2> SUFFICES ASSUME NEW i \in 1 .. 37
               PROVE  OldNames[i] \in DOMAIN iwr_off /\ OldNames[i] \notin Clean
    BY Zenon, <1>4
  <2> DEFINE f == OldNames[i]
             b == iwr_off[f]
  <2>1. f \in DOMAIN iwr_off
    <3>1. NewPlace[i] \in 1 .. 47 /\ NewNames[NewPlace[i]] = f
      BY Zenon, <1>1
    <3>2. NewNames[NewPlace[i]] \in {NewNames[j] : j \in 1 .. 47}
      BY Zenon, <3>1
    <3> QED
      BY Zenon, <1>5, <3>1, <3>2
  <2>2. Source[b] = OldStarts[i]
    <3>1. 0 \in 0 .. OldSizes[i] - 1 /\ NewStarts[NewPlace[i]] \in Nat
      BY <1>1 DEF NewStarts, NewPlace
    <3>2. Source[NewStarts[NewPlace[i]] + 0] = OldStarts[i] + 0
      BY Zenon, <1>3, <3>1
    <3> QED
      BY <1>1, <1>6, <3>1, <3>2
  <2>3. b \in Bytes(iw_range, f)
    <3>1. SizeIn(iw_range, f) = NewSizes[NewPlace[i]]
      BY Zenon, <1>1, <1>5
    <3>2. b \in Nat
      BY <1>6 DEF NewStarts, NewPlace
    <3>3. b \in b .. b + SizeIn(iw_range, f) - 1
      BY <1>1, <3>1, <3>2
    <3> QED
      BY Zenon, <3>3 DEF Bytes, iwr_off
  <2>4. OldStarts[i] \in Bytes(iw15_range, f)
    <3>1. iwr15_off[f] = OldStarts[i] /\ SizeIn(iw15_range, f) = OldSizes[i]
      BY Zenon, <1>4
    <3>2. OldStarts[i] \in OldStarts[i] .. OldStarts[i] + OldSizes[i] - 1
      BY <1>1
    <3> QED
      BY Zenon, <3>1, <3>2 DEF Bytes, iwr15_off
  <2>5. f \in DOMAIN iwr15_off
    BY Zenon, <1>4
  <2> QED
    BY Zenon, <2>1, <2>2, <2>3, <2>4, <2>5 DEF Clean
<1>9. ASSUME NEW f \in DOMAIN iwr_off, f \notin DOMAIN iwr15_off
      PROVE  f \in Clean
  <2>1. PICK j \in 1 .. 47 : f = NewNames[j]
    BY Zenon, <1>5
  <2>2. j \in Added
    <3> SUFFICES ASSUME j \notin Added PROVE FALSE
      OBVIOUS
    <3>1. PICK i \in 1 .. 37 : NewPlace[i] = j
      BY DEF Added, NewPlace
    <3>2. f = OldNames[i]
      BY Zenon, <1>1, <2>1, <3>1
    <3> QED
      BY Zenon, <1>4, <1>9, <3>2
  <2>3. \A b \in NewStarts[j] .. NewStarts[j] + NewSizes[j] - 1 :
          Untouched(b)
    BY <2>2 DEF Added, NewStarts, NewSizes, Untouched, Filled, NewFrom,
                OldFrom, OldTo
  <2>4. Bytes(iw_range, f) = NewStarts[j] .. NewStarts[j] + NewSizes[j] - 1
    <3>1. /\ Offsets(iw_range)[f] = NewStarts[j]
          /\ SizeIn(iw_range, f) = NewSizes[j]
      BY Zenon, <1>5, <2>1 DEF iwr_off
    <3> QED
      BY Zenon, <3>1 DEF Bytes
  <2>5. ASSUME NEW b \in Bytes(iw_range, f) PROVE Source[b] = -1
    <3>1. Untouched(b)
      BY Zenon, <2>3, <2>4
    <3> QED
      BY Zenon, <3>1, SourceIs
  <2>6. \A g \in DOMAIN iwr15_off : -1 \notin Bytes(iw15_range, g)
    <3> SUFFICES ASSUME NEW i \in 1 .. 37
                 PROVE  -1 \notin Bytes(iw15_range, OldNames[i])
      BY Zenon, <1>4
    <3>1. /\ Offsets(iw15_range)[OldNames[i]] = OldStarts[i]
          /\ SizeIn(iw15_range, OldNames[i]) = OldSizes[i]
      BY Zenon, <1>4 DEF iwr15_off
    <3>2. -1 \notin OldStarts[i] .. OldStarts[i] + OldSizes[i] - 1
      BY <1>1
    <3> QED
      BY Zenon, <3>1, <3>2 DEF Bytes
  <2> QED
    BY Zenon, <2>5, <2>6 DEF Clean
<1>10. Clean = DOMAIN iwr_off \ DOMAIN iwr15_off
  <2>1. Clean \subseteq DOMAIN iwr_off
    BY DEF Clean
  <2> QED
    BY Zenon, <1>8, <1>9, <2>1
<1>11. {"we_version_compiled", "max_qual", "freq", "num_frequency"}
         \subseteq Carried
  <2>1. /\ OldNames[28] = "we_version_compiled" /\ OldNames[8] = "max_qual"
        /\ OldNames[6] = "freq" /\ OldNames[5] = "num_frequency"
    BY DEF OldNames
  <2>2. {OldNames[28], OldNames[8], OldNames[6], OldNames[5]} \subseteq Carried
    <3>1. \A i \in 1 .. 37 : OldNames[i] \in Carried
      BY Zenon, <1>4, <1>7
    <3> QED
      BY <3>1
  <2> QED
    BY <2>1, <2>2
<1>12. ~VersionMoved
  <2>1. /\ OldNames[28] = "we_version_compiled" /\ OldStarts[28] = 280
        /\ NewPlace[28] = 30 /\ NewStarts[30] = 280
    BY DEF OldNames, OldStarts, NewPlace, NewStarts
  <2>2. /\ iwr15_off[OldNames[28]] = OldStarts[28]
        /\ iwr_off[OldNames[28]] = NewStarts[NewPlace[28]]
    <3>1. 28 \in 1 .. 37
      OBVIOUS
    <3> QED
      BY Zenon, <1>4, <1>6, <3>1
  <2> QED
    BY <2>1, <2>2 DEF VersionMoved
<1> QED
  BY Zenon, <1>7, <1>10, <1>11, <1>12 DEF LayoutsAgree

=============================================================================
