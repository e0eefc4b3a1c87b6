----------------------------- MODULE MCWlanInfo -----------------------------
(* WlanInfo with one driver of each kind and cells at the edges.            *)
EXTENDS WlanInfo

Entry(channel, m, e) == [i |-> channel, m |-> m, e |-> e]
Hz == <<Entry(6, 2437, 6), Entry(36, 518, 7)>>
Hz9 == <<Entry(6, 243700000, 1)>>
Numbers == <<Entry(6, 6, 0), Entry(36, 36, 0)>>

Driver(layout, ver, len, unit, table, channels, optional) ==
  [layout |-> layout, ver |-> ver, len |-> len, unit |-> unit,
   table |-> table, channels |-> channels, optional |-> optional]

MCDrivers == {
  Driver("we16", 22, 592, "DBM", Hz, FALSE, Plain),
  Driver("we16", 21, 588, "RCPI", Hz, TRUE, {"AP", "RATE", "TXPOW"}),
  Driver("we16", 16, 588, "relative", Numbers, TRUE, {}),
  Driver("we15", 15, 308, "old dBm", Hz9, TRUE, Plain),
  Driver("we15", 10, 296, "old dBm", <<>>, TRUE, {"TXPOW", "RETRY"})}

MCCells == {
  [ssid |-> "hangar", long |-> FALSE, channel |-> 6,
   freq |-> [m |-> 2437, e |-> 6], qual |-> 0,
   signal |-> 0, noise |-> -110, percent |-> 100],
  [ssid |-> "a name of 18 chars", long |-> TRUE, channel |-> 36,
   freq |-> [m |-> 518000000, e |-> 1], qual |-> 70,
   signal |-> -40, noise |-> -95, percent |-> 0]}

MCSilences == {{}, {"LEVEL_INVALID", "NOISE_INVALID"}, AllInvalid}

=============================================================================
