---------------------------- MODULE MCBoardStart ----------------------------
(* BoardStart with texts of every kind.                                     *)
EXTENDS BoardStart

Line(key, value) == [key |-> key, value |-> value]
Numbers == <<Line("bitrate", 600000), Line("mtu", 1500),
             Line("videoport", 3000), Line("devicetype", 0),
             Line("port", 1082)>>

MCTexts == {
  <<>>,
  Numbers \o <<Line("wlantype", 1), Line("role", "client")>>,
  Numbers \o <<Line("bitrate", 0), Line("mtu", 0), Line("videoport", 0),
              Line("initialhost", "10.0.0.9"), Line("wlantype", 2)>>,
  Numbers \o <<Line("bitrate", 0), SyntaxError, Line("wlantype", 1)>>,
  <<Line("wlantype", 3), Line("role", "master"), Line("verbose", 0)>>
    \o Numbers}

MCReplies == {<<>>, <<Numbers, <<Line("role", "client")>>>>,
              <<Numbers \o <<Line("mtu", 900)>>>>, <<<<SyntaxError>>>>}

MCArguments == {<<>>, <<"a", "u", "p", "v">>, <<"v", "?">>}

=============================================================================
