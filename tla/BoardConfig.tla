---------------------------- MODULE BoardConfig ----------------------------
(***************************************************************************)
(* What the daemon is told when it starts: its command line (cmdline.c) and *)
(* its configuration, from rcboard.conf or from a server (config.c).        *)
(*                                                                          *)
(* A text is a sequence of lines, each an assignment or an error, of which  *)
(* libconfuse keeps what comes before.  The outputs' and axes' settings are *)
(* read like alive_max_timeout and are left out; strings are members of     *)
(* small sets.                                                              *)
(***************************************************************************)
EXTENDS Integers, Sequences, SequencesExt

CONSTANT Address   \* where a string literal lies, as a number

ASSUME AddressAssumption == Address \in Nat \ 0 .. 65535

Key == {"bitrate", "mtu", "initialhost", "videoport", "devicetype", "role",
        "server_addr", "port", "verbose", "alive_max_timeout", "wlantype"}

\* What CFG_INT and CFG_STR are given.  An integer's default that is a string
\* literal is the number of its address.
opts ==
  [bitrate |-> Address, mtu |-> Address, initialhost |-> "127.0.0.1",
   videoport |-> Address, devicetype |-> Address, role |-> "server",
   server_addr |-> "127.0.0.1", port |-> Address, verbose |-> 1,
   alive_max_timeout |-> 2, wlantype |-> 0]

\* What the literals say.
Quoted == {"bitrate", "mtu", "videoport", "devicetype", "port"}
Meant ==
  [bitrate |-> 600000, mtu |-> 1500, initialhost |-> "127.0.0.1",
   videoport |-> 3000, devicetype |-> 0, role |-> "server",
   server_addr |-> "127.0.0.1", port |-> 1082, verbose |-> 1,
   alive_max_timeout |-> 2, wlantype |-> 0]

SyntaxError == [key |-> "error", value |-> 0]

\* The result of cfg_parse is not looked at, so what it read counts.
Parsed(text) ==
  LET errors == {n \in DOMAIN text : text[n] = SyntaxError}
  IN IF errors = {} THEN text
     ELSE SubSeq(text, 1, (CHOOSE n \in errors : \A m \in errors : n <= m) - 1)

\* Later assignments replace earlier ones.
Assigned(text, defaults) ==
  FoldLeft(LAMBDA c, line : [c EXCEPT ![line.key] = line.value], defaults, text)

\* A mutant: every other role is a client.
RoleUnlessServer(word) == IF word = "server" THEN 0 ELSE 1

\* A role that is neither word leaves config.role at 0, a server.
Role(word) == IF word = "client" THEN 1 ELSE 0

\* The part of load_config that fills config from a text.
Configured(text) ==
  LET cfg == Assigned(Parsed(text), opts)
  IN [cfg EXCEPT !.role = Role(@)]

\* curlParser answers 1, which curl takes for a failed write after any chunk
\* longer than a byte: the first one is all there is.
Loaded(chunks) == Head(chunks)

\* -u id, -p hash and -a url select the remote configuration; an unknown
\* option, a missing argument or -h ends the program.
parse_cmdline(argv) ==
  [remote |-> "u" \in ToSet(argv), verbose |-> "v" \in ToSet(argv),
   exit |-> ToSet(argv) \cap {"h", "?"} # {}]

=============================================================================
