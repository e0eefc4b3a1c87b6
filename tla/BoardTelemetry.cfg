SPECIFICATION BoardSpec
CONSTANTS
  MaxReads = 3
  Levels = {0}
  Address = 70000
  Arguments <- MCArguments
  Texts <- MCTexts
  Replies <- MCReplies
  Hosts = {"192.168.1.10"}
  Rates = {600000}
  MTUs = {900}
INVARIANTS
  TelemetryTypeOK
  SentAtMostOnce
  NothingStale
  ReadAsMeant
  RestartReapplies
PROPERTY StatusKeepsComing
