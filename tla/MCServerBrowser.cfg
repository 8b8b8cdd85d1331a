CONSTANTS
  Server = {host}
  Period = 2
  Poll = 1
  Limit = 4
  CleanGap = 2
  MaxDelay = 1
  Ip = {home, host, word}
  Malformed = {word}
  DefaultIp = home
  Port = {p0, p1}
  DefaultPort = p0
  PortOf <- OtherPort
  Gap = 1
  None = None
SPECIFICATION FairBrowser
INVARIANTS
  LiveServersStay
  MenuIsSound
  ShownServersAreFresh
PROPERTIES
  RequestsAreSpaced
  RunningServersAreListed
  StoppedServersLeaveTheMenu
