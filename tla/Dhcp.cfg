SPECIFICATION FairSpec
CONSTANTS
  Servers = {s1, s2}
  None = None
  Kinds = {"dhcp", "mute", "bootp", "proxy"}
  GwServers = {s1}
  ExtServers = {s2}
  MaxRetries = 2
  MaxFaults = 1
INVARIANTS SoundConfiguration FailsOnlyIfUnserved
PROPERTY Returns
