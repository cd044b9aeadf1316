SPECIFICATION FairIngress
CONSTANTS
  p1 = p1
  p2 = p2
  Peers = {p1, p2}
  MaxSessions = 2
  ChannelDepth = 1
  MaxAssociations = 4
 
PROPERTIES EntryReaped DrainsWhenCompletionsFit
