CONSTANTS
  Inbox = "INBOX"
  Folders = {"Archive"}
  Servers <- AllServers
  Batch = 1
  MaxChanges = 2
  MaxFaults = 1
SPECIFICATION FeedSpec
INVARIANT ToldIsKept
PROPERTIES FeedConverges
CHECK_DEADLOCK FALSE
