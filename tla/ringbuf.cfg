CONSTANTS
  s1 = s1
  s2 = s2
  i1 = i1
  r1 = r1
  r2 = r2
  SendTasks = {s1}
  SendIsrs = {i1}
  RecvTasks = {r1}
  RecvIsrs = {r2}
  BufTypes = {"NOSPLIT", "ALLOWSPLIT", "BYTEBUF"}
  SizeOf <- MCSizeOf
  Sends <- MCSends
  Waits <- MCWaits
  Wanted = {1}
SPECIFICATION FairSpec
INVARIANTS
  NoAssertFails
  SenderWakes
  MaxItemFits
PROPERTIES
  Fifo
  UnreadIsReceived
