SPECIFICATION FairSpec
CONSTANTS NBuff = 2 PctWords = 3 RdPerWr = 2 RdyWords = 2 SyncModes = {TRUE} MaxPkts = 3 SyncPkts = 3
PROPERTIES EveryPacketLeaves
CHECK_DEADLOCK FALSE
