SPECIFICATION FairSpec
CONSTANTS Chunk = 3 TrnsfN = 2 Fifo0Depth = 5 MaxPkts = 4
INVARIANTS OnePacket
PROPERTIES InOrder PacketArrives HostNeverStuck
CHECK_DEADLOCK FALSE
