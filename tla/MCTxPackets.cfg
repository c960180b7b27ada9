SPECIFICATION FairSpec
CONSTANTS NBuff = 2 PctWords = 3 RdPerWr = 2 RdyWords = 4 MaxPkts = 3 SyncPkts = 2
          SyncModes = {TRUE, FALSE}
INVARIANTS TypeOK Ownership Framing HeaderOfBuffer StreamIntact DropOnlyLate
PROPERTIES NeverEarly EveryPacketLeaves
CHECK_DEADLOCK FALSE
