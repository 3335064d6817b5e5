SPECIFICATION FairSpec
CONSTANTS
    MaxDelay = 2
    MaxPackets = 4
INVARIANTS TypeOK WokenOnTime RefusedStaysFirst ForcedInOrder AssertionsHold
PROPERTIES EveryPacketLeaves DrainCompletes
