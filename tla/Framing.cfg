SPECIFICATION FairSpec
CONSTANTS Base = 4
          Bodies <- ThreeBodies
          Prefix <- OneByte
          MaxMessages = 2
          ReadSize = 5
INVARIANTS TypeOK PartialHeaderHarmless NothingStranded RepliesFaithful
PROPERTIES RequestsDelivered AllEchoed
CHECK_DEADLOCK FALSE
