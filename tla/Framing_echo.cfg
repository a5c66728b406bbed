SPECIFICATION Spec
CONSTANTS Base = 4
          Bodies <- ThreeBodies
          Prefix <- OneByte
          MaxMessages = 2
          ReadSize = 5
INVARIANT EchoesRequests
CHECK_DEADLOCK FALSE
