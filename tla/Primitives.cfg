SPECIFICATION Spec
CONSTANTS
    EbufSize = 12
    SizeBits = 6
    FirstCap = 4
    Nul = 0
    Colon = 1
    Space = 2
    OuterSizes = {1, 3, 4, 8, 9, 10, 11, 15}
    InnerSizes = {1, 2, 5, 6, 7, 10, 11, 12, 20}
    MaxOuters = 2
    WriteSizes = {0, 1, 3, 4, 5, 16, 28, 29, 33, 63}
    MaxWrites = 3
    Gives = {0, 8, 63}
    BlockLen = 8
    LenLen = 2
    DigestLen = 4
    WordBits = 8
    CipherKey = 4
    MacLen = 4
    WordVals = 4
    LimbBits = 7
    Limbs = 2
    Narrow = 4
    Fold = 3
    CarryOrder <- MCCarryOrder
    A24 = 115
    ScalarLen = 8
    BasePoint = 24
    PieceSizes = {0, 1, 2, 3, 5, 6, 7, 8, 9, 10}
    LongSizes = {4, 16, 17, 33}
    MacSizes = {0, 1, 4, 7, 8, 9}
    KeySizes = {0, 3, 8, 9}
    Rounds = {1, 2, 3}
    KeyBytes = {1, 4, 5, 8, 9}
    Lanes = {1, 2}
    Costs = {2, 4, 8}
    ChunkRs = {1, 2, 3}
    LaneSeeds = {0, 1, 6, 77, 200}
    TextSizes = {0, 1, 3, 4, 5, 8, 9, 17, 30}
    AdSizes = {0, 1, 4, 6}
    NonceTops = {0, 2}
    Places = {1, 2, 5, 6, 9, 13, 21, 34}
    HLimbs = {0, 1, 63, 126, 127}
    CLimbs = {0, 1, 126, 127}
    FeLows = {0, 1, 16, 17, 52}
    FeHighs = {0, 1, 8, 26}
    ChainModuli <- MCChainModuli
    ChainTail = 252
    Scalars = {0, 8, 16, 24, 32, 40, 48, 56, 77, 255}
    Points <- MCPoints
INVARIANTS BuffersExact HashExact KdfExact AeadExact RoundsExact CurveExact
