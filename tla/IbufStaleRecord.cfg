SPECIFICATION IbufSpec
CONSTANTS
    ProbeLen = 3
    EndLen = 2
    LineLen = 2
    BlockLines = 2
    ABufLines = 2
    BufSize = 5
    MacLen = 2
    NonceLen = 1
    Chunk = 10
    HeaderLens = {4, 5, 7}
    MaxLen = 14
INVARIANT IntactHeaderAccepted
