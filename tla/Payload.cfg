SPECIFICATION Spec
CONSTANTS
    ChunkLen = 2
    TagLen = 2
    CtrLimit = 3
    IntMax = 7
    MaxLen = 10
    MaxSeals = 5
    MaxEdits = 3
INVARIANTS NonceUnique ReleasesAPrefix AcceptsExactlyTheStream
