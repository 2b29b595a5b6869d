SPECIFICATION Spec
CONSTANTS
    ChunkSizes = {2, 4}
    Overlaps = {0, 1, 2}
    MaxSentences = 3
    MaxWords = 3
    MaxUploads = 2
    MaxResults = 2
    MaxContext = 7
    Limit = 5
    MaxFacts = 2
    FactLengths = {1, 2, 3, 6}
INVARIANTS
    DocumentsCoverTheText
    OversizedChunksAreOneSentence
    BlockFits
    CutFactsAreReported
    CutOnlyWhenFull
CHECK_DEADLOCK FALSE
