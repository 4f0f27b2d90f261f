SPECIFICATION RenderingSpec
CONSTANTS
    BufferLimit = 4
    CustomTools = {"p"}
    MaxPieces = 5
    MaxCallChunks = 3
    MaxEvents = 8
    Retries = 1
INVARIANTS
    AnswerComplete
    BlocksFollow
    ChunksDoNotMatter
    TruncationShows
