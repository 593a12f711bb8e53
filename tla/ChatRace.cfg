CONSTANTS
    c1 = c1
    r1 = r1
    r2 = r2
    Conversations = {c1}
    Streams = {r1, r2}
    Strategy <- Summarising
    SystemPrompt <- Prompted
    Interval = 2
    Window = 8000
    Questions = {6000}
    ChunkChars = 400
    MaxChunks = 1
    Faults = 0
SPECIFICATION Spec
INVARIANT CancellationAborts
CHECK_DEADLOCK FALSE
