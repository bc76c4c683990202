CONSTANTS
    MaxUtterances = 2  MaxLines = 0  OneInput = TRUE
    SpeaksIn <- WhenListening
    Prompt = TRUE
    MaxReply = 1  SentenceCap = 0
    MayRefuse = FALSE  SttMayFail = FALSE  TtsMayFail = FALSE
    Prefill = 0  MaxChunks = 0
    Summarizing = TRUE
SPECIFICATION PipelineSafety
INVARIANT CompletedByOwnStream
\* A user may fall silent.
CHECK_DEADLOCK FALSE
