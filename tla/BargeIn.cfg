CONSTANTS
    MaxUtterances = 2  MaxLines = 0  OneInput = TRUE
    SpeaksIn <- WhenSpeakingToo
    Prompt = TRUE
    MaxReply = 2  SentenceCap = 0
    MayRefuse = FALSE  SttMayFail = TRUE  TtsMayFail = FALSE
    Prefill = 0  MaxChunks = 0
    Summarizing = FALSE
SPECIFICATION PipelineSafety
INVARIANT NeverOverplays
\* A user may fall silent.
CHECK_DEADLOCK FALSE
