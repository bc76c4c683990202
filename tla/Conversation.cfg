CONSTANTS
    MaxUtterances = 2  MaxLines = 1  OneInput = TRUE
    SpeaksIn <- WhenListening
    Prompt = TRUE
    MaxReply = 3  SentenceCap = 1
    MayRefuse = TRUE  SttMayFail = FALSE  TtsMayFail = TRUE
    Prefill = 0  MaxChunks = 1
    Summarizing = FALSE
SPECIFICATION PipelineSpec
INVARIANTS HeardAsSaid
 
\* A user may fall silent.
CHECK_DEADLOCK FALSE
