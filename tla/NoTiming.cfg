CONSTANTS
    MaxUtterances = 1  MaxLines = 0  OneInput = TRUE
    SpeaksIn <- WhenListening
    Prompt = FALSE
    MaxReply = 1  SentenceCap = 0
    MayRefuse = TRUE  SttMayFail = TRUE  TtsMayFail = FALSE
    Prefill = 1  MaxChunks = 0
    Summarizing = TRUE
SPECIFICATION PipelineSafety
INVARIANTS NeverOverplays TurnsEndOnce OutcomesCounted CancelledAreInterrupted
PROPERTIES ImplementsFsm
\* A user may fall silent.
CHECK_DEADLOCK FALSE
