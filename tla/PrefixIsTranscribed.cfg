SPECIFICATION Spec
CONSTANTS
    Parts = {"realtime"}
    RingCapacity = 4
    MaxSent = 7
    GateHangover = 2
    LoopCapacity = 3
    MaxEmitted = 9
    MinSpeech = 2
    Hangovers = {1, 2}
    PrePad = 2
    MaxDuration = 5
    Window = 3
    MaxFrames = 7
    MaxToggles = 2
    Utterances = 2
    Chunks = 2
    MaxJobs = 4
    SelfListenCap = 2
    MessageIds = {"m", "n"}
    Total = 2
    MaxFed = 6
    BodyLength = 7
    Voices = {"en", "de"}
    Fallback = "en"
    MaxStream = 6
    Abbreviations <- Shortened
    MarkerLength = 1
    MaxSentence = 4
    MaxText = 6
INVARIANT PrefixIsTranscribed
CHECK_DEADLOCK FALSE
