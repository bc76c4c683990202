SPECIFICATION Spec
CONSTANTS
    Services = {"llm", "tts"}
    Critical = {"llm"}
    MaxFailures = 2
    Grace = 1
    Threshold = 2
    FileContents <- MCFileContents
    Resolve <- MCResolve
    MaxEdits = 2
    MaxHttp = 1
    MaxStarts = 1
    Processes = {"assistant", "second"}
    Settings <- MCSettings
    Gates = {"llm", "capture"}
    MaxLives = 2
    MaxForeign = 1
    LowBelow = 1
    WedgedFrom = 2
    MaxApps = 2
    SentencesPerTurn = 2
    MaxDriven = 3
INVARIANTS  StuckReportedOnce ReloadsAreWhole  ReportsAgree DriverInStep
PROPERTIES MainLoopServes StopsWhenTold
CHECK_DEADLOCK FALSE
