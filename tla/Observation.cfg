SPECIFICATION FairSpec
CONSTANTS
    NoBaseline = NoBaseline
    NoReply = NoReply
    NoTombstone = NoTombstone
    Screens <- FewScreens
    Matching <- PromptMatches
    Baselines <- PromptOrNone
    Settles = {0, 1}
    Timeout = 2
    PollInterval = 2
    MaxUpdates = 2
    MaxTime = 4
    ScrollbackRows = 3
INVARIANTS ChangeReported SettledWasStable ExitedIsTrue ScreenReadRight DeadlineKept
PROPERTY RequestAnswered
CHECK_DEADLOCK FALSE
