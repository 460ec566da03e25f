CONSTANTS
    Prompts = {q1}
    Answers = {allow}
    Processes = {p1, p2}
    None = None
    Home = p1
    MaxLinks = 2
    MaxReports = 1
    Reported = {"working"}
    MaxFaults = 1
SPECIFICATION FairSpec
CHECK_DEADLOCK FALSE
INVARIANTS TypeOK ToldIsRecorded WaitingCanBeAnswered
PROPERTIES OutcomeIsHeard
