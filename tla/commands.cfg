CONSTANTS
    LevelA = LevelA
    LevelB = LevelB
    LevelC = LevelC
    Nil = Nil
    LevelIds <- MCLevelIds
    Profiles <- MCProfiles
    Procs = {p1, p2}
    Names = {"name", "deny_tmp"}
    HeaderWords = {"name"}
    MaxEdits = 1
    MaxEvents = 3
    MaxLines = 1
    Libs = 2
SPECIFICATION CommandsSpec
INVARIANTS
    ActiveIsInheritanceClosure
    RunsTheRulesOfTheLevel
    
    SendsOnlyValid
    StatusIsTrue
    InterruptsAreAnswered
PROPERTIES
    CommandsEnd
CHECK_DEADLOCK FALSE
