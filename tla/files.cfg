CONSTANTS
    Lines <- FileLines
    Ops <- FileOps
    MaxInitial = 3
    Procs = {p1, p2}
    Preserving = {p1}
    MaxFaults = 2
    MaxReruns = 1
    MaxLinks = 1
    PamLines <- PamEntries
    Steps <- ProfileSteps
    Configs <- FaillockConfigs
    DefaultDeny = 3
    DefaultUnlock = 600
    MaxPamLines = 2
    WholeFiles <- ShippedFiles
    AttrNames = {"x", "y", "z"}
    Margin = 1
    Versions <- SmallVersions
    Chunk = 2
    Modules <- MCModules
    SigLen = 2
    MaxSigns = 2
    MaxEdits = 1
SPECIFICATION FilesSpec
INVARIANTS
    WritesLoseNothing
    RulesAreFixed
    ReadsAreSnapshots
PROPERTIES
    StepsAreIdempotent
    EditsReadBack
    LinkReplacedOnlyInWindow
    PamStepsKeepChecks
    SigningIsSafe
CHECK_DEADLOCK FALSE
