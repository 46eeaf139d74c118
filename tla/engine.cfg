CONSTANTS
    Rules <- SmallProfile
    Settings = {"a", "b"}
    Values = {"on", "off"}
    MaxDrift = 1
SPECIFICATION Spec
INVARIANTS
    SummaryMatchesReport
    ExitZeroMeansCompliant
    GuardsRunFirst
PROPERTIES
    VerdictsAreFresh
    ImplementsHardeningRun
CHECK_DEADLOCK FALSE
