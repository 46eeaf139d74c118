CONSTANTS
    Rules <- SmallProfile
    Settings = {"a", "b"}
    Values = {"on", "off"}
    MaxDrift = 0
SPECIFICATION Spec
INVARIANT GuardErrorSkipsReinforce
CHECK_DEADLOCK FALSE
