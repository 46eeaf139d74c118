SPECIFICATION Spec
CONSTANTS
    Values = {"0", "1"}
    Wanted = "1"
    InitialConf <- SmallConf
    InitialModprobe <- SmallModprobe
    InitialFstab <- SmallFstab
INVARIANT UnloadedWhenClaimed
