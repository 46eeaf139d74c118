SPECIFICATION CapSpec
CONSTANTS
    Caps = {"cap_chown", "cap_bpf"}
    BadName = "cap_unknown"
    MAX_CAPABILITIES = 2
INVARIANT TableNamesAreSet
CHECK_DEADLOCK FALSE
