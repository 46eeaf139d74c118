CONSTANTS
    NULL = NULL
    NIL = NIL
    Heads = {h1, h2}
    Elems = {e1, e2, e3}
    Nodes = {1, 2, 3, 4, 5, 6, 7}
    SplayNodes = {1, 2, 3, 4, 5}
    Width = 2
    MaxArgs = 2
    FdSlots = {"u1", "u2", "u3"}
    Fds = {3, 4, 5}
    Blocks = {"b1", "b2"}
    Readers = {"r1"}
    Writers = {"w1", "w2"}
    Addrs = {"a1", "a2"}
    Buffers = {"b1", "b2"}
    MaxFailures = 1
    Objs = {o1, o2, o3, o4}
    Slots = {s1, s2, s3}
    Callbacks = {"f1", "f2"}
    Refs = {1, 2}
    Caps = {"cap_chown", "cap_bpf"}
    BadName = "cap_unknown"
    MAX_CAPABILITIES = 2
SYMMETRY Symmetry
SPECIFICATION NativeSpec
INVARIANTS
    ListsAreSequences
    TreesAreSets
    BindingsCount
    NotifyCallsItsFunction
    
    MessagesReadBack
    OwnDescriptorsOnly
    FlagsAreAsAsked
PROPERTIES
    TraversalsAgree
CHECK_DEADLOCK FALSE
