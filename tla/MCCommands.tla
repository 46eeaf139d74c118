----------------------------- MODULE MCCommands -----------------------------
(* The selection of rules, the lua-lsm command, the interpreter and the start *)
(* of the program share no state; a behaviour exercises one of them, and      *)
(* focus picks it.                                                            *)
EXTENDS ProfileLevels, LuaLsm, LuaJit, Startup

CONSTANTS LevelA, LevelB, LevelC

MCLevelIds == {LevelA, LevelB, LevelC}

Parents == {<<>>, <<LevelA>>, <<LevelB>>, <<LevelC, LevelA>>, <<LevelB, LevelC>>}

LevelDefs == [id : MCLevelIds, inherits_from : Parents]

(* Two or three levels, cycles, duplicate ids and unknown references included. *)
LevelLists == [1..2 -> LevelDefs] \cup {s \in [1..3 -> LevelDefs] : s[1].id = LevelA /\ s[2].id = LevelB}

Everywhere == [given |-> FALSE, levels |-> {}]
At(S) == [given |-> TRUE, levels |-> S]
R(n, l, ok) == [id |-> n, level |-> l, comparators_ok |-> ok]

RuleLists == {<<R(1, Everywhere, TRUE), R(2, At({LevelB}), TRUE), R(3, At({LevelA, LevelC}), TRUE)>>,
              <<R(1, At({LevelC}), FALSE), R(2, At({LevelA}), TRUE)>>,
              <<R(1, At({LevelA}), TRUE), R(1, At({LevelB}), TRUE)>>}

MCProfiles ==
    [levels : LevelLists, default_level : {Nil, LevelB}, rules : RuleLists,
     reviews : {<<[level |-> At({LevelB})], [level |-> Everywhere]>>}]

VARIABLE focus

allVars == <<vars, lsmVars, jitVars, startVars, focus>>

CommandsInit ==
    /\ focus \in {"levels", "lsm", "jit", "start"}
    /\ IF focus = "levels" THEN Init
       ELSE /\ profile = CHOOSE p \in Profiles : TRUE
            /\ requested = Nil /\ pc = "load" /\ target = Nil /\ active = {} /\ stack = <<>>
            /\ index = 1 /\ selected = <<>> /\ reviews = {}
    /\ IF focus = "lsm" THEN LsmInit
       ELSE /\ file = Missing /\ edits = 0 /\ abi = {} /\ loaded = {} /\ cap = {}
            /\ cmd = [p \in Procs |-> "list"]
            /\ arg = [p \in Procs |-> AnyName]
            /\ at = [p \in Procs |-> "start"]
            /\ checked = [p \in Procs |-> Missing] /\ source = checked
            /\ cut = {} /\ stale = {}
            /\ granted = [p \in Procs |-> 0] /\ rejected = granted
            /\ exit = [p \in Procs |-> -1]
    /\ IF focus = "jit" THEN JitInit
       ELSE /\ argv = <<>> /\ luainit = FALSE /\ tty = FALSE
            /\ jpc = "main" /\ args = Invalid /\ pos = 1 /\ chunk = NoChunk
            /\ disp = "default" /\ hook = FALSE /\ sigints = 0 /\ lines = 0
            /\ ran = <<>> /\ status = 0 /\ jexit = "no"
    /\ StartInit

SelectionMoves == focus = "levels" /\ Next /\ UNCHANGED <<lsmVars, jitVars, startVars, focus>>
LsmMoves == focus = "lsm" /\ LsmNext /\ UNCHANGED <<vars, jitVars, startVars, focus>>
JitMoves == focus = "jit" /\ JitNext /\ UNCHANGED <<vars, lsmVars, startVars, focus>>
StartMoves == focus = "start" /\ StartNext /\ UNCHANGED <<vars, lsmVars, jitVars, focus>>

CommandsNext == SelectionMoves \/ LsmMoves \/ JitMoves \/ StartMoves

(* The selection is one thread that runs to its end; so is the interpreter. *)
CommandsSpec ==
    /\ CommandsInit /\ [][CommandsNext]_allVars
    /\ WF_allVars(SelectionMoves \/ (focus = "jit" /\ JitStep /\ UNCHANGED <<vars, lsmVars, startVars, focus>>))

-----------------------------------------------------------------------------
(* The interpreter runs what its command line asks for, in order, and its      *)
(* status says so; so does the status of the program.                          *)
StatusIsTrue == ArgumentsReadAlike /\ JitExitIsTrue /\ StartupStatusIsTrue

(* A selection that was started ends, and so does the interpreter if the       *)
(* chunks and the input do.                                                    *)
CommandsEnd == SelectionEnds /\ (focus = "jit" => JitEnds)
=============================================================================
