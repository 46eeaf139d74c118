------------------------------ MODULE Startup ------------------------------
(* The start of the daemon's program (main.c, lualibs.c, ramfs.c): open the    *)
(* libraries with the collector stopped, load the virtual file system, run its *)
(* init, and turn what init returns into the exit status.                      *)
EXTENDS Integers

CONSTANT Libs   \* how many entries builtinlibs has

ASSUME StartupAssumption == Libs \in Nat

VARIABLES
    spc,       \* the step of main, pmain and ramfs_vfsinit
    lib,       \* libraries opened by lualibs_openall
    loaded_,   \* package.loaded has ramfs
    gc,        \* the collector runs
    log,       \* __log_init has been called, and not yet __log_uninit
    state,     \* the Lua state is open
    value,     \* what pmain leaves on top of the stack
    rc         \* the status main returns, -1 while it runs

startVars == <<spc, lib, loaded_, gc, log, state, value, rc>>

(* What init may return: numbers, strings that are numbers, other values.  A    *)
(* process passes on the low 8 bits of its status.                              *)
Number(n) == [type |-> "number", n |-> n]
Values == {Number(0), Number(1), Number(256)}
          \cup {[type |-> t, n |-> 0] : t \in {"true", "false", "nil", "table"}}
Truthy(v) == v.type \notin {"false", "nil"}
Unset == [type |-> "none", n |-> 0]

StartInit ==
    /\ spc = "main" /\ lib = 0 /\ loaded_ = FALSE /\ gc = TRUE
    /\ log = FALSE /\ state = FALSE /\ value = Unset /\ rc = -1

(* luaL_newstate may find no memory. *)
start_main ==
    /\ spc = "main"
    /\ \/ rc' = 1 /\ spc' = "done" /\ UNCHANGED <<gc, log, state>>
       \/ spc' = "openall" /\ gc' = FALSE /\ log' = TRUE /\ state' = TRUE /\ UNCHANGED rc
    /\ UNCHANGED <<lib, loaded_, value>>

(* An error thrown in pmain ends at the pcall of main, with EXIT_FAILURE. *)
Thrown ==
    /\ spc \in {"openall", "require", "init"} /\ spc' = "pcall" /\ value' = Unset
    /\ UNCHANGED <<lib, loaded_, gc, log, state, rc>>

luaL_requiref ==
    /\ spc = "openall" /\ lib < Libs
    /\ lib' = lib + 1 /\ UNCHANGED <<spc, loaded_, gc, log, state, value, rc>>

pmain_restarts_gc ==
    /\ spc = "openall" /\ lib = Libs
    /\ gc' = TRUE /\ spc' = "require" /\ UNCHANGED <<lib, loaded_, log, state, value, rc>>

(* The two failures of the first half: the chunk does not load, or does not     *)
(* return a table.  pmain pushes EXIT_FAILURE.                                  *)
ramfs_require ==
    /\ spc = "require"
    /\ \/ spc' = "init" /\ loaded_' = TRUE /\ UNCHANGED value
       \/ spc' = "pcall" /\ value' = Number(1) /\ UNCHANGED loaded_
    /\ UNCHANGED <<lib, gc, log, state, rc>>

ramfs_vfsinit ==
    /\ spc = "init" /\ spc' = "pcall"
    /\ \/ value' = Number(1)     \* there is no init, or it throws
       \/ \E v \in Values :
            value' = IF v.type = "number" THEN v ELSE Number(IF Truthy(v) THEN 0 ELSE 1)
    /\ UNCHANGED <<lib, loaded_, gc, log, state, rc>>

(* Mutant: the log stays open. *)
main_ends_logging ==
    /\ spc = "pcall" /\ spc' = "done" /\ rc' = IF Truthy(value) THEN 0 ELSE 1
    /\ state' = FALSE /\ UNCHANGED <<lib, loaded_, gc, log, value>>

main_ends ==
    /\ spc = "pcall" /\ spc' = "done"
    /\ rc' = CASE value.type = "none" -> 1
               [] value.type = "number" -> value.n
               [] OTHER -> IF Truthy(value) THEN 0 ELSE 1
    /\ state' = FALSE /\ log' = FALSE /\ UNCHANGED <<lib, loaded_, gc, value>>

StartNext ==
    \/ start_main \/ Thrown \/ luaL_requiref \/ pmain_restarts_gc
    \/ ramfs_require \/ ramfs_vfsinit \/ main_ends

StartSpec == StartInit /\ [][StartNext]_startVars

(* The program has closed its state and its log when it ends, and a status of 0 *)
(* (its low 8 bits) means that every library was opened, the collector runs,    *)
(* the virtual file system was loaded and its init asked for such a status.     *)
StartupStatusIsTrue ==
    spc = "done" =>
        /\ ~state /\ ~log
        /\ rc % 256 = 0 =>
               lib = Libs /\ gc /\ loaded_ /\ value.type = "number" /\ value.n % 256 = 0
=============================================================================
