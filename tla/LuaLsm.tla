------------------------------- MODULE LuaLsm -------------------------------
(***************************************************************************)
(* `loongshield lua-lsm`: processes that load and unload kernel policies   *)
(* by writing the securityfs files `register` and `unregister`, while      *)
(* policy files may be edited and other processes do the same.             *)
(* The kernel side is external: one write(2) is one request, which it      *)
(* grants whole or rejects with an error.  So is stdio: a source that fits  *)
(* the buffer is written by close, of a longer one the whole blocks are     *)
(* written by file:write and the rest, if there is one, by close.           *)
(***************************************************************************)
EXTENDS Integers, FiniteSets

CONSTANTS
    Procs,          \* processes that run one command each
    Names,          \* policy names
    HeaderWords,    \* names parse_module_line takes for the table's header
    MaxEdits        \* bound on the edits of the policy file

ASSUME HeaderAssumption == HeaderWords \subseteq Names

(* valid: the metadata check of policy.lua passes; accepted: the kernel's checks *)
(* of the whole source, which are others, do.                                  *)
Contents == [name : Names, valid : BOOLEAN, accepted : BOOLEAN]
Missing == [name |-> "none"]
Files == {"version", "modules", "register", "unregister"}
Commands == {"load", "load_unchecked", "unload", "list", "status"}

AnyName == CHOOSE n \in Names : TRUE

VARIABLES
    file,       \* the policy file on disk
    edits,      \* edits of it so far
    abi,        \* the securityfs files that can be opened
    loaded,     \* the kernel's table of policies
    cmd,        \* the command of each process
    arg,        \* the module name given to unload
    cap,        \* the processes with effective CAP_MAC_ADMIN
    at,         \* where each process is
    checked,    \* the content that validate_file read
    source,     \* the content that load_file read, and that is buffered
    cut,        \* the processes whose source was written in two parts
    stale,      \* history: processes whose file was edited between their two reads
    granted,    \* requests of each process the kernel granted
    rejected,   \* requests of each process the kernel rejected
    exit        \* exit code of each process, -1 while it runs

lsmVars == <<file, edits, abi, loaded, cmd, arg, cap, at, checked, source,
             cut, stale, granted, rejected, exit>>

LsmInit ==
    /\ file \in Contents \cup {Missing}
    /\ edits = 0
    /\ abi \in {{}, {"version"}, Files, Files \ {"modules"}}
    /\ loaded \in SUBSET Names
    /\ cmd \in [Procs -> Commands]
    /\ arg \in [Procs -> Names]
    /\ \A p \in Procs : cmd[p] # "unload" => arg[p] = AnyName
    /\ cap \in SUBSET {p \in Procs : cmd[p] \notin {"list", "status"}}
    /\ at = [p \in Procs |-> "start"]
    /\ checked = [p \in Procs |-> Missing]
    /\ source = [p \in Procs |-> Missing]
    /\ cut = {} /\ stale = {}
    /\ granted = [p \in Procs |-> 0]
    /\ rejected = [p \in Procs |-> 0]
    /\ exit = [p \in Procs |-> -1]

Goto(p, l) == at' = [at EXCEPT ![p] = l] /\ exit' = exit
Exit(p, code) == at' = [at EXCEPT ![p] = "done"] /\ exit' = [exit EXCEPT ![p] = code]
Static == UNCHANGED <<abi, cmd, arg, cap>>
KernelIdle == UNCHANGED <<loaded, cut, granted, rejected>>

-----------------------------------------------------------------------------
(* Mutant: the outcome of running the policy is not looked at. *)
ValidateFileOpened(p) ==
    /\ at[p] = "start"
    /\ cmd[p] = "load"
    /\ IF file # Missing
       THEN checked' = [checked EXCEPT ![p] = file] /\ Goto(p, "validated")
       ELSE Exit(p, 1) /\ UNCHANGED checked
    /\ Static /\ KernelIdle /\ UNCHANGED <<file, edits, stale, source>>

(* load_policy.  policy.validate_file reads the file and runs it. *)
ValidateFile(p) ==
    /\ at[p] = "start"
    /\ cmd[p] = "load"
    /\ IF file # Missing /\ file.valid
       THEN checked' = [checked EXCEPT ![p] = file] /\ Goto(p, "validated")
       ELSE Exit(p, 1) /\ UNCHANGED checked
    /\ Static /\ KernelIdle /\ UNCHANGED <<file, edits, stale, source>>
(* Mutant: no module is ever found. *)
IsLoadedNever(name) == FALSE

(* securityfs.is_loaded: a line whose first word looks like the header is not *)
(* a module; when `modules` cannot be read the check is only warned about.    *)
IsLoaded(name) == "modules" \in abi /\ name \in loaded \ HeaderWords

CheckLoaded(p) ==
    /\ at[p] = "validated"
    /\ IF IsLoaded(checked[p].name) THEN Exit(p, 1) ELSE Goto(p, "load_file")
    /\ Static /\ KernelIdle /\ UNCHANGED <<file, edits, stale, checked, source>>

SkipValidation(p) ==
    /\ at[p] = "start"
    /\ cmd[p] = "load_unchecked"
    /\ Goto(p, "load_file")
    /\ Static /\ KernelIdle /\ UNCHANGED <<file, edits, stale, checked, source>>
(* securityfs.load_file reads the file again; load_source wants the capability. *)
LoadFile(p) ==
    /\ at[p] = "load_file"
    /\ IF file # Missing /\ p \in cap
       THEN source' = [source EXCEPT ![p] = file] /\ Goto(p, "write")
       ELSE Exit(p, 1) /\ UNCHANGED source
    /\ Static /\ KernelIdle /\ UNCHANGED <<file, edits, stale, checked>>

(* securityfs.unload. *)
BeginUnload(p) ==
    /\ at[p] = "start"
    /\ cmd[p] = "unload"
    /\ IF p \in cap THEN Goto(p, "write") ELSE Exit(p, 1)
    /\ Static /\ KernelIdle /\ UNCHANGED <<file, edits, stale, checked, source>>

Target(p) == IF cmd[p] = "unload" THEN "unregister" ELSE "register"
(* Mutant: a file that cannot be opened is no error. *)
OpenAndWriteOptional(p) ==
    /\ at[p] = "write"
    /\ IF Target(p) \in abi THEN Goto(p, "buffered") ELSE Exit(p, 0)
    /\ Static /\ KernelIdle /\ UNCHANGED <<file, edits, stale, checked, source>>

(* write_file: open and file:write, which fills the buffer or, for a source    *)
(* longer than it, writes blocks of it.  The name of an unload is short.       *)
OpenAndWrite(p) ==
    /\ at[p] = "write"
    /\ IF Target(p) \in abi
       THEN Goto(p, "buffered") \/ (cmd[p] # "unload" /\ Goto(p, "blocks"))
       ELSE Exit(p, 1)
    /\ Static /\ KernelIdle /\ UNCHANGED <<file, edits, stale, checked, source>>

(* The tables that the kernel may have after granting a request.  What it makes *)
(* of a part of a source is left open: a policy of any name, or an error.       *)
Grants(p, whole) ==
    IF cmd[p] = "unload" THEN {loaded \ {arg[p]} : n \in {arg[p]} \cap loaded}
    ELSE IF whole
    THEN {loaded \cup {n} : n \in (IF source[p].accepted THEN {source[p].name} ELSE {}) \ loaded}
    ELSE {loaded \cup {n} : n \in Names \ loaded}

Request(p, whole) ==
    \/ /\ loaded' \in Grants(p, whole)
       /\ granted' = [granted EXCEPT ![p] = @ + 1]
       /\ UNCHANGED rejected
    \/ /\ ~whole \/ Grants(p, whole) = {}
       /\ rejected' = [rejected EXCEPT ![p] = @ + 1]
       /\ UNCHANGED <<loaded, granted>>

(* Mutant: the error return of file:write is not looked at. *)
WriteBlocksUnchecked(p) ==
    /\ at[p] = "blocks"
    /\ \E whole \in BOOLEAN :
          /\ Request(p, whole)
          /\ IF whole THEN Exit(p, 0) ELSE Goto(p, "buffered")
          /\ cut' = IF whole THEN cut ELSE cut \cup {p}
    /\ Static /\ UNCHANGED <<file, edits, stale, checked, source>>

(* file:write of a source that is longer than the buffer.  When the kernel       *)
(* rejects it write_file returns its error, and close finds nothing to write.    *)
WriteBlocks(p) ==
    /\ at[p] = "blocks"
    /\ \E whole \in BOOLEAN :
          /\ Request(p, whole)
          /\ IF granted' = granted THEN Exit(p, 1)
             ELSE IF whole THEN Exit(p, 0) ELSE Goto(p, "buffered")
          /\ cut' = IF whole THEN cut ELSE cut \cup {p}
    /\ Static /\ UNCHANGED <<file, edits, stale, checked, source>>

(* file:close flushes the buffer; what it returns is dropped and write_file   *)
(* goes by the result of file:write.                                          *)
CloseFlushes(p) ==
    /\ at[p] = "buffered"
    /\ Request(p, p \notin cut)
    /\ Exit(p, 0)
    /\ Static /\ UNCHANGED <<file, edits, stale, checked, source, cut>>

(* list and status only read. *)
ReadCommand(p) ==
    /\ at[p] = "start"
    /\ cmd[p] \in {"list", "status"}
    /\ Exit(p, IF (IF cmd[p] = "list" THEN "modules" ELSE "version") \in abi THEN 0 ELSE 1)
    /\ Static /\ KernelIdle /\ UNCHANGED <<file, edits, stale, checked, source>>

(* Someone edits, replaces or removes the policy file. *)
Edit ==
    /\ edits < MaxEdits
    /\ file' \in (Contents \cup {Missing}) \ {file}
    /\ edits' = edits + 1
    /\ stale' = stale \cup {p \in Procs : at[p] \in {"validated", "load_file"}}
    /\ Static /\ KernelIdle /\ UNCHANGED <<at, exit, checked, source>>

Step(p) ==
    \/ ValidateFile(p) \/ CheckLoaded(p) \/ SkipValidation(p) \/ LoadFile(p)
    \/ BeginUnload(p) \/ OpenAndWrite(p) \/ WriteBlocks(p) \/ CloseFlushes(p) \/ ReadCommand(p)

LsmNext == Edit \/ \E p \in Procs : Step(p)

LsmSpec == LsmInit /\ [][LsmNext]_lsmVars

-----------------------------------------------------------------------------
(* A command that exits with 1 has changed nothing in the kernel, which was    *)
(* asked at most once and said no.  A load or unload that exits with 0 has sent *)
(* all of its request, in one part or in two, and only the part that close      *)
(* wrote, the last, can have been rejected.                                     *)
ExitCodeCountsRequests ==
    \A p \in Procs :
        /\ exit[p] = 1 => granted[p] = 0 /\ rejected[p] <= 1
        /\ exit[p] = 0 /\ cmd[p] \notin {"list", "status"} =>
              /\ granted[p] + rejected[p] = IF p \in cut THEN 2 ELSE 1
              /\ rejected[p] <= 1

(* What a validated load sends to the kernel is what it validated, unless     *)
(* the file was edited between its own two reads: load_file reads it again.   *)
SendsWhatItValidated ==
    \A p \in Procs \ stale :
        cmd[p] = "load" /\ at[p] \in {"write", "blocks", "buffered"} =>
            source[p] = checked[p] /\ source[p].valid

(* The kernel rejects a validated load only if the file was edited in that     *)
(* window, the source does not pass the kernel's own checks or came in parts,  *)
(* another process loaded the name, or is_loaded could not see it (`modules`   *)
(* unreadable, or a name that reads like the table's header).                  *)
RejectionHasACause ==
    \A p \in Procs :
        cmd[p] = "load" /\ rejected[p] > 0 =>
            \/ p \in stale \cup cut
            \/ ~source[p].accepted
            \/ "modules" \notin abi
            \/ checked[p].name \in HeaderWords
            \/ \E q \in Procs \ {p} :
                  /\ cmd[q] # "unload" /\ granted[q] > 0
                  /\ source[q].name = source[p].name \/ q \in cut

(* The lua-lsm command sends what it has validated, and the kernel rejects it  *)
(* only for one of these causes.                                              *)
SendsOnlyValid == SendsWhatItValidated /\ RejectionHasACause

(* docs/reference/lua-lsm-cli.md: exit code 1 for a "kernel write failure",   *)
(* and 0 only when the "command completed successfully".                      *)
ExitZeroMeansGranted ==
    \A p \in Procs : exit[p] = 0 => rejected[p] = 0

=============================================================================
