----------------------------- MODULE AtomicWrite ----------------------------
(***************************************************************************)
(* How seharden's enforcers replace a file (enforcers/fsutil.lua): read    *)
(* the lines, write them to a temporary file beside the target, rename it  *)
(* over the target, and for some enforcers restore owner and mode.         *)
(* Processes interleave, any call may fail, a process may be killed at any *)
(* step and run again, and somebody may put a symbolic link in the         *)
(* target's place.  A file's content is the set of lines it holds: "base"  *)
(* for what was there before, and the line each process is to add.         *)
(***************************************************************************)
EXTENDS Integers, FiniteSets

CONSTANTS
    Procs,          \* processes that each add a line
    Preserving,     \* those that restore owner and mode (pam, users, sudo)
    MaxFaults,      \* bound on failing calls
    MaxReruns,      \* bound on runs cut short by a kill or repeated after an error
    MaxLinks        \* bound on links put in the target's place

ASSUME PreservingAssumption == Preserving \subseteq Procs

VARIABLES
    target,     \* [kind, lines, whole, owner, mode]
    pc, buf,    \* where each process is, and the lines it is to write
    stat,       \* whether it found owner and mode to restore
    tmp,        \* its temporary file: "none", "partial" or "complete"
    ret,        \* what the enforcer returned: "none", "ok" or "err"
    window,     \* processes past their last check when the link appeared
    overwrote,  \* processes that have replaced the target
    orphans,    \* temporary files left by killed processes
    silent,     \* failures the code does not notice
    faults, reruns, links

writeVars == <<target, pc, buf, stat, tmp, ret, window, overwrote, orphans,
          silent, faults, reruns, links>>

Original == [kind |-> "file", lines |-> {"base"}, whole |-> TRUE, owner |-> "orig", mode |-> "orig"]

WriteInit ==
    /\ target = Original
    /\ pc = [p \in Procs |-> "read"]
    /\ buf = [p \in Procs |-> {}]
    /\ stat = [p \in Procs |-> FALSE]
    /\ tmp = [p \in Procs |-> "none"]
    /\ ret = [p \in Procs |-> "none"]
    /\ window = {} /\ overwrote = {}
    /\ orphans = 0 /\ silent = 0 /\ faults = 0 /\ reruns = 0 /\ links = 0

Goto(p, l) == pc' = [pc EXCEPT ![p] = l] /\ UNCHANGED ret
Return(p, r) == pc' = [pc EXCEPT ![p] = "done"] /\ ret' = [ret EXCEPT ![p] = r]
SetTmp(p, t) == tmp' = [tmp EXCEPT ![p] = t]
IsSymlink == target.kind = "link"
Fails == faults < MaxFaults /\ faults' = faults + 1
Works == faults' = faults
Scene == UNCHANGED <<reruns, links, orphans, window>>

-----------------------------------------------------------------------------

(* Mutant: the lines read are not carried over. *)
ReadLinesForgetting(p) ==
    /\ pc[p] = "read"
    /\ IF IsSymlink THEN Return(p, "err") ELSE Goto(p, "stat")
    /\ buf' = [buf EXCEPT ![p] = {p}]
    /\ Works /\ Scene /\ UNCHANGED <<target, stat, tmp, overwrote, silent>>

(* The enforcer refuses a link, then reads.  A file that cannot be opened is  *)
(* an error to pam, users and sudo, and an empty file to file.lua and to      *)
(* append_unique_line.  Nothing is written when the line is there.            *)
ReadLines(p) ==
    /\ pc[p] = "read"
    /\ \/ /\ IsSymlink
          /\ Return(p, "err") /\ Works /\ UNCHANGED <<buf, silent>>
       \/ /\ ~IsSymlink /\ Works /\ UNCHANGED silent
          /\ buf' = [buf EXCEPT ![p] = target.lines \cup {p}]
          /\ IF p \in target.lines THEN Return(p, "ok") ELSE Goto(p, "stat")
       \/ /\ ~IsSymlink /\ p \in Preserving /\ Fails
          /\ Return(p, "err") /\ UNCHANGED <<buf, silent>>
       \/ /\ ~IsSymlink /\ p \notin Preserving /\ Fails
          /\ silent' = silent + 1
          /\ buf' = [buf EXCEPT ![p] = {p}]
          /\ Goto(p, "stat")
    /\ Scene /\ UNCHANGED <<target, stat, tmp, overwrote>>

(* write_lines_atomically_preserving_attrs stats the target first; a failing  *)
(* stat only means that nothing is restored.                                  *)
StatTarget(p) ==
    /\ pc[p] = "stat"
    /\ \/ p \in Preserving /\ stat' = [stat EXCEPT ![p] = TRUE] /\ Works
       \/ p \in Preserving /\ stat' = [stat EXCEPT ![p] = FALSE] /\ Fails
       \/ p \notin Preserving /\ UNCHANGED stat /\ Works
    /\ Goto(p, "open")
    /\ Scene /\ UNCHANGED <<target, buf, tmp, overwrote, silent>>

OpenTmp(p) ==
    /\ pc[p] = "open"
    /\ \/ IsSymlink /\ Return(p, "err") /\ Works /\ UNCHANGED tmp
       \/ ~IsSymlink /\ Fails /\ Return(p, "err") /\ UNCHANGED tmp
       \/ ~IsSymlink /\ Works /\ SetTmp(p, "partial") /\ Goto(p, "write")
    /\ Scene /\ UNCHANGED <<target, buf, stat, overwrote, silent>>

(* Mutant: the file is renamed before it is closed. *)
WriteLinesUnclosed(p) ==
    /\ pc[p] = "write"
    /\ Goto(p, "check")
    /\ Works /\ Scene /\ UNCHANGED <<target, buf, stat, tmp, overwrote, silent>>

(* The results of f_out:write are not looked at: a flush that fails while     *)
(* the lines are written drops some of them.                                  *)
WriteLines(p) ==
    /\ pc[p] = "write"
    /\ \/ Works /\ UNCHANGED <<buf, silent>>
       \/ /\ Fails /\ silent' = silent + 1
          /\ \E l \in buf[p] : buf' = [buf EXCEPT ![p] = @ \ {l}]
    /\ Goto(p, "close")
    /\ Scene /\ UNCHANGED <<target, stat, tmp, overwrote>>

CloseTmp(p) ==
    /\ pc[p] = "close"
    /\ \/ Works /\ SetTmp(p, "complete") /\ Goto(p, "check")
       \/ Fails /\ SetTmp(p, "none") /\ Return(p, "err")
    /\ Scene /\ UNCHANGED <<target, buf, stat, overwrote, silent>>

(* Mutant: there is no second check for a link. *)
CheckAgainNever(p) ==
    /\ pc[p] = "check"
    /\ Goto(p, "rename")
    /\ Scene /\ Works /\ UNCHANGED <<target, buf, stat, tmp, overwrote, silent>>

CheckAgain(p) ==
    /\ pc[p] = "check"
    /\ IF IsSymlink THEN SetTmp(p, "none") /\ Return(p, "err")
                    ELSE Goto(p, "rename") /\ UNCHANGED tmp
    /\ Scene /\ Works /\ UNCHANGED <<target, buf, stat, overwrote, silent>>

Replacement(p) ==
    [kind |-> "file", lines |-> buf[p], whole |-> tmp[p] = "complete",
     owner |-> "default", mode |-> "default"]

RenameTmp(p) ==
    /\ pc[p] = "rename"
    /\ \/ /\ Works /\ target' = Replacement(p)
          /\ overwrote' = overwrote \cup {p}
          /\ IF stat[p] THEN Goto(p, "chown") ELSE Return(p, "ok")
       \/ Fails /\ Return(p, "err") /\ UNCHANGED <<target, overwrote>>
    /\ SetTmp(p, "none")
    /\ Scene /\ UNCHANGED <<buf, stat, silent>>

RestoreOwner(p) ==
    /\ pc[p] = "chown"
    /\ \/ Works /\ target' = [target EXCEPT !.owner = "orig"] /\ Goto(p, "chmod")
       \/ Fails /\ Return(p, "err") /\ UNCHANGED target
    /\ Scene /\ UNCHANGED <<buf, stat, tmp, overwrote, silent>>

(* Mutant: the result of chmod is not looked at. *)
RestoreModeUnchecked(p) ==
    /\ pc[p] = "chmod"
    /\ \/ Works /\ target' = [target EXCEPT !.mode = "orig"]
       \/ Fails /\ UNCHANGED target
    /\ Return(p, "ok")
    /\ Scene /\ UNCHANGED <<buf, stat, tmp, overwrote, silent>>

RestoreMode(p) ==
    /\ pc[p] = "chmod"
    /\ \/ Works /\ target' = [target EXCEPT !.mode = "orig"] /\ Return(p, "ok")
       \/ Fails /\ Return(p, "err") /\ UNCHANGED target
    /\ Scene /\ UNCHANGED <<buf, stat, tmp, overwrote, silent>>

(* Killed; the next run of the program starts over under another tmp name. *)
Crash(p) ==
    /\ pc[p] # "done" /\ reruns < MaxReruns
    /\ reruns' = reruns + 1
    /\ orphans' = orphans + (IF tmp[p] = "none" THEN 0 ELSE 1)
    /\ SetTmp(p, "none") /\ Goto(p, "read")
    /\ stat' = [stat EXCEPT ![p] = FALSE]
    /\ UNCHANGED <<target, buf, links, window, overwrote, silent, faults>>

(* The operator runs the enforcer again after an error. *)
Rerun(p) ==
    /\ ret[p] = "err" /\ reruns < MaxReruns
    /\ reruns' = reruns + 1
    /\ pc' = [pc EXCEPT ![p] = "read"] /\ ret' = [ret EXCEPT ![p] = "none"]
    /\ stat' = [stat EXCEPT ![p] = FALSE]
    /\ UNCHANGED <<target, buf, tmp, links, window, overwrote, orphans, silent, faults>>

(* Somebody puts a link to the file in its place. *)
PutLink ==
    /\ links < MaxLinks /\ ~IsSymlink
    /\ links' = links + 1
    /\ target' = [target EXCEPT !.kind = "link"]
    /\ window' = {p \in Procs : pc[p] = "rename"}
    /\ UNCHANGED <<pc, buf, stat, tmp, ret, overwrote, orphans, silent, faults, reruns>>

WriteStep(p) ==
    \/ ReadLines(p) \/ StatTarget(p) \/ OpenTmp(p) \/ WriteLines(p) \/ CloseTmp(p)
    \/ CheckAgain(p) \/ RenameTmp(p) \/ RestoreOwner(p) \/ RestoreMode(p)

WriteNext == PutLink \/ \E p \in Procs : WriteStep(p) \/ Crash(p) \/ Rerun(p)

WriteSpec == WriteInit /\ [][WriteNext]_writeVars

-----------------------------------------------------------------------------
(* Whenever a process is killed and whatever call fails, the target is a file *)
(* that was written and closed before it took its place, and a process that   *)
(* returned has left no temporary file.                                       *)
TargetIsWhole ==
    target.whole /\ \A p \in Procs : pc[p] = "done" => tmp[p] = "none"

(* No line is lost without a reason.  What was in the file stays in it, and   *)
(* the line of an enforcer that returned true is there, unless a failure went *)
(* unnoticed (the file could not be read, or lines were lost on their way);   *)
(* and there is no lock, so of two processes the last rename wins.            *)
NoLineLost ==
    silent = 0 =>
        /\ "base" \in target.lines
        /\ \A p \in Procs : ret[p] = "ok" => p \in target.lines \/ overwrote \ {p} # {}

(* An enforcer that restores attributes and returned true at its first        *)
(* attempt has left owner and mode as they were, if it could stat the file    *)
(* and nobody else replaced it.                                               *)
AttributesKept ==
    (\A p \in overwrote : stat[p] /\ ret[p] = "ok") /\ Cardinality(overwrote) <= 1
        => target.owner = "orig" /\ target.mode = "orig"

(* A link is replaced by rename only when it appeared after the process's     *)
(* second check: one that is there at the check is refused.                   *)
LinkReplacedOnlyInWindow ==
    [][ target.kind = "link" /\ target'.kind = "file"
          => \E p \in window : pc[p] = "rename" /\ pc'[p] # "rename" ]_writeVars

(* Whatever fails and whoever is killed, the file is one that was written in    *)
(* full, no line is lost without a reason, and owner and mode are kept by the   *)
(* enforcers that say so.                                                       *)
WritesLoseNothing == TargetIsWhole /\ NoLineLost /\ AttributesKept
=============================================================================
