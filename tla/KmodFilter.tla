----------------------------- MODULE KmodFilter -----------------------------
(***************************************************************************)
(* The life of the sysmon kernel module: kmain_init builds it up and takes *)
(* it down again when a part fails, filter_hook redirects kernel functions *)
(* to wrappers of the module with ftrace, and kmain_exit removes the hooks *)
(* and waits until no watchdog counts a thread before the code is freed.   *)
(***************************************************************************)
EXTENDS Integers, FiniteSets

CONSTANTS
    NumFilters,     \* length of the list flts
    Callers,        \* kernel threads that call hooked functions
    Entries         \* files below the securityfs directory

ASSUME NumFiltersAssumption == NumFilters \in Nat \ {0}
ASSUME CallersAssumption == IsFiniteSet(Callers)

Filters == 1..NumFilters

VARIABLES
    phase,      \* how far kmain_init or kmain_exit is
    ctor,       \* ctor_init has run, so filters and fs entries are listed
    fs,         \* what securityfs_init created and securityfs_exit removes
    misc,       \* misc_register has succeeded
    opens,      \* the misc device is open (its fops own the module)
    hooked,     \* filters registered with ftrace
    error,      \* the filters whose flt->error is negative
    leftover,   \* filters that filter_remove_ftrace failed to unregister
    k,          \* position in flts of the loop in hand
    inuse,      \* the sum of filter_restore_sanity so far
    watchdog,   \* flt->watchdog
    tpc,        \* where each thread is
    tflt        \* the filter it is in

moduleVars == <<phase, ctor, fs, misc, opens, hooked, error, leftover, k, inuse>>
threadVars == <<watchdog, tpc, tflt>>
filterVars == <<moduleVars, threadVars>>

FilterInit ==
    /\ phase = "unloaded"
    /\ ctor = FALSE
    /\ fs = {}
    /\ misc = FALSE
    /\ opens = FALSE
    /\ hooked = {}
    /\ error = {}
    /\ leftover = {}
    /\ k = 1
    /\ inuse = 0
    /\ watchdog = [f \in Filters |-> 0]
    /\ tpc = [t \in Callers |-> "out"]
    /\ tflt = [t \in Callers |-> 1]

-----------------------------------------------------------------------------
(* kmain_init. *)
CtorInit ==
    /\ phase = "unloaded"
    /\ phase' = "fs"
    /\ ctor' = TRUE
    /\ UNCHANGED <<fs, misc, opens, hooked, error, leftover, k, inuse, threadVars>>

(* securityfs_init.  A null directory counts as success, an error or a file  *)
(* that cannot be made is unwound here, and dtor_exit follows.               *)
SecurityfsInit ==
    /\ phase = "fs"
    /\ \/ phase' = "misc" /\ fs' \in {{"dir"} \cup Entries, {}} /\ ctor' = ctor
       \/ phase' = "unloaded" /\ fs' = {} /\ ctor' = FALSE
    /\ UNCHANGED <<misc, opens, hooked, error, leftover, k, inuse, threadVars>>

(* Mutant: the error path forgets securityfs_exit. *)
MiscRegisterLeaking ==
    /\ phase = "misc"
    /\ \/ phase' = "hook" /\ misc' = TRUE /\ UNCHANGED ctor
       \/ phase' = "unloaded" /\ misc' = FALSE /\ ctor' = FALSE
    /\ k' = 1
    /\ UNCHANGED <<fs, opens, hooked, error, leftover, inuse, threadVars>>

MiscRegister ==
    /\ phase = "misc"
    /\ \/ phase' = "hook" /\ misc' = TRUE /\ UNCHANGED <<ctor, fs>>
       \/ phase' = "unloaded" /\ misc' = FALSE /\ ctor' = FALSE /\ fs' = {}
    /\ k' = 1
    /\ UNCHANGED <<opens, hooked, error, leftover, inuse, threadVars>>

(* One turn of filter_hook: filter_set_ftrace registers the hook or undoes   *)
(* what it did and leaves an error.  A filter that fails does not stop it.   *)
SetFtrace ==
    /\ phase = "hook"
    /\ k <= NumFilters
    /\ \/ hooked' = hooked \cup {k} /\ error' = error
       \/ hooked' = hooked /\ error' = error \cup {k}
    /\ k' = k + 1
    /\ UNCHANGED <<phase, ctor, fs, misc, opens, leftover, inuse, threadVars>>

HookDone ==
    /\ phase = "hook"
    /\ k > NumFilters
    /\ phase' = "live"
    /\ UNCHANGED <<ctor, fs, misc, opens, hooked, error, leftover, k, inuse, threadVars>>

(* kmod_open and kmod_release of the misc device; an open file pins the module. *)
OpenOrRelease ==
    /\ misc
    /\ phase \in {"hook", "live"}
    /\ opens' = ~opens
    /\ UNCHANGED <<phase, ctor, fs, misc, hooked, error, leftover, k, inuse, threadVars>>

-----------------------------------------------------------------------------
(* kmain_exit, which starts with filter_unhook. *)
BeginExit ==
    /\ phase = "live"
    /\ ~opens
    /\ phase' = "unhook"
    /\ k' = 1
    /\ UNCHANGED <<ctor, fs, misc, opens, hooked, error, leftover, inuse, threadVars>>

(* One turn of filter_unhook.  unregister_ftrace_function returns when no      *)
(* thread is between the redirection and the wrapper; an error is only logged, *)
(* and one of the ftrace_set_filter_ip after it leaves the hook removed.       *)
RemoveFtrace ==
    /\ phase = "unhook"
    /\ k <= NumFilters
    /\ IF k \in error
       THEN UNCHANGED <<hooked, leftover>>
       ELSE \/ /\ \A t \in Callers : ~(tpc[t] = "redirected" /\ tflt[t] = k)
               /\ hooked' = hooked \ {k}
               /\ UNCHANGED leftover
            \/ leftover' = leftover \cup {k} /\ UNCHANGED hooked
    /\ k' = k + 1
    /\ UNCHANGED <<phase, ctor, fs, misc, opens, error, inuse, threadVars>>

BeginSanity ==
    /\ phase = "unhook"
    /\ k > NumFilters
    /\ phase' = "sanity"
    /\ k' = 1
    /\ inuse' = 0
    /\ UNCHANGED <<ctor, fs, misc, opens, hooked, error, leftover, threadVars>>

(* filter_restore_sanity adds up the watchdogs, one atomic_read at a time. *)
AddWatchdog ==
    /\ phase = "sanity"
    /\ k <= NumFilters
    /\ inuse' = inuse + watchdog[k]
    /\ k' = k + 1
    /\ UNCHANGED <<phase, ctor, fs, misc, opens, hooked, error, leftover, threadVars>>

(* Mutant: inuse is not reset before the watchdogs are added up again. *)
SanityAgainWithoutReset ==
    /\ phase = "sanity"
    /\ k > NumFilters
    /\ inuse > 0
    /\ inuse < 3
    /\ k' = 1
    /\ UNCHANGED <<phase, ctor, fs, misc, opens, hooked, error, leftover, inuse, threadVars>>

(* The while loop of filter_sanity. *)
SanityAgain ==
    /\ phase = "sanity"
    /\ k > NumFilters
    /\ inuse > 0
    /\ k' = 1
    /\ inuse' = 0
    /\ UNCHANGED <<phase, ctor, fs, misc, opens, hooked, error, leftover, threadVars>>

(* Mutant: the watchdogs are added up once, whatever the sum. *)
SanityDoneAtOnce ==
    /\ phase = "sanity"
    /\ k > NumFilters
    /\ phase' = "grace"
    /\ UNCHANGED <<ctor, fs, misc, opens, hooked, error, leftover, k, inuse, threadVars>>

SanityDone ==
    /\ phase = "sanity"
    /\ k > NumFilters
    /\ inuse = 0
    /\ phase' = "grace"
    /\ UNCHANGED <<ctor, fs, misc, opens, hooked, error, leftover, k, inuse, threadVars>>

(* The last msleep_interruptible(10) of filter_sanity waits for no thread: it   *)
(* may be over, or cut short by a signal, while a thread that is past           *)
(* atomic_dec has not yet returned ("TODO: ensure once schedule").  Then the    *)
(* rest of kmain_exit runs and the kernel frees the module.                     *)
ExitTail ==
    /\ phase = "grace"
    /\ phase' = IF leftover = {} THEN "unloaded" ELSE "freed_hooked"
    /\ misc' = FALSE
    /\ fs' = {}
    /\ ctor' = FALSE
    /\ error' = {}
    /\ UNCHANGED <<opens, hooked, leftover, k, inuse, threadVars>>

-----------------------------------------------------------------------------
(* A thread calls a hooked function: filter_ftrace_thunk sends it to the wrapper. *)
Redirect(t) ==
    /\ tpc[t] = "out"
    /\ phase # "freed_hooked"
    /\ \E f \in hooked : tflt' = [tflt EXCEPT ![t] = f]
    /\ tpc' = [tpc EXCEPT ![t] = "redirected"]
    /\ UNCHANGED <<watchdog, moduleVars>>

EnterWrapper(t) ==
    /\ tpc[t] = "redirected"
    /\ watchdog' = [watchdog EXCEPT ![tflt[t]] = @ + 1]
    /\ tpc' = [tpc EXCEPT ![t] = "inside"]
    /\ UNCHANGED <<tflt, moduleVars>>

(* The wrapper calls the real function, through the filter or, when filters   *)
(* are disabled, directly; then it drops the watchdog.                        *)
LeaveWrapper(t) ==
    /\ tpc[t] = "inside"
    /\ watchdog' = [watchdog EXCEPT ![tflt[t]] = @ - 1]
    /\ tpc' = [tpc EXCEPT ![t] = "returning"]
    /\ UNCHANGED <<tflt, moduleVars>>

(* Also in code that was freed: what it then finds there is left open. *)
Return(t) ==
    /\ tpc[t] = "returning"
    /\ tpc' = [tpc EXCEPT ![t] = "out"]
    /\ UNCHANGED <<watchdog, tflt, moduleVars>>

ModuleStep ==
    \/ CtorInit \/ SecurityfsInit \/ MiscRegister \/ SetFtrace \/ HookDone
    \/ OpenOrRelease
    \/ BeginExit \/ RemoveFtrace \/ BeginSanity \/ AddWatchdog
    \/ SanityAgain \/ SanityDone \/ ExitTail

ThreadStep(t) == EnterWrapper(t) \/ LeaveWrapper(t) \/ Return(t)

FilterNext == ModuleStep \/ \E t \in Callers : Redirect(t) \/ ThreadStep(t)

FilterSpec == FilterInit /\ [][FilterNext]_filterVars

ExitStep ==
    RemoveFtrace \/ BeginSanity \/ AddWatchdog \/ SanityAgain \/ SanityDone \/ ExitTail

(* rmmod keeps running, and a hooked function returns at some point. *)
FilterFairness ==
    /\ WF_filterVars(ExitStep)
    /\ \A t \in Callers : WF_filterVars(ThreadStep(t))

-----------------------------------------------------------------------------
(* A thread runs freed code only on the few instructions from atomic_dec to    *)
(* the return: the hooks are gone before the watchdogs are added up, so a sum  *)
(* of zero, although it is read one filter at a time, cannot be out of date,   *)
(* and no thread is in a filter, in the real function below it or on the way   *)
(* to the wrapper.  (Hooks that could not be removed are excepted:             *)
(* filter_unhook only logs them.)                                              *)
OnlyReturnsInFreedCode ==
    phase \in {"grace", "unloaded", "fs", "misc"} /\ leftover = {} =>
        \A t \in Callers : tpc[t] \in {"out", "returning"}

(* A load that fails and an unload that succeeds leave nothing behind, and    *)
(* nothing is taken down while the device is open.                            *)
UnloadedLeavesNothing ==
    phase = "unloaded" => ~ctor /\ ~misc /\ ~opens /\ fs = {} /\ hooked = {}

(* rmmod returns once the calls in progress do, unless a hook got stuck. *)
UnloadCompletes ==
    phase = "unhook" ~> (phase = "unloaded" \/ leftover # {})
=============================================================================
