# A TLA+ model of loongshield

loongshield is a hardening tool for Linux hosts: one LuaJIT executable with
sub-commands, and a kernel module. This directory holds TLA+ specifications of
its parts, TLC configurations that check them on small instances, and proofs
that TLAPS checks for every instance.

    tlc -workers 2 -config <run>.cfg <module>       # the runs of PROJECT.json
    tlapm <name>Proofs.tla                          # the proofs, eight modules

`PROJECT.json` lists components, runs, the source lines behind every definition
(`map`), a mutant for every checked property, findings, hazards and theorems.
Paths below are relative to `src/src/`; `S/` is `daemon/modules/seharden/`.

## The system

| Part | Source | Module |
|---|---|---|
| seharden engine: audit, guards, enforcement, verification, exit code | `S/engine.lua`, `S/rule_executor.lua` | `SehardenEngine`, `HardeningRun` |
| profiles, levels and rule selection | `S/profile.lua` | `ProfileLevels` |
| line-editing enforcers and key/value probes | `S/enforcers/file.lua`, `S/shared/key_value_file.lua` | `ConfigFile` |
| replacement of files | `S/enforcers/fsutil.lua` | `AtomicWrite` |
| PAM enforcer and probes | `S/enforcers/pam.lua`, `S/pam/` | `PamStack` |
| kernel parameters | `S/enforcers/sysctl.lua`, `S/probes/sysctl.lua` | `SysctlEnforcer` |
| kernel modules | `S/enforcers/kmod.lua`, `S/probes/kmod.lua` | `KmodEnforcer` |
| mounts | `S/enforcers/mounts.lua`, `S/probes/mounts.lua` | `MountsEnforcer` |
| units | `S/enforcers/services.lua`, `S/probes/services.lua` | `ServicesEnforcer` |
| `lua-lsm`: kernel policies through securityfs | `daemon/modules/lua_lsm/` | `LuaLsm` |
| `rpm --verify` | `daemon/modules/rpm/` | `RpmVerify` |
| HTTP on the event loop | `daemon/modules/net/uvcurl.lua` | `UvCurl` |
| kernel module: ftrace filters, securityfs, load and unload | `kmod/` | `KmodFilter` |
| kernel module: reader-writer lock | `kmod/rwlock.h` | `RwLock` |
| start of the program | `daemon/main.c`, `lualibs.c`, `ramfs.c` | `Startup` |
| stand-alone interpreter | `daemon/luajit.c` | `LuaJit` |
| lists | `lib/queue.h` | `Queue` |
| trees | `lib/tree.h` | `Tree` |
| bindings that own counted objects | `daemon/lua_kmod.c`, `lua_mount.c`, `lua_rpm.c`, `lua_dbus.c`, `lua_systemd.c` | `Handles`, `KmodBinding`, `MountBinding`, `RpmBinding`, `DBusBinding`, `SystemdBinding` |
| arguments of D-Bus messages | `daemon/lua_dbus.c`, `lua_systemd.c` | `Wire` |
| signing of kernel modules | `daemon/lua_kmod.c` | `KmodSign` |
| archives and their callbacks | `daemon/lua_archive.c` | `ArchiveBinding` |
| capability sets | `daemon/lua_capability.c` | `CapabilityBinding` |
| descriptors and audit rules | `daemon/lua_audit.c`, `lua_fanotify.c` | `Descriptors` |
| readers of files and attributes | `daemon/lua_fs.c`, `lua_xattr.c` | `FileReads` |

The parts without a module are listed, with the reason, at the end.

How they interact. `seharden` loads a profile (`ProfileLevels`), selects the
rules of a level and hands them to the engine (`SehardenEngine`). For each rule
the engine calls probes, and in reinforce mode enforcers, by name. It sees only
what they return: the engine model takes a probe as a read of a setting and an
enforcer as a write that may fail, and the modules from `ConfigFile` to
`ServicesEnforcer` say when an enforcer that returned true has really made its
probe pass. All enforcers that edit files end in the protocol of `AtomicWrite`;
their own modules therefore replace a file in one step. `RpmVerify` extends
`UvCurl`, because the coroutine that verifies is suspended in a fetch and
resumed by it. The kernel module shares nothing with the tool but the file
system. Every command starts through `Startup`; the sources also build the
interpreter of `LuaJit`. The Lua modules reach libraries and the kernel through
the bindings. A script may call a binding in any order, and Lua's collector may
run at any allocation, so that the binding modules leave the order of calls open
and do not tie it to one command.

## Modules: state and actions

**SehardenEngine.** Variables: the mode, the host's settings `sys`, the cached
`sshd -T` dump, the position in rule and task lists, the report, the counters
and the exit code. Actions follow `engine.run` and `rule_executor`:
`ValidateRule`, one action per probe, guard and enforcer call, the return of
`enforce` (where a live run drops the dump), `Finish`; `EvaluatorRaises` is the
evaluator's unprotected error and `Drift` another program that changes a
setting. `HardeningRun` is the abstract promise: verdicts come in order, are
final, fit the mode, and alone determine the exit code. The engine is shown to
implement it.

**ProfileLevels.** Validation, the choice of the target level, the work list of
`build_active_levels` (one action per turn), and the selection of rules and
review items. Whether a single rule is well formed is one flag.

**ConfigFile.** The lines of one file, abstracted to kind, key, value,
separator and form (plain, quoted, with trailing comment): what the Lua patterns
of the two sides tell apart. One action runs any of the six enforcers; the
operators below it are the enforcers' loops and the probes' parser.

**AtomicWrite.** Several processes run the replacement call by call: check for
a link, read, stat, open, write, close, second check, rename, chown, chmod. Any
call may fail, a process may be killed and run again, a link may appear.

**PamStack.** One service file as a sequence of entries, the enforcer
`ensure_entry`, and the probes as operators on the file and `faillock.conf`.

**SysctlEnforcer, MountsEnforcer.** Live state and configuration, changed in
two steps of which either may fail; other editors; a reboot at any moment, which
reads the configuration back. **KmodEnforcer**: the loaded module, `modprobe.d`,
and the two spellings of a name. **ServicesEnforcer**: unit file state and
activity under the enforcers, other units and reboots; the probe is an operator
on the state and on which of D-Bus and systemctl answer. In all four, a *claim*
variable records what an enforcer returned true for and nobody else has touched
since. It does not influence any step.

**LuaLsm.** Processes that load and unload policies: capability check, securityfs
probing, validation, the read that is sent, the write and the close. A source
that fits stdio's buffer reaches the kernel in the close; of a longer one whole
blocks go in the write and the rest in the close, as two requests. The policy file
may be edited between any two steps.

**UvCurl, RpmVerify.** The request table, timer and poll handles; coroutines
that yield in `fetch` and are resumed inside a callback; on top of it the
command from its arguments to the exit code, one action per file that is hashed.

**KmodFilter.** `kmain_init` with every failure path, threads that enter and
leave wrappers, `kmain_exit` with the loop that adds up watchdogs and the sleep
after it, which waits for nobody. **RwLock**:
every access to the lock and to its state field is a step of its own.

**Startup.** `main` opens the libraries one by one with the collector stopped,
loads the archive that is linked into the program, calls its `init` and turns
the result into the status. Each step may fail, and each failure has its own way
out. **LuaJit**: `collectargs` and `runargs` pass over the command line, and
chunks run under `docall`; a signal may arrive at any step, sets a hook, and the
hook raises in the chunk that is running then.

**Queue.** Memory is a set of cells, each holding the name of an element, and a
`prev` field holds the name of a cell, as the macros' `T **` does. Every macro
is its assignments to cells. The reference is `lists`, a function from heads to
sequences, which each call changes as its name says. A traversal keeps its place
between two turns, and its body may remove or move elements there as the macro
allows it. **Tree**: the rank-balanced tree with rotations
and the colour bits in the up pointer, and the splay tree with the node on the
stack; both are compared with the set of their keys. A node that comes in has the
augmented data it had when it left, or none.

**Handles.** What the five counting bindings share: a heap of objects with
counts and references between them, userdata that hold some of them, and the
collector, which runs `__gc` on userdata in any order once nothing reaches them.
The modules that extend it have one action per function of the script that
creates, shares, replaces or gives up a reference. Two history variables record
where the code loses count: `dangling` has the objects of which a reference was
given up that a handle still has (an `unref` by hand, a `free` of what others
share, a borrowed message), `leaked` those of which a reference is never given up.
What a library does with an object that was freed is not followed. A failed
operation leaves a userdata with a null pointer, which the collector meets as well.
`DBusBinding` adds the registry of Lua, whose numbers are used again, and a stack
of callbacks, because a function may block for another call, set another function,
or raise an error through libdbus; `SystemdBinding` the default bus, which
libsystemd hands out to every caller.

**Wire.** Integers of `Width` bits and half of that stand for 32 and 16 bits; a
value is cut off or refused as the C conversion does it. What C does not see of a
Lua value, its fraction or what follows a NUL, is a field `rest` that is dropped. **Descriptors**: a
process's table of descriptor numbers, in which other code opens and closes too.
**ArchiveBinding**: addresses of libarchive objects, which are used again, and
the weak table that finds a userdata by such an address and forgets it before
`__gc` runs. A close or a free that fails frees the archive and leaves the pointer;
`doubted` records such addresses, and the script and the collector go on from there.
**CapabilityBinding**: `cap:flag` with its loop over strings and tables, one
argument a step, each chosen as the loop comes to it. **KmodSign**: files as
blocks; `sign` digests the module, copies it, appends signature, trailer and
magic, and renames; each write may fail, noticed or not, the process may die and
an update may install another module.
**FileReads**: each reader asks for a size first and reads later, while the file
changes in between.

## What the runs show

| Run | Shows | Distinct states |
|---|---|---|
| `engine` | counters agree with the report; exit 0 of an undisturbed run means that every PASS and FIXED rule holds; guards precede enforcers; verdicts use values read after the last enforcer; the run refines `HardeningRun` | 17,259 |
| `kernel` | unlock releases the mode that was taken; when the module is freed a thread is at most on the way out of a wrapper, past its watchdog; load failures leave nothing behind, unload and unlock complete | 59,404 |
| `commands` | active levels are the inheritance closure for every small profile, cycles included, and rules are selected in order; `lua-lsm` exit code 1 means that nothing changed and 0 that all was sent; a validated load sends what it validated unless the file was edited, and is rejected for one of five causes only; the statuses of interpreter and program are true, and no interrupt is lost or answered twice; selection and interpreter end | 2,157,318 |
| `files` | edits are idempotent, take effect for the probe and leave other keys alone; a replaced file is whole at every moment, whoever is killed; PAM steps, in any order, make their rules pass and break no other; signing in place replaces the module only by a complete signed file of what it read, and `sigraw` splits its output again, with the exceptions below; readers return what was there | 1,059,756 |
| `rpm_verify` | exit 0 means every file listed was hashed and equal, exit 2 a mismatch; files are counted once; a transfer resumes its own coroutine; the command ends if peers answer or libcurl's deadline stays armed | 193,658 |
| `host` | what the four enforcers returned true for shows in their probes across reboots until somebody else changes it; a second run changes nothing; a unit reported as unused is neither enabled nor active | 13,316 |
| `native` | lists spell the sequences that the calls describe and traversals miss nothing; trees answer as sets, stay balanced and in order; bindings count each holder once; notifications, callbacks and descriptors reach their own object although numbers and addresses are used again; messages read back as C saw what was appended; `cap:flag` changes what it was asked to and nothing else; with the exceptions below | 608,169 |
| `engine_guard_doc` | finding: a guard probe that returns nil and an error does not skip enforcement, which the profile reference says it does | violation |
| `lua_lsm_exit_doc` | finding: a request that the kernel rejects in `close` ends with exit code 0 | violation |
| `config_file_duplicates_doc` | finding: a key given with a tab is not recognised when the separator is a blank, and is added a second time | violation |
| `kmod_unload_doc` | finding: `kmod.unload` returns true with the module loaded when the rule spells it with a hyphen | violation |
| `capability_table_doc` | finding: `cap:flag` with a table of names never goes past the first name | violation |

Exceptions are part of the properties and are stated with them: `SuccessLasts`,
for instance, excludes a kernel parameter that a later file assigns again, an
fstab entry that cancels the option behind it, and an install command of another
program that is read first. `SigningIsSafe` says nothing of a call in which a write
or `CMS_final` failed with 0, which the comparisons with `< 0` miss, nor of a call
that names the module's own path as destination in another string, which the code
takes for another file and truncates before it copies; and `module:verify` accepts
no output of `sign`, as a comment in the code says, so that nothing is claimed of it.
`OnlyReturnsInFreedCode` leaves a thread between the drop of its watchdog and its
return, for which `filter_sanity` only sleeps, and a hook that could not be removed.
`WritesLoseNothing` excepts the failures that `fsutil.lua` and its callers do not
look at, and does not say that another program's edit survives a replacement that
was prepared before it. `EditsReadBack` is about sections without duplicates of the
key. `StatusIsTrue` has the cut of the status to eight bits in it.
`NotInUseMeansStopped` allows a running unit whose file is gone, which a unit test
asks for, and says less where systemctl does not work.

The exceptions of the bindings are the places where the C code loses track, and the
runs show that there are no others. `CountsAreHolders` lists its own, object by
object: handles that a script may `unref` or `free` under other handles, entries
taken out of a table under a loop, borrowed messages, the table that a failed
`get_table` leaves behind and the second reference of one that succeeds, buses that
are closed without being given up, pending calls whose function raises an error, and
the pointers of configuration iterators and package headers. `BusStaysOpen` is about
buses other than the default one, which all its handles close.
`NotifyCallsItsFunction` ends where a function has replaced itself on the call it
runs for, because the number is read again from freed memory
(`lua_dbus.c:333`), and where the coroutine that set it was collected.
`CallbacksFindTheirArchive` excepts the addresses that a failed close or free left in
a userdata (`lua_archive.c:662`, `678`). `FlagsAreAsAsked` says nothing of names
beyond the size of the array, of a name that is no set (it counts as `effective`)
and of whole tables, which are the finding of `capability_table_doc`.

Two observations have no run. After a kill between rename and chown, a second
run that finds its line present returns true and leaves the attributes as they
are (`AttributesKept` therefore speaks of a first attempt). And the default
`lfs_dir` of `kmod.lua:19` hands on one of the two values of `lfs.dir`; what the
loop then does is decided in LuaFileSystem, which is not part of the repository.

### Bounds

- `engine`: three rules that share settings, both kinds of probe, one rule with
  two guards and one without enforcers; one change from outside. A stale dump
  needs two rules that read it and an enforcer between them.
- `kernel`: three threads (two readers and a writer are what the state field can
  confuse), two filters, because the watchdogs are added up one by one.
- `commands`: up to three levels and five parent lists, so that self-loops, two-
  and three-cycles, duplicate and unknown ids occur; two processes, two names, one
  edit (`MaxEdits`) between the two reads; three arguments and interrupts
  together (`MaxEvents`), so that an option, its value and a script occur, and one
  option with two interrupts; one interactive line (`MaxLines`); two libraries.
- `files`: configuration files of up to three lines (`MaxInitial`) over all kinds
  of line, which hold a header, an entry and a duplicate or a second header. PAM
  files of up to two lines (`MaxPamLines`) and two whole ones, one as it is shipped
  and one with repeated entries. Any sequence of steps on each. Two processes that
  replace a file, one of them preserving attributes; two failing calls, one
  rerun, one link (`MaxFaults`, `MaxReruns`, `MaxLinks`). Three attributes and a
  margin of one, so that a list can outgrow its buffer; two signatures in a row
  and one update, so that a signed module is signed again.
- `rpm_verify`: two files, two coroutines, two polls per transfer (`Steps`).
- `host`: three files around the enforcer's own one, two fstab entries.
- `native`: two heads and three elements, enough for an element with neighbours
  on both sides and a move to another list; seven keys in the rank-balanced tree,
  a full tree of three levels, and five in the splay tree, where zig-zig and
  zig-zag meet on both sides. Four objects and three userdata: a loop over
  packages needs four objects at once; mounts and D-Bus do without the `Fourth`.
  D-Bus has two userdata besides, enough for any of its operations. One behaviour
  gives up a reference that a handle still has once (`FirstLapse`). Three userdata
  compete for three descriptor numbers; one reader and two writers for two
  addresses; two each of buffers, functions and registry numbers, so that each is
  used again. Callbacks nest twice (`MaxNested`), one address is left behind
  (`MaxFailures`), the array of `cap:flag` takes two names and a call has one more.
  `LeakBound` ends the growth of a count that the code never lowers.

`kernel`, `commands`, `files`, `host` and `native` hold components that share no
state. A variable `focus` picks the one that moves, so that state spaces add up and
do not multiply. `native` uses symmetry over the other three objects, which
no definition tells apart; the run checks safety only.

`CHECK_DEADLOCK FALSE` stands in the runs whose system stops by design: a
command that has exited, a module that failed to load for good, a file on which
all bounded faults are spent, a script that has used up its userdata. `host` is
checked for deadlock.

### Fairness

- Level selection and the rpm command are single threads without locks, so that
  weak fairness of their next step says only that they are scheduled. What comes
  from outside is not fair: `CommandEnds` has what it needs of it as its premise,
  either that every polled socket becomes ready at last or that libcurl keeps a
  timer armed while a transfer runs, for `curl_perform` stops the timer at each
  event. Without both, `uv.run` waits for ever.
- Unlock: a thread that is inside the functions of `rwlock.h` goes on
  (`LockFairness`). Nothing is assumed of threads that want the lock.
- Unload: `kmain_exit` goes on, and so does every thread inside a wrapper
  (`FilterFairness`); a hooked function that blocks for ever would keep unload
  waiting, as it does in the code.
- The interpreter is one thread and is scheduled; the chunks it runs are taken to
  return and its input to end (`MaxLines`). Signals are not fair.
- The engine, `lua-lsm`, start-up, files, the four host enforcers, lists, trees and
  bindings: safety only, no fairness.

## What is proved

Each theorem holds for every value of the constants.

| Theorem | Assumptions | Argument |
|---|---|---|
| `SehardenEngineProofs!TypeCorrect` | the rules are a sequence of rules | type invariant with the length of the report at each step; it is inductive |
| `SummaryCorrect` | the same | every step either leaves the report alone or judges the rule in hand (`StepKinds`); judging adds one index to the set of judged rules and one to its counter |
| `ExitZeroCorrect` | no rule wants a value that another rule's enforcer overwrites with a different one (`NoConflictAssumption`) | `CleanInv` |
| `GuardsCorrect`, `FreshCorrect` | the rules are a sequence of rules | `GuardInv`, `FreshInv` |
| `RefinementCorrect` | the same | every step is silent, judges, raises or finishes (`RefinedKinds`); see below |
| `CommandsProofs!TypeCorrect`, `ClosureCorrect`, `SelectionCorrect` | `Nil` is not a level | `WalkInv`, `SelectInv` |
| `CommandsProofs!RequestsCorrect`, `SendingCorrect` | the header's words are names | `LsmInv` |
| `CommandsProofs!StartCorrect` | none | `StartInv` |
| `HostProofs!LastingCorrect`, `UnusedCorrect`, `RerunCorrect` | the initial files are sequences of lines and contain the enforcer's own file; an `install` line has a command | `HostInv` |
| `RpmVerifyProofs!TransfersCorrect` | `None` is not a coroutine | `LoopInv` |
| `RpmVerifyProofs!ReportCorrect` | finitely many files; the words for a failed digest are not digests; documents are of their type | `VerifyInv` |
| `FilesProofs!WriteInvariant`, `WritesCorrect`, `ReplacementCorrect` | the preserving processes are processes | `WriteInv` |
| `FilesProofs!ReadsCorrect` | versions of a file are sequences of bytes, a chunk is not empty | `ReadInv` |
| `SigningProofs!SigningCorrect` | a signature has a block, modules are sequences | `SignInv` |
| `KernelProofs!LockInvariant`, `UnlockCorrect` | none | `LockInv` |
| `KernelProofs!FilterInvariant`, `FreedCodeCorrect`, `UnloadCorrect` | at least one filter, finitely many threads | `FilterInv` |
| `BindingsProofs!DescriptorsCorrect` | -1 is not a descriptor number | `FdInv` |
| `BindingsProofs!ArchivesCorrect` | no userdata is called nil | `ArchiveInv` |
| `BindingsProofs!CapabilitiesCorrect` | `MAX_CAPABILITIES` is positive | `CapInv` |

The assumptions are the `ASSUME`s of the modules, which TLC evaluates in the runs.
`StartCorrect` states the part of `StatusIsTrue` that is about `Startup`.

*`CleanInv`.* Exit code 0 is decided by a counter, from verdicts that were reached
one by one, on values partly read from a cached dump. The property alone is not
inductive: it says nothing before the end. The strengthening says that, as long
as no rule has failed and nothing else changed the host, (1) what the current
audit has read and matched is true of the host, (2) a kept dump equals the host,
except between an enforcer's write and the end of `enforce`, and (3) every PASS
and FIXED verdict holds. (2) is what an enforcer breaks for a while, and why the
exception ends where the code drops the dump; a rule that ends in ENFORCE-ERROR
leaves the dump stale, but is itself a failure. (3) survives later enforcers by
the assumption on conflicts, which profiles must meet and the code does not
check.

*`GuardInv`.* While the guards of a rule run, the log has one entry for each that has
run, none of which asked to skip; with the enforcers it has one for every guard.

*`FreshInv`.* The history variable `since` has the values a setting had since the
last enforcer ran. A kept dump has only such values, except while a rule is being
enforced, and so has what the current audit has matched. Unlike `CleanInv` this
holds with other programs changing the host, and with rules that conflict.

*Refinement.* The verdicts of `HardeningRun` are the part of the report before the
rule in hand: while a rule is enforced its item is already there as FAIL, and is
overwritten later. Silent steps touch only that item, so that the prefix stays
(`VerdictsQuiet`); judging moves the index on and appends the verdict
(`VerdictsGrow`). That the verdict fits the mode needs `ModeInv`: only a reinforce
run reaches guards and enforcers, and only a live one verifies. The engine
computes the exit code from two counters and never looks at the report again;
`SummaryMatchesReport` and the fact that a finite set has cardinality zero only if
it is empty make that the exit code of the abstract run (`GoodVerdicts`).

*`LockInv`.* `__rwlock_unlock` is not told how its caller took the lock; it reads
that from a field which all holders share. The invariant ties the field to the
place of each thread: a writer is alone in the lock; a thread that is past its
store and before its load finds its own mode in the field (other readers can
only store the same); and a copy that was loaded is never `LS_free`, because only
a writer clears the field, before it lets anybody else in.

*`FilterInv`.* That no thread is in freed code says nothing until the code is
freed. The invariant follows the three loops. Each watchdog equals the number of
threads inside its wrapper, and only a hooked filter has threads on the way to
one. While hooks are removed, a filter is hooked only if its turn has not come or
its removal failed (`leftover`). While the watchdogs are added up one after the
other, a sum of zero so far means that threads are inside later filters only; it
cannot become wrong behind the loop, because no hook is left to send anybody in.
Threads that have dropped their watchdog but not yet returned are not waited for:
the sleep that follows may be over before they are, and the invariant and the
property say that these are the only ones left. With a hook that could not be
removed none of this holds, and the property excepts that case, which
`filter_unhook` only logs.

*`WriteInv`.* The temporary file is complete from its close to its rename, which
makes the target whole. As long as no failure went unnoticed, each process carries
the original lines and its own to the rename. Owner and mode are followed as long
as at most one process has replaced the file; the invariant has the cases between
rename, chown and chmod. A link in the target's place means that every process at
its rename has passed its check before the link came.

*`SignInv`.* At each step of `kmod_sign_file` the output is what was written so far:
the blocks copied, the module, the module and its signature, then the length of that
signature, then the magic; `SplitsAsJoined` shows that `do_kmod_map`, which reads
these from the end, finds the parts again, also in a module that was signed before.
What was digested and what was copied are each the present module as long as nobody
replaced it, and with `save_sig` the output is the signature alone. Neither is claimed once a failure went unnoticed (`lost`) or where the
module's own path is the destination.

*`FdInv`.* The two sides agree: a number in a userdata is the number of its own
file, and a file opened for a userdata is the one its number names; the same for
rules and blocks. One side alone is not inductive, because closing resets the
userdata and frees the number in one call, and the number may be given to other
code at once.

*`ArchiveInv`.* libarchive calls back with an address, and the binding finds the
userdata in a weak table. The invariant speaks of the userdata whose address no
failure has left behind (`Safe`): the archive at that address was made for them
(`Owned`, and so no two share one); the table finds each of them that a callback can
still come for, the ones in `__gc` included, because the binding enters them again
first (`Registered`); and a string that libarchive reads in place is the one its
userdata keeps (`Kept`). It has to say something of the other addresses too: a
callback for one of those writes into the userdata the table has there, and `Weakly`
says that this one has no archive elsewhere. An abort of libarchive (`dead`) comes
only of an address that is not safe.

*`CapInv`.* What the array holds was named; as long as no table was met, all that was
named is in it (`Looped`); and a set that is named selects itself alone
(`SelectsNamed`), although the flag is a word of bits that other names may add up to.

*`ReadInv`.* What was seen during the call contains the present state at every step,
the text read so far is the beginning of the version that was opened unless somebody
wrote into it in place, and a buffer exists only between the size and the read.

*`WalkInv`, `SelectInv`.* The active set and the work list together contain the
target; the parents of an active level are active or on the list; and everything on
either belongs to every closed set that contains the target. When the list is empty
the active set is therefore closed and least. Then the numbers of the rules selected
so far increase and are those of the applicable rules before the index. That the
loop ends on cycles is model-checked (`SelectionEnds`).

*`LsmInv`.* For each process: nothing has been asked of the kernel before the write,
at most the first part of a long source before the close, and what it holds between
validation and write is what it validated as long as nobody has edited the file. A load loses only if another process has loaded
the name since `is_loaded` was asked: the invariant says so from that question on
(`CauseOf`), because the name may be taken at any step before the write.

*`HostInv`.* One invariant for each enforcer says what a claim means for the files:
after `persist_sysctl` every plain assignment in the own file has the wanted value
and there is one (`Saved`); after `add_fstab_options` every entry of the path has
the option (`HasOption`); the line of `kmod.lua` is in some file under either
spelling, or in the own one (`Present`). The live half follows the first step of
the enforcer to its second, and reboots, which read the files back. What the probe
reads is then derived from the files (the last assignment, the first install
command), where the exceptions of `SuccessLasts` come in.

*`LoopInv`.* libcurl's answer reaches the coroutine through the request table, the
timer and the poll handles. The invariant ties them together for each coroutine: a
finished transfer is read in the callback in which it finished, its request is still
in the table, and a running one has a timer or a poll handle that keeps `uv.run`
going until libcurl gives it neither.

*`VerifyInv`.* Each heading of the summary is zero exactly if no visited file comes
under it, the files visited and left are those listed, the sum of the headings is
the total, and the checksums compared with are those of the body that was fetched.
Files are visited in any order, and a heading alone would say nothing of which file
it counted: the invariant keeps the digest of each.

Only model-checked, on the instances above:

- liveness (`KernelProgress`, `CommandsEnd`, `CommandEnds`), which
  needs fairness and so ENABLED, out of the prover's reach;
- trees, the interpreter's command line (`InterruptsAreAnswered` and its part of
  `StatusIsTrue`) and the counts of the bindings with `NotifyCallsItsFunction`:
  their modules have recursive operators, which the prover does not take;
- `RulesAreFixed` of PAM, the edits of `ConfigFile` and messages that read back:
  folds over lines and arguments, whose value for every input needs an induction
  over data;
- lists (`ListsAreSequences`, `TraversalsAgree`), which are within the prover's
  reach; the case for each macro is not worked out.

## What is not modelled

The reasons by component are in PROJECT.json; in short:

- *Pure functions:* the evaluator and its comparators, option parsing, the report's
  JSON and text, SBOM and profile syntax beyond what control depends on. A model
  would be their own text again.
- *Enforcers whose effect is outside the tree:* packages, crypto policies, log
  files, sudoers and `visudo`, loaded audit rules, accounts, permissions. Each is a
  loop of external commands or a rewrite through `fsutil.lua`, which is modelled; a
  failure ends the step, which the engine models. The ssh enforcers edit as
  `ConfigFile` does; the engine models the cache of the effective settings.
- *Read-only probes* of the shape of the modelled ones, and `lua-lsm`'s readiness
  report and manifest, which change nothing.
- *Bindings:* getters and setters that pass one value to a library; insert, remove
  and probe of `lua_kmod.c`, chmod and chown of `lua_fs.c` and the changes of
  attributes in `lua_xattr.c`, each one call of the system; the bounding,
  ambient and IAB calls and `setgroups` of `lua_capability.c`; `lua_magic.c`,
  whose table of methods names functions that the file does not define; `luauxlib.c`, which turns names
  into flag words.
- *Kernel module:* `flt_kernel.c` is a table entry; the 10 ms sleeps in
  `filter_sanity` are steps of any length.
- *Debug and build code* (`QUEUE_MACRO_DEBUG`, stack traces, the compiler of the
  Lua sources) and third-party code (lyaml).
- *External,* modelled from how the code uses it: the kernel, systemd, modprobe,
  mount, libkmod, libmount, librpm, libdbus, libsystemd, libarchive, libcap,
  libaudit, OpenSSL, libcurl, libuv, Lua's collector and registry, the rpm
  database, and whoever else administers the host.
