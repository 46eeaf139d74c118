----------------------------- MODULE KmodEnforcer -----------------------------
(* enforcers/kmod.lua and probes/kmod.lua for one kernel module.  The kernel     *)
(* spells its name with underscores ("under"); rules and modprobe.d files may    *)
(* spell it with hyphens ("dash"), and the probe takes both for the same.        *)
EXTENDS Naturals, Sequences, Functions

CONSTANT InitialModprobe    \* contents that modprobe.d may have

OwnFile == 2        \* the position of loongshield-disable-<name>.conf among the files
Line(verb, name, cmd) == [verb |-> verb, name |-> name, cmd |-> cmd]

ASSUME ModprobeAssumption ==
    \A m \in InitialModprobe :
        /\ m \in Seq(Seq([verb : {"blacklist", "install"}, name : {"dash", "under"},
                          cmd : {"none", "/bin/true", "/bin/false", "other"}]))
        /\ \A f \in Range(m) : \A l \in Range(f) : l.verb = "install" => l.cmd # "none"
        /\ Len(m) >= OwnFile

VARIABLES
    param,      \* how the rule spells the name
    kind,       \* "absent", "builtin" or "loadable"
    loaded,
    modprobe,   \* the files of modprobe.d, in the order they are read
    kmClaim,    \* the operations that returned true and hold since
    unread      \* history: a read failed that would have shown a line

kmVars == <<param, kind, loaded, modprobe, kmClaim, unread>>

KmodInit ==
    /\ param \in {"dash", "under"}
    /\ kind \in {"absent", "builtin", "loadable"}
    /\ loaded \in BOOLEAN /\ (loaded => kind = "loadable")
    /\ modprobe \in InitialModprobe
    /\ kmClaim = {} /\ unread = FALSE

-----------------------------------------------------------------------------
(* The probe: names are compared with hyphens folded; of the install commands   *)
(* the first one counts.                                                        *)
IsBlacklisted == \E f \in Range(modprobe) : \E l \in Range(f) : l.verb = "blacklist"

(* No line of a file before the n-th is an install line. *)
NoInstallBefore(lines, n) == \A k \in 1..(n - 1) : lines[k].verb # "install"

(* get_install_command_in_context, set-valued: empty for nil. *)
InstallCommand ==
    {c \in {"/bin/true", "/bin/false", "other"} : \E i \in 1..Len(modprobe) :
        /\ \E j \in 1..Len(modprobe[i]) :
              /\ modprobe[i][j].verb = "install" /\ modprobe[i][j].cmd = c
              /\ NoInstallBefore(modprobe[i], j)
        /\ \A k \in 1..(i - 1) : NoInstallBefore(modprobe[k], Len(modprobe[k]) + 1)}

Blocked == IsBlacklisted /\ InstallCommand \cap {"/bin/true", "/bin/false"} # {}

(* get_disable_state *)
Disabled == kind = "absent" \/ (kind # "builtin" /\ ~loaded /\ Blocked)

-----------------------------------------------------------------------------
(* is_module_loaded: the rule's spelling is compared with the kernel's. *)
SeenLoaded == loaded /\ param = "under"

(* unload: nothing to do when the module is not seen among the loaded ones; when *)
(* it is, or /proc/modules cannot be read, modprobe -r, which may fail.          *)
Unload ==
    /\ \/ ~SeenLoaded /\ kmClaim' = kmClaim \cup {"unload"} /\ UNCHANGED loaded
       \/ loaded' = FALSE /\ kmClaim' = kmClaim \cup {"unload"}
       \/ UNCHANGED <<loaded, kmClaim>>
    /\ UNCHANGED <<param, kind, modprobe, unread>>

(* line_exists_in_modprobe_d: the name is used as a Lua pattern, in which a     *)
(* hyphen is an operator and does not match itself.                             *)
LineExists(line) == param = "under" /\ \E f \in Range(modprobe) : line \in Range(f)

(* Mutant: append_unique_line does not look for the line. *)
AddLineAgain(line, op) ==
    /\ modprobe' = [modprobe EXCEPT ![OwnFile] = Append(@, line)]
    /\ kmClaim' = kmClaim \cup {op}
    /\ UNCHANGED <<param, kind, loaded, unread>>

(* blacklist and set_install_command: the line is there, or is appended by      *)
(* append_unique_line; listing the directory may raise and the write may fail,  *)
(* and rule_executor.lua takes either for a failed step.  A file that cannot be *)
(* read holds no lines: another one is passed over, and the own one is written  *)
(* anew with this line alone.                                                   *)
AddLine(line, op) ==
    /\ \/ /\ LineExists(line) \/ line \in Range(modprobe[OwnFile])
          /\ kmClaim' = kmClaim \cup {op} /\ UNCHANGED <<modprobe, unread>>
       \/ /\ \E read \in {modprobe[OwnFile], <<>>} :
                /\ line \notin Range(read)
                /\ modprobe' = [modprobe EXCEPT ![OwnFile] = Append(read, line)]
                /\ unread' = (unread \/ LineExists(line) \/ read # modprobe[OwnFile])
          /\ kmClaim' = kmClaim \cup {op}
       \/ UNCHANGED <<modprobe, kmClaim, unread>>
    /\ UNCHANGED <<param, kind, loaded>>

Blacklist == AddLine(Line("blacklist", param, "none"), "blacklist")
SetInstallCommand == AddLine(Line("install", param, "/bin/true"), "install")

(* Somebody loads the module, which modprobe does not do for one that is        *)
(* blocked, or edits modprobe.d (external).                                     *)
KmodOutside ==
    /\ \/ /\ kind = "loadable" /\ ~Blocked /\ loaded' = TRUE
          /\ kmClaim' = kmClaim \ {"unload"} /\ UNCHANGED modprobe
       \/ modprobe' \in InitialModprobe /\ kmClaim' = kmClaim \cap {"unload"} /\ UNCHANGED loaded
    /\ UNCHANGED <<param, kind, unread>>

KmodReboot ==
    /\ loaded' \in IF kind = "loadable" /\ ~Blocked THEN BOOLEAN ELSE {FALSE}
    /\ kmClaim' = IF Blocked /\ {"blacklist", "install"} \subseteq kmClaim
                  THEN kmClaim \cup {"unload"} ELSE kmClaim \ {"unload"}
    /\ UNCHANGED <<param, kind, modprobe, unread>>

KmodNext == Unload \/ Blacklist \/ SetInstallCommand \/ KmodOutside \/ KmodReboot

-----------------------------------------------------------------------------
Foreign == "other" \in InstallCommand

(* The three operations together make the probe say "disabled", and after a     *)
(* reboot the two that write files do, except for a module that is built in,    *)
(* where another install command is read first, where the rule spells the name  *)
(* with a hyphen and unload does not see the module, or where a file could not  *)
(* be read and its lines were taken for missing.                                *)
KmodLasts ==
    {"unload", "blacklist", "install"} \subseteq kmClaim =>
        Disabled \/ kind = "builtin" \/ Foreign \/ (param = "dash" /\ loaded) \/ unread

(* A line that has been added is not added again, if the files can be read. *)
KmodQuiet ==
    /\ Blacklist /\ "blacklist" \in kmClaim => UNCHANGED modprobe \/ unread'
    /\ SetInstallCommand /\ "install" \in kmClaim => UNCHANGED modprobe \/ unread'

(* unload returns true only if the module is not loaded, or was loaded again    *)
(* after it: the enforcer is a "no-op if not loaded".                           *)
UnloadedWhenClaimed == "unload" \in kmClaim => ~loaded
=============================================================================
