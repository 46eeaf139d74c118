---------------------------- MODULE SysctlEnforcer ----------------------------
(* enforcers/sysctl.lua and probes/sysctl.lua for one key: set_value writes the  *)
(* value to /proc/sys and to /etc/sysctl.d/99-loongshield.conf; the probe wants  *)
(* the live value and the last assignment in the configuration to agree.         *)
(*                                                                               *)
(* The configuration is the files in the order they are read.  A line assigns to *)
(* the key in one of the spellings that the parser knows ("a.b", "a/b", "-a.b"), *)
(* or to another key.                                                            *)
EXTENDS Naturals, Sequences, Functions

CONSTANTS Values, Wanted, InitialConf

Own == 2            \* the position of 99-loongshield.conf among the files
Spellings == {"plain", "slash", "minus"}
KeyLine(spelling, v) == [key |-> spelling, val |-> v]
MaxLines == 2       \* the length up to which others append to a file

ASSUME ConfAssumption ==
    /\ Wanted \in Values
    /\ \A c \in InitialConf : c \in Seq(Seq([key : Spellings \cup {"other"}, val : Values]))
                              /\ Len(c) >= Own

VARIABLES
    live,       \* the value in /proc/sys
    conf,       \* the configuration files
    scStep,     \* where set_value is
    scFailed,   \* live_err
    scClaim     \* what set_value has achieved and nobody else has touched since

scVars == <<live, conf, scStep, scFailed, scClaim>>

(* "saved": the file is written; "done": the live value is set as well. *)
SysctlInit ==
    /\ live \in Values /\ conf \in InitialConf
    /\ scStep = "idle" /\ scFailed = FALSE /\ scClaim = "none"

-----------------------------------------------------------------------------
(* No line of a file behind the first n assigns to the key. *)
SilentAfter(lines, n) == \A k \in (n + 1)..Len(lines) : lines[k].key \notin Spellings

(* get_persistent_value: the last assignment to the key, however spelled;       *)
(* set-valued, empty for nil.                                                   *)
Persistent(c) ==
    {v \in Values : \E i \in 1..Len(c) :
        /\ \E j \in 1..Len(c[i]) :
              c[i][j].key \in Spellings /\ c[i][j].val = v /\ SilentAfter(c[i], j)
        /\ \A k \in (i + 1)..Len(c) : SilentAfter(c[k], 0)}

(* get_effective_value and the comparison with the wanted value. *)
SysctlPasses == Persistent(conf) = {live} /\ live = Wanted

(* The first half of set_value: the write to /proc/sys may fail. *)
SetLive ==
    /\ scStep = "idle"
    /\ scStep' = "persist"
    /\ \/ live' = Wanted /\ scFailed' = FALSE
       \/ scFailed' = TRUE /\ UNCHANGED live
    /\ UNCHANGED <<conf, scClaim>>

(* Mutant: a new assignment goes to the front of the file. *)
PersistedInFront(lines) ==
    IF \E l \in Range(lines) : l.key = "plain" THEN lines
    ELSE <<KeyLine("plain", Wanted)>> \o lines

(* persist_sysctl: every line with the key in its plain spelling is rewritten,  *)
(* else a line is added at the end.                                             *)
Persisted(lines) ==
    IF \E l \in Range(lines) : l.key = "plain"
    THEN [i \in DOMAIN lines |->
            IF lines[i].key = "plain" THEN KeyLine("plain", Wanted) ELSE lines[i]]
    ELSE Append(lines, KeyLine("plain", Wanted))

(* The second half: the file is replaced at once or not at all, also when the   *)
(* live value could not be set; only both together make set_value return true.  *)
(* A file that cannot be opened for reading counts as empty.                    *)
PersistSysctl ==
    /\ scStep = "persist"
    /\ scStep' = "idle" /\ scFailed' = FALSE
    /\ \/ /\ \E lines \in {conf[Own], <<>>} : conf' = [conf EXCEPT ![Own] = Persisted(lines)]
          /\ scClaim' = IF ~scFailed \/ (scClaim = "done" /\ conf' = conf) THEN "done"
                        ELSE "saved"
       \/ UNCHANGED <<conf, scClaim>>
    /\ UNCHANGED live

(* Somebody else sets the live value or appends to one of the files. *)
SysctlOutside ==
    /\ scStep = "idle"
    /\ \/ live' \in Values /\ UNCHANGED conf
       \/ \E i \in DOMAIN conf, v \in Values :
            /\ Len(conf[i]) < MaxLines
            /\ conf' = [conf EXCEPT ![i] = Append(@, KeyLine("plain", v))] /\ UNCHANGED live
    /\ scClaim' = "none"
    /\ UNCHANGED <<scStep, scFailed>>

(* A reboot, at any moment: the files are applied in order (external). *)
SysctlReboot ==
    /\ scStep' = "idle" /\ scFailed' = FALSE
    /\ live' \in IF Persistent(conf) = {} THEN Values ELSE Persistent(conf)
    /\ scClaim' = IF scClaim = "saved" THEN "done" ELSE scClaim
    /\ UNCHANGED conf

SysctlNext == SetLive \/ PersistSysctl \/ SysctlOutside \/ SysctlReboot

-----------------------------------------------------------------------------
(* The last assignment to the key is one that the enforcer did not write: it is *)
(* in a file that is read later, or spelled in a way it does not look for.      *)
Overridden ==
    LET mine == {i \in DOMAIN conf[Own] : conf[Own][i].key = "plain"}
    IN \/ \E i \in (Own + 1)..Len(conf) : \E l \in Range(conf[i]) : l.key \in Spellings
       \/ \E i \in DOMAIN conf[Own] :
             conf[Own][i].key \in {"slash", "minus"} /\ \A j \in mine : j < i

(* What set_value has achieved shows in the probe and survives reboots, unless  *)
(* an assignment that it does not control comes later.                          *)
SysctlLasts == scClaim = "done" /\ ~Overridden => SysctlPasses

(* A run of set_value where its work is done writes the file as it is, or, if   *)
(* it could not read the file, with its own line alone.                         *)
SysctlQuiet ==
    PersistSysctl /\ scClaim = "done" => UNCHANGED conf \/ conf'[Own] = Persisted(<<>>)
=============================================================================
