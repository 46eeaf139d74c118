------------------------------- MODULE MCHost -------------------------------
(* The enforcers of live and persistent state.  They share no state, so that   *)
(* one behaviour exercises one of them: focus picks it.                        *)
EXTENDS SysctlEnforcer, KmodEnforcer, MountsEnforcer, ServicesEnforcer

VARIABLE focus

vars == <<scVars, kmVars, mtVars, svVars, focus>>

SmallConf ==
    [1..3 -> {<<>>, <<KeyLine("plain", "0")>>}]
    \cup {<< <<>>, <<KeyLine("other", "0"), KeyLine(s, "0")>>, <<>> >> : s \in Spellings}
    \cup {<< <<>>, <<KeyLine("plain", "1"), KeyLine(s, "0")>>, <<>> >> : s \in Spellings}

SmallModprobe ==
    LET files == {<<>>, <<Line("blacklist", "under", "none")>>,
                  <<Line("install", "under", "/bin/true")>>, <<Line("install", "under", "other")>>,
                  <<Line("blacklist", "dash", "none"), Line("install", "dash", "/bin/false")>>}
    IN {<<before, <<>>, after>> : before \in files, after \in files}

SmallFstab ==
    LET entries == [path : {"here", "elsewhere", "comment"},
                    opts : {<<"defaults">>, <<"option">>, <<"opposite">>, <<"option", "opposite">>}]
    IN {<<>>} \cup {<<e>> : e \in entries} \cup {<<e, f>> : e \in entries, f \in entries}

Init ==
    /\ focus \in {"sysctl", "kmod", "mounts", "services"}
    /\ IF focus = "sysctl" THEN SysctlInit
       ELSE live = Wanted /\ conf = << <<>>, <<>>, <<>> >> /\ scStep = "idle"
            /\ scFailed = FALSE /\ scClaim = "none"
    /\ IF focus = "kmod" THEN KmodInit
       ELSE param = "under" /\ kind = "absent" /\ loaded = FALSE
            /\ modprobe = << <<>>, <<>>, <<>> >> /\ kmClaim = {} /\ unread = FALSE
    /\ IF focus = "mounts" THEN MountsInit
       ELSE mounted = FALSE /\ fstab = <<>> /\ mtStep = "idle"
            /\ mtFailed = FALSE /\ mtClaim = "none"
    /\ IF focus = "services" THEN ServicesInit
       ELSE file = "disabled" /\ active = "inactive" /\ svClaim = {}

Next ==
    \/ focus = "sysctl" /\ SysctlNext /\ UNCHANGED <<kmVars, mtVars, svVars, focus>>
    \/ focus = "kmod" /\ KmodNext /\ UNCHANGED <<scVars, mtVars, svVars, focus>>
    \/ focus = "mounts" /\ MountsNext /\ UNCHANGED <<scVars, kmVars, svVars, focus>>
    \/ focus = "services" /\ ServicesNext /\ UNCHANGED <<scVars, kmVars, mtVars, focus>>

Spec == Init /\ [][Next]_vars

(* What an enforcer returned true for shows in the probe of the rule, and still  *)
(* does after reboots, until somebody else changes it; the exceptions are those  *)
(* of the four modules.                                                          *)
SuccessLasts == SysctlLasts /\ KmodLasts /\ MountsLasts /\ ServicesLasts

(* Running an enforcer again where its work is done leaves every file and unit   *)
(* as it is (seharden-enforcer-guidelines.md: enforcers must be idempotent).     *)
RerunChangesNothing == [][SysctlQuiet /\ KmodQuiet /\ MountsQuiet /\ ServicesQuiet]_vars
=============================================================================
