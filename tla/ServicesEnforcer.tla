--------------------------- MODULE ServicesEnforcer ---------------------------
(* enforcers/services.lua, probes/services.lua and shared/systemctl.lua for one  *)
(* unit.  systemd is external; the probe asks it over D-Bus and, where that      *)
(* gives nothing, through systemctl, and either may be out of reach.             *)
EXTENDS Naturals, FiniteSets

FileStates == {"enabled", "disabled", "static", "masked", "not-found"}
ActiveStates == {"active", "inactive", "activating", "failed"}

VARIABLES
    file,       \* the unit file's state
    active,     \* the unit's state
    svClaim     \* the operations that returned true and hold since

svVars == <<file, active, svClaim>>

ServicesInit ==
    /\ file \in FileStates /\ active \in ActiveStates
    /\ svClaim = {}

-----------------------------------------------------------------------------
(* What systemctl does (external): the states that the unit file may be in      *)
(* after it.  unmask brings back the state before.                              *)
FilesAfter(state) ==
    CASE state = "enable" /\ file \in {"enabled", "disabled"} -> {"enabled"}
      [] state = "disable" /\ file = "enabled" -> {"disabled"}
      [] state = "mask" -> {"masked"}
      [] state = "unmask" /\ file = "masked" -> {"enabled", "disabled", "static"}
      [] OTHER -> {file}

FileRefused(state) ==
    (state = "enable" /\ file \in {"masked", "not-found"}) \/ (state = "disable" /\ file = "not-found")

(* set_filestate; a command that cannot be run or that exits with an error      *)
(* changes nothing.                                                             *)
SetFilestate(state) ==
    /\ \/ ~FileRefused(state) /\ file' \in FilesAfter(state)
          /\ svClaim' = (svClaim \ {"enable", "disable", "mask", "unmask"}) \cup {state}
       \/ UNCHANGED <<file, svClaim>>
    /\ UNCHANGED active

(* set_active_state *)
SetActiveState(state) ==
    /\ \/ /\ state = "stop" => file # "not-found" \/ active \in {"active", "activating"}
          /\ state # "stop" => file \notin {"masked", "not-found"}
          /\ active' = IF state = "stop" THEN "inactive" ELSE "active"
          /\ svClaim' = (svClaim \ {"start", "stop", "restart"}) \cup {state}
       \/ UNCHANGED <<active, svClaim>>
    /\ UNCHANGED file

(* Another unit pulls this one in, it ends by itself, or an administrator acts; *)
(* a unit whose file is removed may go on running.                              *)
ServicesOutside ==
    \/ /\ file \notin {"masked", "not-found"}
       /\ active' \in {"active", "activating"} \ {active}
       /\ svClaim' = svClaim \ {"start", "stop", "restart"} /\ UNCHANGED file
    \/ /\ active \in {"active", "activating"}
       /\ active' \in {"inactive", "failed"}
       /\ svClaim' = svClaim \ {"start", "restart"} /\ UNCHANGED file
    \/ file' \in FileStates /\ svClaim' = {} /\ UNCHANGED active

ServicesReboot ==
    /\ active' \in CASE file = "enabled" -> {"active", "activating", "failed"}
                     [] file \in {"disabled", "static"} -> {"inactive", "active"}
                     [] OTHER -> {"inactive"}
    /\ svClaim' = (svClaim \ {"start", "stop", "restart"})
                  \cup (IF "mask" \in svClaim THEN {"stop"} ELSE {})
    /\ UNCHANGED file

ServicesNext ==
    \/ \E s \in {"enable", "disable", "mask", "unmask"} : SetFilestate(s)
    \/ \E s \in {"start", "stop", "restart"} : SetActiveState(s)
    \/ ServicesOutside \/ ServicesReboot

-----------------------------------------------------------------------------
Buses == {"ok", "none", "no_reply", "unreadable"}
Tools == {"ok", "offline", "none"}

(* get_systemctl_properties: "show" needs a running systemd, the is-enabled     *)
(* that stands in for it only the unit files; set-valued, empty for nil.        *)
FallbackFileState(tool) ==
    IF tool = "none" \/ (tool = "offline" /\ file = "not-found") THEN {} ELSE {file}

(* get_file_state: without a reply (D-Bus has none for a unit that does not     *)
(* exist) and without an answer of systemctl the unit is "not-found".           *)
FileStateSeen(bus, tool) ==
    LET reply == bus = "ok" /\ file # "not-found"
        missing == IF bus \in {"ok", "no_reply"} THEN "not-found" ELSE "unknown"
    IN IF reply THEN {file}
       ELSE IF FallbackFileState(tool) # {} THEN FallbackFileState(tool)
       ELSE {missing}

ActiveStateSeen(tool) == IF tool = "ok" THEN active ELSE "unknown"

(* Mutant: a unit that is disabled counts as not in use. *)
NotInUseByFile(bus, tool) ==
    FileStateSeen(bus, tool) \subseteq {"not-found", "disabled", "masked", "static"}

(* unit_not_in_use *)
NotInUse(bus, tool) ==
    \/ FileStateSeen(bus, tool) = {"not-found"}
    \/ /\ FileStateSeen(bus, tool) \subseteq {"disabled", "masked", "static"}
       /\ ActiveStateSeen(tool) # "active"

(* A unit that was masked and stopped is not in use, as far as a probe that     *)
(* reaches systemd can tell, until an administrator changes it: no other unit   *)
(* and no reboot starts it.  One that was enabled stays enabled.                *)
ServicesLasts ==
    /\ {"mask", "stop"} \subseteq svClaim => NotInUse("ok", "ok") /\ active # "active"
    /\ "enable" \in svClaim => file \in {"enabled", "static"}

(* When systemctl works, with or without D-Bus, the probe calls a unit unused   *)
(* only if it is neither enabled nor active, or its file is gone: such a unit   *)
(* may still run, and tests/unit/seharden/test_services.lua has it "treated as  *)
(* not in use".  When systemctl does not work, at least no enabled unit is      *)
(* called unused, unless D-Bus leaves the call unanswered as well.              *)
NotInUseMeansStopped ==
    \A bus \in Buses, tool \in Tools : NotInUse(bus, tool) =>
        /\ file # "enabled" \/ (bus = "no_reply" /\ tool = "none")
        /\ tool = "ok" => active # "active" \/ file = "not-found"

ServicesQuiet ==
    \A s \in {"enable", "disable", "mask", "unmask"} :
        SetFilestate(s) /\ s \in svClaim => UNCHANGED file
=============================================================================
