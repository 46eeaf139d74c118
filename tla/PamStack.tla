------------------------------ MODULE PamStack ------------------------------
(***************************************************************************)
(* One PAM service file: the enforcer pam.ensure_entry and the probes that *)
(* read the file back (pam/modules, pam/faillock, pam/wheel, pam/unix).    *)
(* An argument is a pair of its name and its number: `Flag` for a bare     *)
(* word, `NotANumber` for a value tonumber refuses; "never" is 0.          *)
(***************************************************************************)
EXTENDS Integers, FiniteSets, SequencesExt

CONSTANTS
    PamLines,        \* the lines a file may hold
    Steps,          \* the ensure_entry steps of the profile
    Configs,        \* contents of faillock.conf (0) and of files that conf= names
    DefaultDeny, DefaultUnlock,
    MaxPamLines,     \* bound on the length of the initial file
    WholeFiles       \* longer initial files

ASSUME LimitsAssumption == DefaultDeny \in Nat \ {0} /\ DefaultUnlock \in Nat

Flag == -1
NotANumber == -2
Absent == -3
Kinds == {"auth", "account", "password", "session"}
NoConfig == [deny |-> Absent, unlock |-> NotANumber]
Comment == [kind |-> "#", control |-> "", module |-> "", args |-> {}]

VARIABLES
    file,       \* the lines of the file
    config,     \* [deny, unlock] of each configuration file, Absent when not set
    did,        \* the steps that have run
    ensured,       \* the step that ran last
    pamWrote       \* whether it replaced the file

pamVars == <<file, config, did, ensured, pamWrote>>

-----------------------------------------------------------------------------
(* The enforcer. *)
HasArgs(e, required) == required \subseteq e.args
Desired(s) == [kind |-> s.kind, control |-> s.control, module |-> s.module, args |-> s.args]
(* Mutant: match_args is not looked at. *)
IsTargetAnyArgs(s, e) == e.kind = s.kind /\ e.module = s.module

IsTarget(s, e) == e.kind = s.kind /\ e.module = s.module /\ HasArgs(e, s.match_args)

IsAnchor(s, e) ==
    e.kind = s.anchor_kind /\ e.module = s.anchor_module /\ HasArgs(e, s.anchor_args)
(* Mutant: the line is added, whatever is there. *)
EnsureEntryAppending(s, f) == Append(f, Desired(s))

(* Mutant: a target that is found behind the anchor stays there. *)
EnsureEntryInPlace(s, f) ==
    IF \E e \in Range(f) : IsTarget(s, e)
    THEN [i \in DOMAIN f |-> IF IsTarget(s, f[i]) THEN Desired(s) ELSE f[i]]
    ELSE <<Desired(s)>> \o f

(* Mutant: the anchor is lost when the line is put in front of it. *)
EnsureEntryOverAnchor(s, f) ==
    <<Desired(s)>> \o SelectSeq(f, LAMBDA e : ~IsTarget(s, e) /\ ~IsAnchor(s, e))

(* The first target is replaced, later ones are dropped; without a target     *)
(* before it, the line goes in front of the first anchor, else to the end.    *)
EnsureEntry(s, f) ==
    LET visit(acc, e) ==
          CASE IsTarget(s, e) ->
                 IF acc.inserted THEN acc
                 ELSE [out |-> Append(acc.out, Desired(s)), inserted |-> TRUE]
            [] ~IsTarget(s, e) /\ ~acc.inserted /\ IsAnchor(s, e) ->
                 [out |-> acc.out \o <<Desired(s), e>>, inserted |-> TRUE]
            [] OTHER -> [acc EXCEPT !.out = Append(@, e)]
        end == FoldLeft(visit, [out |-> <<>>, inserted |-> FALSE], f)
    IN IF end.inserted THEN end.out ELSE Append(end.out, Desired(s))

-----------------------------------------------------------------------------
(* The probes.  Option(e, o) is parse_option followed by tonumber. *)
HasArg(e, name) == <<name, Flag>> \in e.args

Option(e, o) ==
    IF \E a \in e.args : a[1] = o /\ a[2] # Flag
    THEN (CHOOSE a \in e.args : a[1] = o /\ a[2] # Flag)[2] ELSE Absent

Of(f, kind, module) == {e \in Range(f) : e.kind = kind /\ e.module = module}

(* pam/modules.lua *)
Requirement(k, m, a) == [kind |-> k, module |-> m, arg |-> a]

Requirements(name) ==
    CASE name = "faillock"  -> {Requirement("auth", "faillock", "preauth"),
                                Requirement("auth", "faillock", "authfail"),
                                Requirement("account", "faillock", "")}
      [] name = "pwquality" -> {Requirement("password", "pwquality", "")}
      [] name = "pwhistory" -> {Requirement("password", "pwhistory", "")}

ModuleEnabled(f, name) ==
    \A r \in Requirements(name) :
        \E e \in Of(f, r.kind, r.module) : r.arg = "" \/ HasArg(e, r.arg)

(* pam/faillock.lua: get_faillock_config.  The file that conf= names must be   *)
(* there; faillock.conf need not be.                                           *)
Config(e, c) ==
    IF Option(e, "conf") # Absent THEN c[Option(e, "conf")]
    ELSE IF c[0] = NoConfig THEN [deny |-> Absent, unlock |-> Absent] ELSE c[0]

(* A value of deny that is not positive counts as not given.  A missing file   *)
(* and an unlock_time that is not a number are errors, here NotANumber.        *)
Deny(e, c) ==
    IF Option(e, "deny") > 0 THEN Option(e, "deny")
    ELSE IF Config(e, c) = NoConfig THEN NotANumber
    ELSE IF Config(e, c).deny > 0 THEN Config(e, c).deny ELSE DefaultDeny

UnlockTime(e, c) ==
    IF Option(e, "unlock_time") # Absent THEN Option(e, "unlock_time")
    ELSE IF Config(e, c).unlock # Absent THEN Config(e, c).unlock ELSE DefaultUnlock

FaillockEntryOK(e, c) ==
    /\ Deny(e, c) \in 1..DefaultDeny
    /\ UnlockTime(e, c) = 0 \/ UnlockTime(e, c) >= DefaultUnlock

(* An entry counts as one phase, the first of these that it names. *)
InspectFaillock(f, c) ==
    LET entries == Of(f, "auth", "faillock")
        preauth == {e \in entries : HasArg(e, "preauth")}
        authfail == {e \in entries \ preauth : HasArg(e, "authfail")}
        authsucc == {e \in entries \ (preauth \cup authfail) : HasArg(e, "authsucc")}
    IN /\ authfail # {} /\ authsucc \cup preauth # {}
       /\ \A e \in Range(f) : e.module = "faillock" => FaillockEntryOK(e, c)

(* pam/wheel.lua: inspect, without require_empty_group. *)
RestrictiveControls == {"required", "requisite", "[default=die]", "[default=bad]"}

WheelReason(e) ==
    IF HasArg(e, "deny") \/ HasArg(e, "trust") THEN "dangerous"
    ELSE IF ~HasArg(e, "use_uid") \/ e.control \notin RestrictiveControls
    THEN "weak" ELSE "none"

InspectWheel(f) ==
    LET reasons == {WheelReason(e) : e \in Of(f, "auth", "wheel")}
    IN "none" \in reasons /\ "dangerous" \notin reasons

(* pam/unix.lua: the checks `enabled` and `no_nullok`. *)
UnixEnabled(f) == \A k \in Kinds : Of(f, k, "unix") # {}

UnixNoNullok(f) ==
    /\ \E e \in Range(f) : e.module = "unix"
    /\ \A e \in Range(f) : e.module = "unix" => ~HasArg(e, "nullok")

-----------------------------------------------------------------------------
NoStep == [kind |-> "none"]

PamInit ==
    /\ file \in WholeFiles \cup UNION {[1..n -> PamLines \cup {Comment}] : n \in 0..MaxPamLines}
    /\ config \in Configs
    /\ did = {} /\ ensured = NoStep /\ pamWrote = FALSE

Ensure(s) ==
    /\ file' = EnsureEntry(s, file)
    /\ pamWrote' = (file' # file)
    /\ did' = did \cup {s} /\ ensured' = s
    /\ UNCHANGED config

PamNext == \E s \in Steps : Ensure(s)

PamSpec == PamInit /\ [][PamNext]_pamVars

-----------------------------------------------------------------------------
(* Running a step of ensure_entry twice in a row writes the file once. *)
EnsureIdempotent == [][ensured # NoStep /\ ensured' = ensured => ~pamWrote']_pamVars

(* The entry a step ensures stands in front of every anchor, also when the    *)
(* file had it behind one, and is the only one the step matches; the lines    *)
(* the step is not about stay, in their order.                                *)
EnsuredBeforeAnchor ==
    [][ \A s \in Steps : ensured' = s =>
          /\ \E i \in DOMAIN file' :
                /\ file'[i] = Desired(s)
                /\ \A j \in DOMAIN file' : /\ IsTarget(s, file'[j]) => j = i
                                           /\ IsAnchor(s, file'[j]) => i < j
          /\ LET rest(f) == SelectSeq(f, LAMBDA e : ~IsTarget(s, e))
             IN rest(file') = rest(file) ]_pamVars

(* When the steps of a rule have all run, in whatever order and with steps of *)
(* other rules between them, the probe of the rule is satisfied: for `su` at  *)
(* once, for the lockout rule if faillock.conf and the faillock entries that  *)
(* its steps do not match set no value of their own that is out of bounds.    *)
RulesAreFixed ==
    LET own == {s \in Steps : s.module = "faillock"}
        Matched(e) == \E s \in own : IsTarget(s, e)
    IN /\ (/\ own \subseteq did
           /\ \A e \in Range(file) : e.module = "faillock" /\ ~Matched(e) => FaillockEntryOK(e, config)
           /\ \A s \in own : FaillockEntryOK(Desired(s), config))
          => InspectFaillock(file, config)
       /\ (\E s \in did : s.module = "wheel") => InspectWheel(file)

(* No step of one rule makes a file fail a check of another rule that it      *)
(* passed: the modules stay enabled and the pam_unix entries as they were, in *)
(* files of which no line names two phases of pam_faillock.                   *)
ChecksStayPassed ==
    [][ /\ \A m \in {"faillock", "pwquality", "pwhistory"} :
              ModuleEnabled(file, m) => ModuleEnabled(file', m)
        /\ InspectWheel(file) => InspectWheel(file')
        /\ UnixEnabled(file) => UnixEnabled(file')
        /\ UnixNoNullok(file) => UnixNoNullok(file') ]_pamVars
=============================================================================
