------------------------------- MODULE MCFiles ------------------------------
(* The edits of configuration files, the replacement of a file on disk, the    *)
(* PAM stack, the readers of files and the signing of kernel modules share no  *)
(* state; a behaviour exercises one of them, and focus picks it.               *)
EXTENDS ConfigFile, AtomicWrite, PamStack, FileReads, KmodSign

VARIABLE focus

filesVars == <<editVars, writeVars, pamVars, readVars, signVars, focus>>

(* Configuration files: two keys, two values, two sections, every separator and *)
(* form.                                                                        *)
Line(kind, k, v, sep, form) == [kind |-> kind, key |-> k, val |-> v, sep |-> sep, form |-> form]

FileLines == {
    Assign("k", "new", "="), Assign("k", "old", " = "), Assign("k", "old", " "),
    Assign("k", "old", "tab"), Line("assign", "k", "new", "=", "quoted"),
    Line("assign", "k", "new", "=", "noted"), Line("hash", "k", "old", "=", "plain"),
    Assign("j", "old", "="), Section("s"), Section("t"),
    Line("section", "t", "", "", "noted")}

FileOps == {
    [action |-> "set_key_value", key |-> "k", val |-> "new", sep |-> "="],
    [action |-> "set_key_value", key |-> "k", val |-> "new", sep |-> " "],
    [action |-> "set_ini_key_value", section |-> "s", key |-> "k", val |-> "new"],
    [action |-> "append_line", key |-> "k", line |-> Assign("k", "new", " ")],
    [action |-> "remove_line_matching", key |-> "k"],
    [action |-> "comment_line_matching", key |-> "k"],
    [action |-> "write_content", key |-> "k", lines |-> <<Section("s"), Assign("k", "new", "=")>>]}

(* login.defs separates with blanks or tabs. *)
BlankLines == {Assign("k", "old", " "), Assign("k", "old", "tab"), Assign("j", "old", " ")}

BlankOps == {[action |-> "set_key_value", key |-> "k", val |-> "new", sep |-> " "]}

(* PAM files as distributions ship them, and broken ones. *)
PamEntry(k, c, m, a) == [kind |-> k, control |-> c, module |-> m, args |-> a]
Flags(S) == {<<n, Flag>> : n \in S}

PamEntries == {
    PamEntry("auth", "sufficient", "unix", Flags({"nullok"})),
    PamEntry("password", "sufficient", "unix", {}),
    PamEntry("auth", "required", "faillock", Flags({"preauth"}) \cup {<<"deny", 5>>}),
    PamEntry("auth", "required", "faillock", Flags({"authfail"}) \cup {<<"unlock_time", NotANumber>>}),
    PamEntry("account", "required", "faillock", {<<"deny", 9>>, <<"conf", 1>>}),
    PamEntry("auth", "[default=bad]", "wheel", Flags({"trust", "use_uid"}))}

(* A system-auth as it is shipped: every module and every kind of pam_unix. *)
SystemAuth == <<
    PamEntry("auth", "required", "faillock", Flags({"preauth"})),
    PamEntry("auth", "sufficient", "unix", {}),
    PamEntry("auth", "[default=die]", "faillock", Flags({"authfail"})),
    PamEntry("account", "required", "faillock", {<<"conf", 1>>}),
    PamEntry("account", "required", "unix", {}),
    PamEntry("password", "requisite", "pwquality", {}),
    PamEntry("password", "required", "pwhistory", Flags({"use_authtok"})),
    PamEntry("password", "sufficient", "unix", {}),
    PamEntry("session", "required", "unix", {})>>

(* Lines that the steps match behind their anchor, twice, and the anchor twice. *)
Repeated ==
    LET unix == PamEntry("auth", "sufficient", "unix", Flags({"nullok"}))
        preauth == PamEntry("auth", "required", "faillock", Flags({"preauth"}) \cup {<<"deny", 5>>})
        wheel == PamEntry("auth", "sufficient", "wheel", Flags({"trust", "use_uid"}))
    IN <<wheel, unix, preauth, Comment, unix, wheel, preauth>>

ShippedFiles == {SystemAuth, Repeated}

PamStep(k, c, m, a, match, ak, am) ==
    [kind |-> k, control |-> c, module |-> m, args |-> Flags(a), match_args |-> Flags(match),
     anchor_kind |-> ak, anchor_module |-> am, anchor_args |-> {}]

(* The ensure_entry steps of profiles/seharden/dengbao_3.yml. *)
ProfileSteps == {
    PamStep("auth", "required", "faillock", {"preauth"}, {"preauth"}, "auth", "unix"),
    PamStep("auth", "sufficient", "faillock", {"authsucc"}, {"authsucc"}, "auth", "unix"),
    PamStep("auth", "[default=die]", "faillock", {"authfail"}, {"authfail"}, "auth", "unix"),
    PamStep("password", "requisite", "pwquality", {"try_first_pass", "local_users_only"}, {}, "password", "unix"),
    PamStep("password", "required", "pwhistory", {"use_authtok"}, {}, "password", "unix"),
    PamStep("auth", "required", "wheel", {"use_uid"}, {}, "none", "none")}

FaillockConfigs ==
    {(0 :> [deny |-> 0, unlock |-> Absent]) @@ (1 :> NoConfig),
     (0 :> [deny |-> 9, unlock |-> 0]) @@ (1 :> [deny |-> 1, unlock |-> Absent])}

MCModules == {<<"a">>, <<"c">>}

SmallVersions == {<<>>, <<"a">>, <<"a", "b", "c">>, <<"d", "e", "f">>}

FilesInit ==
    /\ focus \in {"edit", "write", "pam", "read", "sign"}
    /\ IF focus = "edit" THEN EditInit ELSE lines = <<>> /\ last = NoOp /\ wrote = FALSE
    /\ WriteInit
    /\ IF focus = "pam" THEN PamInit
       ELSE file = <<>> /\ config = (CHOOSE c \in Configs : TRUE)
            /\ did = {} /\ ensured = NoStep /\ pamWrote = FALSE
    /\ IF focus = "read" THEN ReadInit
       ELSE /\ attrs = {} /\ content = <<>> /\ call = NoCall /\ buffers = 0 /\ result = NoResult
            /\ seen = [attrs |-> {}, content |-> {}] /\ inplace = FALSE /\ cut = FALSE
    /\ SignInit /\ (focus # "sign" => path = (CHOOSE p \in {Content(m) : m \in Modules} : TRUE))

FilesNext ==
    /\ UNCHANGED focus
    /\ \/ focus = "edit" /\ EditNext /\ UNCHANGED <<writeVars, pamVars, readVars, signVars>>
       \/ focus = "write" /\ WriteNext /\ UNCHANGED <<editVars, pamVars, readVars, signVars>>
       \/ focus = "pam" /\ PamNext /\ UNCHANGED <<editVars, writeVars, readVars, signVars>>
       \/ focus = "sign" /\ SignNext /\ UNCHANGED <<editVars, writeVars, pamVars, readVars>>
       \/ focus = "read" /\ ReadNext /\ UNCHANGED <<editVars, writeVars, pamVars, signVars>>

FilesSpec == FilesInit /\ [][FilesNext]_filesVars

-----------------------------------------------------------------------------
(* Running a step of the file or PAM enforcers again leaves the file alone. *)
StepsAreIdempotent == Idempotent /\ EnsureIdempotent

(* The probes read what an enforcer set (set_key_value, set_ini_key_value), and *)
(* what they read for other keys does not change.                               *)
EditsReadBack == SettingTakesEffect /\ OtherKeysKeepTheirValues

(* A step of pam.ensure_entry puts its entry before the anchor and leaves the   *)
(* checks of the probe passed that were.                                        *)
PamStepsKeepChecks == EnsuredBeforeAnchor /\ ChecksStayPassed
=============================================================================
