--------------------------- MODULE SehardenEngine ---------------------------
(***************************************************************************)
(* The seharden run: engine.run walks the rules of a profile in order, and *)
(* for each of them validates, audits and, in reinforce mode, enforces and *)
(* audits again (engine.lua, rule_executor.lua).  Probes of sshd settings  *)
(* read one `sshd -T` dump that the ssh probe keeps between calls.         *)
(*                                                                         *)
(* The system being hardened is a function from settings to values.  It is *)
(* changed by enforcers, and by other programs of the host (Drift).        *)
(***************************************************************************)
EXTENDS Integers, Sequences, FiniteSets

CONSTANTS
    Rules,      \* the rules profile.get_rules_for_level selected, in order
    Settings,   \* what probes read and enforcers write
    Values,     \* the values a setting may have
    MaxDrift    \* bound on the changes other programs make during the run

Source == {"ssh", "direct"}
ProbeTask == [src : Source, setting : Settings, want : Values]
ReinforceStep == [setting : Settings, value : Values]

(* `auto` says whether the rule has a `reinforce` list at all; `guards` is the *)
(* number of probe tasks of its reinforce_guard.                               *)
Rule == [probes : Seq(ProbeTask), guards : Nat, auto : BOOLEAN, steps : Seq(ReinforceStep)]

ASSUME RulesAssumption == Rules \in Seq(Rule)
ASSUME DriftAssumption == MaxDrift \in Nat

(* Two rules of one profile never want different values of one setting. *)
ASSUME NoConflictAssumption ==
    \A i, j \in 1..Len(Rules) :
        \A p \in 1..Len(Rules[i].probes), s \in 1..Len(Rules[j].steps) :
            Rules[i].probes[p].setting = Rules[j].steps[s].setting
                => Rules[i].probes[p].want = Rules[j].steps[s].value

Statuses == {"ERROR", "PASS", "FAIL", "MANUAL", "ENFORCE-ERROR", "DRY-RUN",
             "FIXED", "FAILED-TO-FIX"}
GuardOutcomes == {"falsy", "nil_err", "truthy", "raised", "missing"}
Running == {"next", "audit", "guard", "reinforce", "verify"}

NoDump == [state |-> "none"]
FailedDump == [state |-> "failed"]
DumpOf(values) == [state |-> "ok", values |-> values]
Dumps == {NoDump, FailedDump} \cup {DumpOf(f) : f \in [Settings -> Values]}

VARIABLES
    mode,       \* "scan" or "reinforce"
    dryRun,     \* opts.dry_run
    sys,        \* the settings of the host
    dump,       \* _effective_dump_cache of probes/ssh.lua
    pc,         \* what the engine does next, or how the run ended
    idx,        \* the rule in hand
    task,       \* the probe, guard or reinforce task in hand
    match,      \* every probe of this audit so far read the wanted value
    guardLog,   \* what the guard probes of the rule in hand returned
    report,     \* report.rules, the status of each item
    counters,   \* the counters of engine.run
    exit,       \* the exit code of the command, -1 while it runs
    drift,      \* changes made by other programs so far
    since       \* history: the values each setting had since the last enforcer

vars == <<mode, dryRun, sys, dump, pc, idx, task, match, guardLog, report,
          counters, exit, drift, since>>

rule == Rules[idx]

Init ==
    /\ mode \in {"scan", "reinforce"}
    /\ dryRun \in BOOLEAN
    /\ sys \in [Settings -> Values]
    /\ dump = NoDump
    /\ pc = "next"
    /\ idx = 1
    /\ task = 1
    /\ match = TRUE
    /\ guardLog = <<>>
    /\ report = <<>>
    /\ counters = [passed |-> 0, fixed |-> 0, manual |-> 0,
                   dry_run_pending |-> 0, hard_failures |-> 0]
    /\ exit = -1
    /\ drift = 0
    /\ since = [s \in Settings |-> {sys[s]}]

-----------------------------------------------------------------------------
(* The report.  A rule that failed its audit in reinforce mode has an item   *)
(* with status FAIL before it is enforced; its final status replaces that.   *)
(* Mutant: a FIXED rule falls through to the failures. *)
CounterOfWithoutFixed(status) ==
    CASE status = "PASS" -> "passed"
      [] status = "MANUAL" -> "manual"
      [] status = "DRY-RUN" -> "dry_run_pending"
      [] OTHER -> "hard_failures"

CounterOf(status) ==
    CASE status = "PASS" -> "passed"
      [] status = "FIXED" -> "fixed"
      [] status = "MANUAL" -> "manual"
      [] status = "DRY-RUN" -> "dry_run_pending"
      [] OTHER -> "hard_failures"

HasItem == pc \in {"guard", "reinforce", "verify"}

Judge(status) ==
    /\ report' = IF HasItem THEN [report EXCEPT ![idx] = status]
                            ELSE Append(report, status)
    /\ counters' = [counters EXCEPT ![CounterOf(status)] = @ + 1]
    /\ pc' = "next"
    /\ idx' = idx + 1
    /\ task' = 1
    /\ match' = TRUE
    /\ guardLog' = <<>>

Start(step) ==
    /\ pc' = step
    /\ task' = 1
    /\ match' = TRUE

-----------------------------------------------------------------------------
(* engine.process_single_rule up to the first audit.  Whether a rule has the  *)
(* shape rule_schema.validate_rule wants is not part of the model's rules.    *)
ValidateRule ==
    /\ pc = "next"
    /\ idx <= Len(Rules)
    /\ \/ Start("audit") /\ UNCHANGED <<idx, guardLog, report, counters>>
       \/ Judge("ERROR")
    /\ UNCHANGED <<mode, dryRun, sys, dump, exit, drift, since>>

(* read_effective_dump: the kept dump if there is one, else a new one, which  *)
(* is kept whether or not the command succeeded.                              *)
ReadEffectiveDump ==
    IF dump # NoDump THEN {dump} ELSE {FailedDump, DumpOf(sys)}

(* rule_executor.audit runs one probe task.  A missing probe, a probe that    *)
(* raises and one that returns nil with an error all end the audit in ERROR;  *)
(* a failed dump is a value that matches nothing.                             *)
RunProbe ==
    /\ pc \in {"audit", "verify"}
    /\ task <= Len(rule.probes)
    /\ LET probe == rule.probes[task] IN
       \/ /\ probe.src = "ssh"
          /\ \E d \in ReadEffectiveDump :
                /\ dump' = d
                /\ match' = (match /\ d # FailedDump
                                   /\ d.values[probe.setting] = probe.want)
          /\ task' = task + 1
          /\ UNCHANGED <<pc, idx, guardLog, report, counters>>
       \/ /\ probe.src = "direct"
          /\ match' = (match /\ sys[probe.setting] = probe.want)
          /\ task' = task + 1
          /\ UNCHANGED <<dump, pc, idx, guardLog, report, counters>>
       \/ /\ Judge(IF pc = "audit" THEN "ERROR" ELSE "FAILED-TO-FIX")
          /\ UNCHANGED dump
    /\ UNCHANGED <<mode, dryRun, sys, exit, drift, since>>

(* The verdict of rule_executor.audit and what process_single_rule does of it. *)
EvaluateAudit ==
    /\ pc = "audit"
    /\ task > Len(rule.probes)
    /\ \/ match /\ Judge("PASS")
       \/ ~match /\ mode = "scan" /\ Judge("FAIL")
       \/ /\ ~match
          /\ mode = "reinforce"
          /\ report' = Append(report, "FAIL")
          /\ Start("guard")
          /\ UNCHANGED <<idx, guardLog, counters>>
    /\ UNCHANGED <<mode, dryRun, sys, dump, exit, drift, since>>
(* Mutant: the enforcers are believed. *)
EvaluateVerifyTrusting ==
    /\ pc = "verify"
    /\ task > Len(rule.probes)
    /\ Judge("FIXED")
    /\ UNCHANGED <<mode, dryRun, sys, dump, exit, drift, since>>

EvaluateVerify ==
    /\ pc = "verify"
    /\ task > Len(rule.probes)
    /\ Judge(IF match THEN "FIXED" ELSE "FAILED-TO-FIX")
    /\ UNCHANGED <<mode, dryRun, sys, dump, exit, drift, since>>

(* The evaluator is not called under pcall: an assertion that indexes a value *)
(* that is not a table ends the command, and modules/init.lua exits with 1.   *)
EvaluatorRaises ==
    /\ pc \in {"audit", "verify"}
    /\ task > Len(rule.probes)
    /\ Len(rule.probes) > 0
    /\ pc' = "aborted"
    /\ exit' = 1
    /\ UNCHANGED <<mode, dryRun, sys, dump, idx, task, match, guardLog, report,
                   counters, drift, since>>

-----------------------------------------------------------------------------
(* rule_executor.enforce. *)
NothingToEnforce ==
    /\ pc = "guard"
    /\ ~rule.auto
    /\ Judge("MANUAL")
    /\ UNCHANGED <<mode, dryRun, sys, dump, exit, drift, since>>

(* evaluate_guard runs one guard task: it skips the rule on a truthy result, *)
(* a missing probe and a probe that raises, and goes on to the next one when *)
(* the result is false or nil, with or without an error message.             *)
GuardSkips(outcome) == outcome \in {"truthy", "raised", "missing"}

RunGuard ==
    /\ pc = "guard"
    /\ rule.auto
    /\ task <= rule.guards
    /\ \E outcome \in GuardOutcomes :
          IF GuardSkips(outcome)
          THEN Judge("MANUAL")
          ELSE /\ guardLog' = Append(guardLog, outcome)
               /\ task' = task + 1
               /\ UNCHANGED <<pc, idx, match, report, counters>>
    /\ UNCHANGED <<mode, dryRun, sys, dump, exit, drift, since>>
(* Mutant: the last guard is not waited for. *)
GuardsPassedEarly ==
    /\ pc = "guard"
    /\ rule.auto
    /\ task >= rule.guards
    /\ Start("reinforce")
    /\ UNCHANGED <<mode, dryRun, sys, dump, idx, guardLog, report, counters,
                   exit, drift, since>>

GuardsPassed ==
    /\ pc = "guard"
    /\ rule.auto
    /\ task > rule.guards
    /\ Start("reinforce")
    /\ UNCHANGED <<mode, dryRun, sys, dump, idx, guardLog, report, counters,
                   exit, drift, since>>

(* An enforcer that returns a true value has written the setting, or ignored  *)
(* the failure of the command that writes it.  One that raises or returns nil *)
(* or false may have written anything before it stopped.                      *)
Written(setting, value) ==
    /\ sys' = [sys EXCEPT ![setting] = value]
    /\ since' = [s \in Settings |-> {sys'[s]}]
RunReinforceStep ==
    /\ pc = "reinforce"
    /\ ~dryRun
    /\ task <= Len(rule.steps)
    /\ LET step == rule.steps[task] IN
       \/ /\ \E v \in {sys[step.setting], step.value} : Written(step.setting, v)
          /\ task' = task + 1
          /\ UNCHANGED <<pc, idx, match, guardLog, report, counters>>
       \/ /\ \E v \in Values : Written(step.setting, v)
          /\ Judge("ENFORCE-ERROR")
    /\ UNCHANGED <<mode, dryRun, dump, exit, drift>>

DryRunStep ==
    /\ pc = "reinforce"
    /\ dryRun
    /\ task <= Len(rule.steps)
    /\ task' = task + 1
    /\ UNCHANGED <<mode, dryRun, sys, dump, pc, idx, match, guardLog, report,
                   counters, exit, drift, since>>
(* Mutant: the dump survives the enforcers. *)
EnforceReturnsKeepingDump ==
    /\ pc = "reinforce"
    /\ task > Len(rule.steps)
    /\ IF dryRun
       THEN Judge("DRY-RUN")
       ELSE Start("verify") /\ UNCHANGED <<idx, guardLog, report, counters>>
    /\ UNCHANGED <<mode, dryRun, sys, dump, exit, drift, since>>

(* The end of rule_executor.enforce, where a live run drops the ssh dump. *)
EnforceReturns ==
    /\ pc = "reinforce"
    /\ task > Len(rule.steps)
    /\ IF dryRun
       THEN Judge("DRY-RUN") /\ UNCHANGED dump
       ELSE /\ dump' = NoDump
            /\ Start("verify")
            /\ UNCHANGED <<idx, guardLog, report, counters>>
    /\ UNCHANGED <<mode, dryRun, sys, exit, drift, since>>
(* Mutant: what a dry run would have to fix does not count. *)
FinishIgnoringPending ==
    /\ pc = "next"
    /\ idx > Len(Rules)
    /\ pc' = "done"
    /\ exit' = IF counters.hard_failures = 0 THEN 0 ELSE 1
    /\ UNCHANGED <<mode, dryRun, sys, dump, idx, task, match, guardLog, report,
                   counters, drift, since>>

Finish ==
    /\ pc = "next"
    /\ idx > Len(Rules)
    /\ pc' = "done"
    /\ exit' = IF counters.hard_failures = 0 /\ counters.dry_run_pending = 0
               THEN 0 ELSE 1
    /\ UNCHANGED <<mode, dryRun, sys, dump, idx, task, match, guardLog, report,
                   counters, drift, since>>

(* Another program of the host changes a setting while the run is on. *)
Drift ==
    /\ pc \in Running
    /\ drift < MaxDrift
    /\ \E s \in Settings, v \in Values :
          /\ v # sys[s]
          /\ sys' = [sys EXCEPT ![s] = v]
          /\ since' = [since EXCEPT ![s] = @ \cup {v}]
    /\ drift' = drift + 1
    /\ UNCHANGED <<mode, dryRun, dump, pc, idx, task, match, guardLog, report,
                   counters, exit>>

Engine ==
    \/ ValidateRule
    \/ RunProbe
    \/ EvaluateAudit
    \/ EvaluateVerify
    \/ EvaluatorRaises
    \/ NothingToEnforce
    \/ RunGuard
    \/ GuardsPassed
    \/ RunReinforceStep
    \/ DryRunStep
    \/ EnforceReturns
    \/ Finish

Next == Engine \/ Drift

Spec == Init /\ [][Next]_vars

-----------------------------------------------------------------------------
(* What each variable holds, and how far the report is when each step runs. *)
TypeOK ==
    /\ mode \in {"scan", "reinforce"}
    /\ dryRun \in BOOLEAN
    /\ sys \in [Settings -> Values]
    /\ dump \in Dumps
    /\ pc \in Running \cup {"done", "aborted"}
    /\ idx \in 1..(Len(Rules) + 1)
    /\ (pc \in Running \ {"next"} => idx <= Len(Rules))
    /\ task \in Nat \ {0}
    /\ match \in BOOLEAN
    /\ guardLog \in Seq(GuardOutcomes)
    /\ report \in Seq(Statuses)
    /\ Len(report) \in {idx - 1, idx}
    /\ (pc # "aborted" => Len(report) = IF HasItem THEN idx ELSE idx - 1)
    /\ counters \in [{"passed", "fixed", "manual", "dry_run_pending",
                      "hard_failures"} -> Nat]
    /\ exit \in {-1, 0, 1}
    /\ (exit = -1 <=> pc \in Running)
    /\ drift \in 0..MaxDrift
    /\ since \in [Settings -> SUBSET Values]

Judged(statuses) == {i \in 1..(idx - 1) : report[i] \in statuses}

(* The summary that engine.run prints and returns agrees, at every moment,   *)
(* with the items of the report: each counter is the number of judged rules  *)
(* with the statuses it stands for, so no rule is counted twice or left out. *)
SummaryMatchesReport ==
    /\ counters["passed"] = Cardinality(Judged({"PASS"}))
    /\ counters["fixed"] = Cardinality(Judged({"FIXED"}))
    /\ counters["manual"] = Cardinality(Judged({"MANUAL"}))
    /\ counters["dry_run_pending"] = Cardinality(Judged({"DRY-RUN"}))
    /\ counters["hard_failures"] = Cardinality(
          Judged({"ERROR", "FAIL", "ENFORCE-ERROR", "FAILED-TO-FIX"}))

Compliant(i) ==
    \A p \in 1..Len(Rules[i].probes) :
        sys[Rules[i].probes[p].setting] = Rules[i].probes[p].want

(* Exit code 0 can be trusted: when no other program touched the host, every *)
(* rule the report calls PASS or FIXED holds on the host when the run ends,   *)
(* although dumps are cached and other rules were enforced in between.        *)
ExitZeroMeansCompliant ==
    exit = 0 /\ drift = 0
        => \A i \in Judged({"PASS", "FIXED"}) : Compliant(i)

(* A rule is judged PASS or FIXED only on values that its settings really had *)
(* after the last enforcer ran: the verdict never comes from a dump older     *)
(* than a change the run itself made.  (A rule that ended in ENFORCE-ERROR    *)
(* leaves the old dump in place, but then the run fails as a whole.)          *)
VerdictsAreFresh ==
    [][ (report' # report /\ idx' = idx + 1 /\ report'[idx] \in {"PASS", "FIXED"}
            /\ Judged({"ENFORCE-ERROR"}) = {})
          => \A p \in 1..Len(rule.probes) :
                rule.probes[p].want \in since[rule.probes[p].setting] ]_vars

(* Nothing is enforced before every guard task of the rule let it through,    *)
(* and nothing at all in a rule that has failed no audit in this run.         *)
GuardsRunFirst ==
    pc = "reinforce" =>
        /\ Len(guardLog) = rule.guards
        /\ \A g \in 1..Len(guardLog) : ~GuardSkips(guardLog[g])
        /\ report[idx] = "FAIL"

(* docs/reference/seharden-profile-format.md: "When the guard probe is        *)
(* unavailable or errors, reinforce is also skipped (fail-close)".            *)
GuardErrorSkipsReinforce ==
    pc = "reinforce" =>
        \A g \in 1..Len(guardLog) : guardLog[g] # "nil_err"

Promise == INSTANCE HardeningRun
    WITH Total <- Len(Rules), verdicts <- SubSeq(report, 1, idx - 1)

(* The engine implements HardeningRun: rules are judged in order, a verdict is *)
(* never revised, each is one its mode allows, and the exit code follows from  *)
(* the verdicts although the engine computes it from its counters.             *)
ImplementsHardeningRun == Promise!RunSpec

=============================================================================
