------------------------ MODULE SehardenEngineProofs ------------------------
(* Proofs about the seharden engine, for every profile and every host. *)
EXTENDS SehardenEngine, TLAPS

Counters == {"passed", "fixed", "manual", "dry_run_pending", "hard_failures"}

(* Every status is counted by one of the counters of engine.run. *)
LEMMA CounterOfStatus == \A s \in Statuses : CounterOf(s) \in Counters
BY DEF Statuses, CounterOf, Counters

(* What the rule in hand looks like. *)
LEMMA RuleShape ==
    ASSUME TypeOK, idx <= Len(Rules)
    PROVE  /\ rule \in Rule
           /\ rule.auto \in BOOLEAN
           /\ rule.guards \in Nat
           /\ Len(rule.probes) \in Nat
           /\ Len(rule.steps) \in Nat
           /\ \A p \in 1..Len(rule.probes) : rule.probes[p] \in ProbeTask
           /\ \A s \in 1..Len(rule.steps) : rule.steps[s] \in ReinforceStep
<1>1. idx \in 1..Len(Rules)
  BY RulesAssumption DEF TypeOK
<1>2. rule \in Rule
  BY <1>1, RulesAssumption DEF rule
<1> QED
  BY <1>2 DEF Rule

(* Where the run is: the rule in hand, and how long the report is. *)
LEMMA Position ==
    ASSUME TypeOK
    PROVE  /\ Len(Rules) \in Nat /\ idx \in Nat \ {0} /\ idx - 1 <= Len(Rules)
           /\ task \in Nat \ {0}
           /\ pc \in Running \ {"next"} => idx <= Len(Rules)
           /\ report \in Seq(Statuses) /\ Len(report) \in {idx - 1, idx}
           /\ pc \in Running => Len(report) = IF HasItem THEN idx ELSE idx - 1
           /\ exit = -1 <=> pc \in Running
<1>1. Len(Rules) \in Nat
  BY RulesAssumption
<1> QED
  BY <1>1 DEF TypeOK, Running

(* Judging the rule in hand keeps the report, counters and position well typed. *)
LEMMA JudgeType ==
    ASSUME TypeOK, pc \in Running, idx <= Len(Rules),
           NEW status \in Statuses, Judge(status)
    PROVE  /\ pc' = "next"
           /\ idx' \in 1..(Len(Rules) + 1)
           /\ task' \in Nat \ {0}
           /\ match' \in BOOLEAN
           /\ guardLog' \in Seq(GuardOutcomes)
           /\ report' \in Seq(Statuses)
           /\ Len(report') = idx' - 1
           /\ counters' \in [Counters -> Nat]
<1>1. Len(Rules) \in Nat
  BY RulesAssumption
<1>2. /\ report' \in Seq(Statuses)
      /\ Len(report') = idx' - 1
  <2>1. CASE HasItem
    BY <2>1, <1>1 DEF TypeOK, Judge, HasItem
  <2>2. CASE ~HasItem
    BY <2>2, <1>1 DEF TypeOK, Judge, HasItem, Running
  <2> QED BY <2>1, <2>2
<1>3. counters' \in [Counters -> Nat]
  <2>1. CounterOf(status) \in Counters
    BY CounterOfStatus
  <2>2. counters \in [Counters -> Nat]
    BY DEF TypeOK, Counters
  <2>3. counters' = [counters EXCEPT ![CounterOf(status)] = @ + 1]
    BY DEF Judge
  <2> QED
    BY <2>1, <2>2, <2>3
<1>4. idx' \in 1..(Len(Rules) + 1)
  BY <1>1 DEF TypeOK, Judge
<1>5. /\ guardLog' \in Seq(GuardOutcomes)
      /\ task' \in Nat \ {0}
  BY DEF Judge
<1> QED
  BY <1>2, <1>3, <1>4, <1>5 DEF Judge

-----------------------------------------------------------------------------
(* A run starts well typed. *)
LEMMA TypeInit == Init => TypeOK
<1> SUFFICES ASSUME Init PROVE TypeOK
  OBVIOUS
<1>1. Len(Rules) \in Nat
  BY RulesAssumption
<1>2. since \in [Settings -> SUBSET Values]
  BY DEF Init
<1>3. dump \in Dumps
  BY DEF Init, Dumps
<1>4. /\ guardLog \in Seq(GuardOutcomes)
      /\ report \in Seq(Statuses)
      /\ Len(report) = 0
  BY DEF Init
<1>5. counters \in [{"passed", "fixed", "manual", "dry_run_pending",
                     "hard_failures"} -> Nat]
  BY DEF Init
<1>6. drift \in 0..MaxDrift
  BY DriftAssumption DEF Init
<1> QED
  BY <1>1, <1>2, <1>3, <1>4, <1>5, <1>6 DEF Init, TypeOK, Running, HasItem

(* Reading through the dump gives a dump. *)
LEMMA ReadDumpType ==
    ASSUME TypeOK, NEW d \in ReadEffectiveDump
    PROVE  d \in Dumps
BY DEF TypeOK, ReadEffectiveDump, Dumps

(* The type invariant is kept by every step of the engine and of its host. *)
LEMMA TypeStep == TypeOK /\ [Next]_vars => TypeOK'
<1> SUFFICES ASSUME TypeOK, [Next]_vars PROVE TypeOK'
  OBVIOUS
<1>0. Len(Rules) \in Nat
  BY RulesAssumption
<1>1. CASE ValidateRule
  <2> USE <1>0
  <2>1. CASE Start("audit") /\ UNCHANGED <<idx, guardLog, report, counters>>
    BY <1>1, <2>1 DEF ValidateRule, Start, TypeOK, HasItem, Running
  <2>2. CASE Judge("ERROR")
    <3>1. Judge("ERROR") /\ pc \in Running /\ idx <= Len(Rules)
      BY <1>1, <2>2 DEF ValidateRule, Running
    <3> QED
      BY <1>1, <3>1, JudgeType, Zenon
         DEF ValidateRule, TypeOK, HasItem, Running, Statuses, Counters
  <2> QED BY <1>1, <2>1, <2>2 DEF ValidateRule
<1>2. CASE RunProbe
  <2> USE <1>0
  <2>0. pc \in {"audit", "verify"} /\ idx <= Len(Rules)
    BY <1>2 DEF RunProbe, TypeOK, Running
  <2>same. UNCHANGED <<mode, dryRun, sys, exit, drift, since>>
    BY <1>2 DEF RunProbe
  <2>1. CASE /\ \E d \in ReadEffectiveDump : dump' = d
             /\ match' \in BOOLEAN
             /\ task' = task + 1
             /\ UNCHANGED <<pc, idx, guardLog, report, counters>>
    <3>1. dump' \in Dumps
      BY <2>1, ReadDumpType
    <3> QED
      BY <2>same, <2>1, <3>1 DEF TypeOK, HasItem
  <2>2. CASE /\ match' \in BOOLEAN
             /\ task' = task + 1
             /\ UNCHANGED <<dump, pc, idx, guardLog, report, counters>>
    BY <2>same, <2>2 DEF TypeOK, HasItem
  <2>3. CASE /\ Judge(IF pc = "audit" THEN "ERROR" ELSE "FAILED-TO-FIX")
             /\ UNCHANGED dump
    <3>1. (IF pc = "audit" THEN "ERROR" ELSE "FAILED-TO-FIX") \in Statuses
      BY DEF Statuses
    <3>2. pc \in Running
      BY <2>0 DEF Running
    <3> QED
      BY <2>same, <2>0, <2>3, <3>1, <3>2, JudgeType, Zenon
         DEF TypeOK, HasItem, Running, Counters
  <2> QED
    BY <1>2, <2>1, <2>2, <2>3, Zenon DEF RunProbe
<1>3. CASE EvaluateAudit
  <2> USE <1>0
  <2>0. pc \in Running /\ idx <= Len(Rules)
    BY <1>3 DEF EvaluateAudit, TypeOK, Running
  <2>1. CASE Judge("PASS") \/ Judge("FAIL")
    <3>1. PICK st \in {"PASS", "FAIL"} : Judge(st)
      BY <2>1
    <3>2. st \in Statuses
      BY DEF Statuses
    <3> QED
      BY <1>3, <2>0, <3>1, <3>2, JudgeType, Zenon
         DEF EvaluateAudit, TypeOK, HasItem, Running, Counters
  <2>2. CASE /\ report' = Append(report, "FAIL")
             /\ Start("guard")
             /\ UNCHANGED <<idx, guardLog, counters>>
    <3>1. report' \in Seq(Statuses) /\ Len(report') = idx
      BY <1>3, <2>2 DEF EvaluateAudit, TypeOK, HasItem, Statuses
    <3> QED
      BY <1>3, <2>0, <2>2, <3>1 DEF EvaluateAudit, Start, TypeOK, HasItem, Running
  <2> QED
    BY <1>3, <2>1, <2>2 DEF EvaluateAudit
<1>4. CASE EvaluateVerify
  <2>1. pc \in Running /\ idx <= Len(Rules)
    BY <1>4 DEF EvaluateVerify, TypeOK, Running
  <2>2. (IF match THEN "FIXED" ELSE "FAILED-TO-FIX") \in Statuses
    BY DEF Statuses
  <2> QED
    BY <1>0, <1>4, <2>1, <2>2, JudgeType, Zenon
       DEF EvaluateVerify, TypeOK, HasItem, Running, Counters
<1>5. CASE EvaluatorRaises
  BY <1>0, <1>5 DEF EvaluatorRaises, TypeOK, HasItem, Running
<1>6. CASE NothingToEnforce
  <2>1. pc \in Running /\ idx <= Len(Rules) /\ "MANUAL" \in Statuses
    BY <1>6 DEF NothingToEnforce, TypeOK, Running, Statuses
  <2> QED
    BY <1>0, <1>6, <2>1, JudgeType, Zenon
       DEF NothingToEnforce, TypeOK, HasItem, Running, Counters
<1>7. CASE RunGuard
  <2>0. pc \in Running /\ idx <= Len(Rules) /\ "MANUAL" \in Statuses
    BY <1>7 DEF RunGuard, TypeOK, Running, Statuses
  <2>1. CASE Judge("MANUAL")
    BY <1>0, <1>7, <2>0, <2>1, JudgeType, Zenon
       DEF RunGuard, TypeOK, HasItem, Running, Counters
  <2>2. CASE /\ \E o \in GuardOutcomes : guardLog' = Append(guardLog, o)
             /\ task' = task + 1
             /\ UNCHANGED <<pc, idx, match, report, counters>>
    <3>1. guardLog' \in Seq(GuardOutcomes)
      BY <2>2 DEF TypeOK
    <3> QED
      BY <1>7, <2>2, <3>1 DEF RunGuard, TypeOK, HasItem
  <2> QED
    BY <1>7, <2>1, <2>2 DEF RunGuard
<1>8. CASE GuardsPassed
  BY <1>0, <1>8 DEF GuardsPassed, Start, TypeOK, HasItem, Running
<1>9. CASE RunReinforceStep
  <2>0. /\ pc \in Running
        /\ idx <= Len(Rules)
        /\ "ENFORCE-ERROR" \in Statuses
        /\ rule.steps[task] \in ReinforceStep
    <3>1. pc \in Running /\ idx <= Len(Rules) /\ "ENFORCE-ERROR" \in Statuses
      BY <1>9 DEF RunReinforceStep, TypeOK, Running, Statuses
    <3>2. task \in 1..Len(rule.steps)
      BY <1>9, <3>1, RuleShape DEF RunReinforceStep, TypeOK
    <3> QED
      BY <3>1, <3>2, RuleShape
  <2>1. sys' \in [Settings -> Values] /\ since' \in [Settings -> SUBSET Values]
    <3>1. PICK v \in Values : Written(rule.steps[task].setting, v)
      BY <1>9, <2>0, Zenon DEF RunReinforceStep, ReinforceStep, TypeOK
    <3>2. sys' \in [Settings -> Values]
      BY <3>1, Zenon DEF Written, TypeOK
    <3> QED
      BY <3>1, <3>2 DEF Written
  <2>2. CASE Judge("ENFORCE-ERROR")
    BY <1>0, <1>9, <2>0, <2>1, <2>2, JudgeType, Zenon
       DEF RunReinforceStep, TypeOK, HasItem, Running, Counters
  <2>3. CASE /\ task' = task + 1
             /\ UNCHANGED <<pc, idx, match, guardLog, report, counters>>
    <3>1. UNCHANGED <<mode, dryRun, dump, exit, drift>>
      BY <1>9 DEF RunReinforceStep
    <3> QED
      BY <2>1, <2>3, <3>1 DEF TypeOK, HasItem
  <2> QED
    BY <1>9, <2>2, <2>3 DEF RunReinforceStep
<1>10. CASE DryRunStep
  BY <1>0, <1>10 DEF DryRunStep, TypeOK, HasItem
<1>11. CASE EnforceReturns
  <2>0. pc \in Running /\ idx <= Len(Rules) /\ "DRY-RUN" \in Statuses
    BY <1>11 DEF EnforceReturns, TypeOK, Running, Statuses
  <2>1. CASE dryRun
    BY <1>0, <1>11, <2>0, <2>1, JudgeType, Zenon
       DEF EnforceReturns, TypeOK, HasItem, Running, Counters
  <2>2. CASE ~dryRun
    BY <1>0, <1>11, <2>0, <2>2
       DEF EnforceReturns, Start, TypeOK, HasItem, Running, Dumps
  <2> QED BY <2>1, <2>2
<1>12. CASE Finish
  BY <1>0, <1>12 DEF Finish, TypeOK, HasItem, Running
<1>13. CASE Drift
  <2>1. drift' \in 0..MaxDrift
    BY <1>13, DriftAssumption DEF Drift, TypeOK
  <2>2. sys' \in [Settings -> Values] /\ since' \in [Settings -> SUBSET Values]
    BY <1>13 DEF Drift, TypeOK
  <2> QED
    BY <1>13, <2>1, <2>2 DEF Drift, TypeOK, HasItem
<1>14. CASE UNCHANGED vars
  BY <1>14 DEF vars, TypeOK, HasItem
<1> QED
  BY <1>1, <1>2, <1>3, <1>4, <1>5, <1>6, <1>7, <1>8, <1>9, <1>10, <1>11,
     <1>12, <1>13, <1>14 DEF Next, Engine

(* TypeOK holds throughout every run, for every profile and host. *)
THEOREM TypeCorrect == Spec => []TypeOK
BY TypeInit, TypeStep, PTL DEF Spec

-----------------------------------------------------------------------------
(* A step either leaves the judged part of the report and the counters alone *)
(* or judges the rule in hand, with a verdict the mode of the run allows.    *)
QuietStep ==
    /\ idx' = idx
    /\ counters' = counters
    /\ \A i \in 1..(idx - 1) : report'[i] = report[i]

JudgeStep ==
    /\ pc \in Running
    /\ idx <= Len(Rules)
    /\ exit' = exit
    /\ \E st \in Statuses : Judge(st)

(* Every step leaves the report alone or judges the rule in hand. *)
LEMMA StepKinds == TypeOK /\ [Next]_vars => QuietStep \/ JudgeStep
<1> SUFFICES ASSUME TypeOK, [Next]_vars PROVE QuietStep \/ JudgeStep
  OBVIOUS
<1>0. Len(Rules) \in Nat
  BY RulesAssumption
<1>1. CASE ValidateRule
  BY <1>1 DEF ValidateRule, QuietStep, JudgeStep, Running, Statuses
<1>2. CASE RunProbe
  BY <1>2, <1>0, Zenon DEF RunProbe, QuietStep, JudgeStep, Running, Statuses, TypeOK
<1>3. CASE EvaluateAudit
  <2>1. CASE report' = Append(report, "FAIL") /\ UNCHANGED <<idx, guardLog, counters>>
    BY <1>0, <1>3, <2>1 DEF EvaluateAudit, QuietStep, TypeOK, HasItem
  <2>2. CASE Judge("PASS") \/ Judge("FAIL")
    BY <1>0, <1>3, <2>2 DEF EvaluateAudit, JudgeStep, Running, Statuses, TypeOK
  <2> QED
    BY <1>3, <2>1, <2>2 DEF EvaluateAudit
<1>4. CASE EvaluateVerify
  BY <1>4, <1>0 DEF EvaluateVerify, JudgeStep, Running, Statuses, TypeOK
<1>5. CASE EvaluatorRaises
  BY <1>5 DEF EvaluatorRaises, QuietStep
<1>6. CASE NothingToEnforce
  BY <1>6, <1>0 DEF NothingToEnforce, JudgeStep, Running, Statuses, TypeOK
<1>7. CASE RunGuard
  BY <1>7, <1>0 DEF RunGuard, QuietStep, JudgeStep, Running, Statuses, TypeOK
<1>8. CASE GuardsPassed
  BY <1>8 DEF GuardsPassed, QuietStep
<1>9. CASE RunReinforceStep
  BY <1>9, <1>0 DEF RunReinforceStep, QuietStep, JudgeStep, Running, Statuses, TypeOK
<1>10. CASE DryRunStep
  BY <1>10 DEF DryRunStep, QuietStep
<1>11. CASE EnforceReturns
  BY <1>11, <1>0 DEF EnforceReturns, QuietStep, JudgeStep, Running, Statuses, TypeOK
<1>12. CASE Finish
  BY <1>12 DEF Finish, QuietStep
<1>13. CASE Drift
  BY <1>13 DEF Drift, QuietStep
<1>14. CASE UNCHANGED vars
  BY <1>14 DEF vars, QuietStep
<1> QED
  BY <1>1, <1>2, <1>3, <1>4, <1>5, <1>6, <1>7, <1>8, <1>9, <1>10, <1>11,
     <1>12, <1>13, <1>14 DEF Next, Engine

(* A step that leaves the report alone leaves the judged rules alone. *)
LEMMA JudgedQuiet ==
    ASSUME TypeOK, QuietStep, NEW S
    PROVE  Judged(S)' = Judged(S)
BY DEF QuietStep, Judged

(* An item that is appended leaves the others where they are. *)
LEMMA AppendKeeps ==
    ASSUME NEW r \in Seq(Statuses), NEW st \in Statuses, NEW n \in Nat, n <= Len(r)
    PROVE  /\ \A i \in 1..n : Append(r, st)[i] = r[i]
           /\ Append(r, st)[Len(r) + 1] = st
OBVIOUS

(* Judging writes the item of the rule in hand and no other. *)
LEMMA JudgeReport ==
    ASSUME TypeOK, pc \in Running, idx <= Len(Rules), NEW st \in Statuses, Judge(st)
    PROVE  /\ idx \in Nat \ {0} /\ idx' = idx + 1
           /\ report'[idx] = st
           /\ \A i \in 1..(idx - 1) : report'[i] = report[i]
<1>1. /\ idx \in Nat \ {0} /\ report \in Seq(Statuses)
      /\ Len(report) = IF HasItem THEN idx ELSE idx - 1
  BY Position
<1>2. idx' = idx + 1
  BY DEF Judge
<1>3. CASE HasItem
  <2>1. report' = [report EXCEPT ![idx] = st]
    BY <1>3 DEF Judge
  <2> QED
    BY <1>1, <1>2, <1>3, <2>1
<1>4. CASE ~HasItem
  <2>1. report' = Append(report, st) /\ Len(report) = idx - 1
    BY <1>1, <1>4 DEF Judge
  <2>2. idx - 1 \in Nat /\ idx - 1 <= Len(report) /\ Len(report) + 1 = idx
    BY <1>1, <2>1
  <2> QED
    BY <1>1, <1>2, <2>1, <2>2, AppendKeeps
<1> QED
  BY <1>3, <1>4

(* Judging adds one rule to those with its status, and none to the others. *)
LEMMA JudgedGrows ==
    ASSUME TypeOK, pc \in Running, idx <= Len(Rules), NEW S,
           NEW st \in Statuses, Judge(st)
    PROVE  Judged(S)' = IF st \in S THEN Judged(S) \cup {idx} ELSE Judged(S)
<1>1. /\ idx \in Nat \ {0}
      /\ idx' = idx + 1
      /\ report'[idx] = st
      /\ \A i \in 1..(idx - 1) : report'[i] = report[i]
  BY JudgeReport
<1>2. 1..(idx' - 1) = (1..(idx - 1)) \cup {idx}
  BY <1>1
<1> QED
  BY <1>1, <1>2 DEF Judged

-----------------------------------------------------------------------------
(* While the run has neither failed a rule nor seen the host drift, what the  *)
(* current audit has read so far is true of the host, and so is a kept dump,  *)
(* except between an enforcer's write and the end of rule_executor.enforce.   *)
Clean == counters["hard_failures"] = 0 /\ drift = 0

Enforcing == pc = "reinforce" /\ ~dryRun

AuditIsTrue ==
    (pc \in {"audit", "verify"} /\ match) =>
        \A p \in 1..Len(rule.probes) :
            p < task => sys[rule.probes[p].setting] = rule.probes[p].want

DumpIsTrue == ~Enforcing => dump \in {NoDump, FailedDump, DumpOf(sys)}

VerdictsAreTrue == \A i \in Judged({"PASS", "FIXED"}) : Compliant(i)

CleanInv ==
    /\ Clean => AuditIsTrue /\ DumpIsTrue /\ VerdictsAreTrue
    /\ exit = 0 => counters["hard_failures"] = 0

(* Judging a rule leaves every verdict true, if the new one is. *)
LEMMA CleanJudge ==
    ASSUME TypeOK, CleanInv, pc \in Running, idx <= Len(Rules), ~Enforcing,
           UNCHANGED <<sys, dump, exit, drift>>,
           NEW st \in Statuses, Judge(st),
           Clean /\ st \in {"PASS", "FIXED"} => Compliant(idx)
    PROVE  CleanInv'
<1>1. counters'["hard_failures"] = 0 => counters["hard_failures"] = 0
  BY CounterOfStatus DEF Judge, TypeOK, Counters
<1>2. Clean' => Clean
  BY <1>1 DEF Clean
<1>3. Clean' => VerdictsAreTrue'
  <2> SUFFICES ASSUME Clean', NEW i \in Judged({"PASS", "FIXED"})'
               PROVE  Compliant(i)'
    BY DEF VerdictsAreTrue
  <2> DEFINE S == {"PASS", "FIXED"}
  <2>0. Judged(S)' = IF st \in S THEN Judged(S) \cup {idx} ELSE Judged(S)
    BY JudgedGrows, Zenon
  <2>1. i \in Judged({"PASS", "FIXED"}) \/ (i = idx /\ st \in {"PASS", "FIXED"})
    BY <2>0
  <2>2. Compliant(i)
    BY <1>2, <2>1 DEF CleanInv, VerdictsAreTrue
  <2> QED
    BY <2>2 DEF Compliant
<1>4. Clean' => AuditIsTrue' /\ DumpIsTrue'
  <2>1. pc' = "next"
    BY DEF Judge
  <2> QED
    BY <1>2, <2>1 DEF CleanInv, AuditIsTrue, DumpIsTrue, Enforcing, DumpOf
<1>5. exit' = -1
  BY DEF TypeOK
<1> QED
  BY <1>3, <1>4, <1>5 DEF CleanInv

(* A step that judges nothing and writes nothing keeps the verdicts true. *)
LEMMA CleanQuiet ==
    ASSUME TypeOK, CleanInv, QuietStep, UNCHANGED <<sys, drift>>,
           Clean => AuditIsTrue' /\ DumpIsTrue',
           exit' = 0 => counters["hard_failures"] = 0
    PROVE  CleanInv'
<1>1. counters' = counters /\ (Clean' <=> Clean)
  BY DEF QuietStep, Clean
<1>2. Clean => VerdictsAreTrue'
  BY JudgedQuiet DEF CleanInv, VerdictsAreTrue, Compliant
<1> QED
  BY <1>1, <1>2 DEF CleanInv

(* When every probe of the rule in hand has been read, `match` is the truth. *)
LEMMA AuditDone ==
    ASSUME TypeOK, AuditIsTrue, pc \in {"audit", "verify"}, match,
           idx <= Len(Rules), task > Len(rule.probes)
    PROVE  Compliant(idx)
<1>1. Len(rule.probes) \in Nat /\ task \in Nat
  BY RuleShape, Position
<1>2. \A p \in 1..Len(rule.probes) : p < task
  BY <1>1
<1>3. \A p \in 1..Len(rule.probes) : sys[rule.probes[p].setting] = rule.probes[p].want
  BY <1>2 DEF AuditIsTrue
<1> QED
  BY <1>3 DEF Compliant, rule

(* Every step keeps what has been read and judged true of the host. *)
LEMMA CleanStep == TypeOK /\ CleanInv /\ [Next]_vars => CleanInv'
<1> SUFFICES ASSUME TypeOK, CleanInv, [Next]_vars PROVE CleanInv'
  OBVIOUS
<1>0. /\ Len(Rules) \in Nat
      /\ pc \in Running \ {"next"} => idx <= Len(Rules)
      /\ exit = -1 <=> pc \in Running
  BY RulesAssumption DEF TypeOK
<1>1. CASE ValidateRule
  <2>1. CASE Judge("ERROR")
    <3>1. pc \in Running /\ idx <= Len(Rules) /\ ~Enforcing /\ "ERROR" \in Statuses
      BY <1>1 DEF ValidateRule, Running, Enforcing, Statuses
    <3> QED
      BY <1>1, <2>1, <3>1, CleanJudge DEF ValidateRule
  <2>2. CASE Start("audit") /\ UNCHANGED <<idx, guardLog, report, counters>>
    <3>1. UNCHANGED <<sys, drift, exit, dump>> /\ pc = "next" /\ pc' = "audit" /\ task' = 1
      BY <1>1, <2>2 DEF ValidateRule, Start
    <3>2. QuietStep
      BY <2>2 DEF QuietStep
    <3>3. AuditIsTrue'
      BY <3>1 DEF AuditIsTrue
    <3>4. Clean => DumpIsTrue'
      BY <3>1 DEF CleanInv, DumpIsTrue, Enforcing, DumpOf
    <3> QED
      BY <3>1, <3>2, <3>3, <3>4, CleanQuiet DEF CleanInv
  <2> QED
    BY <1>1, <2>1, <2>2 DEF ValidateRule
<1>2. CASE RunProbe
  <2>0. /\ pc \in {"audit", "verify"} /\ pc \in Running /\ idx <= Len(Rules)
        /\ ~Enforcing
        /\ UNCHANGED <<mode, dryRun, sys, exit, drift, since>>
        /\ task \in 1..Len(rule.probes)
    <3>1. pc \in {"audit", "verify"} /\ task <= Len(rule.probes)
          /\ UNCHANGED <<mode, dryRun, sys, exit, drift, since>>
      BY <1>2 DEF RunProbe
    <3>2. pc \in Running /\ ~Enforcing /\ idx <= Len(Rules)
      BY <1>0, <3>1 DEF Running, Enforcing
    <3>3. Len(rule.probes) \in Nat
      BY <3>2, RuleShape
    <3>4. task \in Nat \ {0}
      BY DEF TypeOK
    <3> QED
      BY <3>1, <3>2, <3>3, <3>4
  <2> DEFINE probe == rule.probes[task]
  <2>1. CASE Judge(IF pc = "audit" THEN "ERROR" ELSE "FAILED-TO-FIX") /\ UNCHANGED dump
    <3>1. PICK st \in {"ERROR", "FAILED-TO-FIX"} : Judge(st)
      BY <2>1
    <3>2. st \in Statuses /\ st \notin {"PASS", "FIXED"}
      BY DEF Statuses
    <3> QED
      BY <2>0, <2>1, <3>1, <3>2, CleanJudge
  <2>2. CASE /\ \E d \in ReadEffectiveDump :
                 /\ dump' = d
                 /\ match' = (match /\ d # FailedDump
                                    /\ d.values[probe.setting] = probe.want)
             /\ task' = task + 1
             /\ UNCHANGED <<pc, idx, guardLog, report, counters>>
    <3>1. QuietStep
      BY <2>2 DEF QuietStep
    <3>2. ASSUME Clean PROVE dump' \in {FailedDump, DumpOf(sys)}
      BY <2>0, <2>2, <3>2 DEF CleanInv, DumpIsTrue, ReadEffectiveDump
    <3>3. DumpOf(sys).values = sys
      BY DEF DumpOf
    <3>4. ASSUME Clean, match' PROVE match /\ sys[probe.setting] = probe.want
      BY <2>2, <3>2, <3>3, <3>4, Zenon
    <3>5. ASSUME Clean PROVE AuditIsTrue'
      <4> SUFFICES ASSUME match', NEW p \in 1..Len(rule.probes), p < task + 1
                   PROVE  sys[rule.probes[p].setting] = rule.probes[p].want
        BY <2>0, <2>2, Zenon DEF AuditIsTrue, rule
      <4>1. p < task \/ p = task
        BY <2>0, RuleShape
      <4>2. AuditIsTrue /\ match
        BY <3>4, <3>5 DEF CleanInv
      <4> QED
        BY <2>0, <3>4, <3>5, <4>1, <4>2 DEF AuditIsTrue
    <3>6. ASSUME Clean PROVE DumpIsTrue'
      BY <2>0, <3>2, <3>6 DEF DumpIsTrue, DumpOf
    <3> QED
      BY <2>0, <3>1, <3>5, <3>6, CleanQuiet DEF CleanInv
  <2>3. CASE /\ match' = (match /\ sys[probe.setting] = probe.want)
             /\ task' = task + 1
             /\ UNCHANGED <<dump, pc, idx, guardLog, report, counters>>
    <3>1. QuietStep
      BY <2>3 DEF QuietStep
    <3>2. ASSUME Clean PROVE AuditIsTrue'
      <4> SUFFICES ASSUME match', NEW p \in 1..Len(rule.probes), p < task + 1
                   PROVE  sys[rule.probes[p].setting] = rule.probes[p].want
        BY <2>0, <2>3 DEF AuditIsTrue, rule
      <4>1. p < task \/ p = task
        BY <2>0, RuleShape
      <4>2. AuditIsTrue /\ match
        BY <2>3, <3>2, Zenon DEF CleanInv
      <4> QED
        BY <2>0, <2>3, <4>1, <4>2, Zenon DEF AuditIsTrue
    <3>3. ASSUME Clean PROVE DumpIsTrue'
      BY <2>0, <2>3, <3>3 DEF CleanInv, DumpIsTrue, Enforcing, DumpOf
    <3> QED
      BY <2>0, <3>1, <3>2, <3>3, CleanQuiet DEF CleanInv
  <2> QED
    BY <1>2, <2>1, <2>2, <2>3 DEF RunProbe
<1>3. CASE EvaluateAudit
  <2>0. /\ pc = "audit" /\ pc \in Running /\ idx <= Len(Rules)
        /\ ~Enforcing
        /\ UNCHANGED <<mode, dryRun, sys, dump, exit, drift, since>>
        /\ task > Len(rule.probes)
    BY <1>0, <1>3 DEF EvaluateAudit, Running, Enforcing
  <2>1. CASE match /\ Judge("PASS")
    <3>1. Clean => Compliant(idx)
      BY <2>0, <2>1, AuditDone DEF CleanInv
    <3>2. "PASS" \in Statuses
      BY DEF Statuses
    <3> QED
      BY <2>0, <2>1, <3>1, <3>2, CleanJudge
  <2>2. CASE Judge("FAIL")
    <3>1. "FAIL" \in Statuses
      BY DEF Statuses
    <3> QED
      BY <2>0, <2>2, <3>1, CleanJudge
  <2>3. CASE /\ report' = Append(report, "FAIL")
             /\ Start("guard")
             /\ UNCHANGED <<idx, guardLog, counters>>
    <3>1. QuietStep
      BY <1>0, <2>0, <2>3 DEF QuietStep, TypeOK, HasItem
    <3>2. pc' = "guard"
      BY <2>3 DEF Start
    <3>3. Clean => AuditIsTrue' /\ DumpIsTrue'
      BY <2>0, <3>2 DEF CleanInv, AuditIsTrue, DumpIsTrue, Enforcing, DumpOf
    <3> QED
      BY <2>0, <3>1, <3>3, CleanQuiet DEF CleanInv
  <2> QED
    BY <1>3, <2>1, <2>2, <2>3 DEF EvaluateAudit
<1>4. CASE EvaluateVerify
  <2>0. /\ pc = "verify" /\ pc \in Running /\ idx <= Len(Rules)
        /\ ~Enforcing
        /\ UNCHANGED <<mode, dryRun, sys, dump, exit, drift, since>>
        /\ task > Len(rule.probes)
    BY <1>0, <1>4 DEF EvaluateVerify, Running, Enforcing
  <2>1. CASE match
    <3>1. Clean => Compliant(idx)
      BY <2>0, <2>1, AuditDone DEF CleanInv
    <3>2. "FIXED" \in Statuses /\ Judge("FIXED")
      BY <1>4, <2>1 DEF Statuses, EvaluateVerify
    <3> QED
      BY <2>0, <3>1, <3>2, CleanJudge
  <2>2. CASE ~match
    <3>1. "FAILED-TO-FIX" \in Statuses /\ Judge("FAILED-TO-FIX")
      BY <1>4, <2>2 DEF Statuses, EvaluateVerify
    <3> QED
      BY <2>0, <3>1, CleanJudge
  <2> QED BY <2>1, <2>2
<1>5. CASE EvaluatorRaises
  <2>1. QuietStep /\ UNCHANGED <<sys, drift, dump, dryRun>> /\ exit' = 1 /\ pc' = "aborted" /\ ~Enforcing
    BY <1>5 DEF EvaluatorRaises, QuietStep, Enforcing
  <2>2. Clean => AuditIsTrue' /\ DumpIsTrue'
    BY <2>1 DEF CleanInv, AuditIsTrue, DumpIsTrue, Enforcing, DumpOf
  <2> QED
    BY <2>1, <2>2, CleanQuiet
<1>6. CASE NothingToEnforce
  <2>1. pc \in Running /\ idx <= Len(Rules) /\ ~Enforcing /\ "MANUAL" \in Statuses
    BY <1>0, <1>6 DEF NothingToEnforce, Running, Enforcing, Statuses
  <2> QED
    BY <1>6, <2>1, CleanJudge DEF NothingToEnforce
<1>7. CASE RunGuard
  <2>1. /\ pc = "guard" /\ pc \in Running /\ idx <= Len(Rules) /\ ~Enforcing
        /\ "MANUAL" \in Statuses
        /\ UNCHANGED <<mode, dryRun, sys, dump, exit, drift, since>>
    BY <1>0, <1>7 DEF RunGuard, Running, Enforcing, Statuses
  <2>2. CASE Judge("MANUAL")
    BY <2>1, <2>2, CleanJudge
  <2>3. CASE UNCHANGED <<pc, idx, match, report, counters>>
    <3>1. QuietStep
      BY <2>3 DEF QuietStep
    <3>2. Clean => AuditIsTrue' /\ DumpIsTrue'
      BY <2>1, <2>3 DEF CleanInv, AuditIsTrue, DumpIsTrue, Enforcing, DumpOf
    <3> QED
      BY <2>1, <3>1, <3>2, CleanQuiet DEF CleanInv
  <2> QED
    BY <1>7, <2>2, <2>3 DEF RunGuard
<1>8. CASE GuardsPassed
  <2>1. /\ QuietStep /\ UNCHANGED <<sys, drift, dump, dryRun, exit>>
        /\ pc = "guard" /\ pc' = "reinforce"
    BY <1>8 DEF GuardsPassed, Start, QuietStep
  <2>2. Clean => AuditIsTrue' /\ DumpIsTrue'
    BY <2>1 DEF CleanInv, AuditIsTrue, DumpIsTrue, Enforcing, DumpOf
  <2> QED
    BY <2>1, <2>2, CleanQuiet DEF CleanInv
<1>9. CASE RunReinforceStep
  <2>0. /\ pc = "reinforce" /\ ~dryRun /\ idx <= Len(Rules)
        /\ exit = -1
        /\ UNCHANGED <<mode, dryRun, dump, exit, drift>>
        /\ task \in 1..Len(rule.steps)
    <3>1. pc = "reinforce" /\ ~dryRun /\ task <= Len(rule.steps)
          /\ UNCHANGED <<mode, dryRun, dump, exit, drift>>
      BY <1>9 DEF RunReinforceStep
    <3>2. exit = -1 /\ idx <= Len(Rules)
      BY <1>0, <3>1 DEF Running
    <3>3. Len(rule.steps) \in Nat
      BY <3>2, RuleShape
    <3>4. task \in Nat \ {0}
      BY DEF TypeOK
    <3> QED
      BY <3>1, <3>2, <3>3, <3>4
  <2> DEFINE st == rule.steps[task]
  <2>1. CASE Judge("ENFORCE-ERROR")
    <3>1. counters'["hard_failures"] # 0
      BY <2>1 DEF Judge, CounterOf, TypeOK
    <3> QED
      BY <2>0, <3>1 DEF CleanInv, Clean
  <2>2. CASE /\ \E v \in {sys[st.setting], st.value} : Written(st.setting, v)
             /\ UNCHANGED <<pc, idx, match, guardLog, report, counters>>
    <3>1. QuietStep
      BY <2>2 DEF QuietStep
    <3>2. \A i \in Judged({"PASS", "FIXED"}) : Compliant(i) => Compliant(i)'
      <4> SUFFICES ASSUME NEW i \in Judged({"PASS", "FIXED"}), Compliant(i),
                          NEW p \in 1..Len(Rules[i].probes)
                   PROVE  sys'[Rules[i].probes[p].setting] = Rules[i].probes[p].want
        BY DEF Compliant
      <4>1. i \in 1..Len(Rules)
        BY <1>0, <2>0 DEF Judged, TypeOK
      <4>2. Rules[i].probes[p].setting = st.setting => Rules[i].probes[p].want = st.value
        <5>1. idx \in 1..Len(Rules)
          BY <1>0, <2>0 DEF TypeOK
        <5>2. task \in 1..Len(Rules[idx].steps) /\ st = Rules[idx].steps[task]
          BY <2>0 DEF rule
        <5>3. \A s \in 1..Len(Rules[idx].steps) :
                Rules[i].probes[p].setting = Rules[idx].steps[s].setting
                  => Rules[i].probes[p].want = Rules[idx].steps[s].value
          BY <4>1, <5>1, NoConflictAssumption, Zenon
        <5> QED
          BY <5>2, <5>3
      <4>3. sys[Rules[i].probes[p].setting] = Rules[i].probes[p].want
        BY DEF Compliant
      <4>4. PICK v \in {sys[st.setting], st.value} : sys' = [sys EXCEPT ![st.setting] = v]
        BY <2>2, Zenon DEF Written
      <4>5. Rules[i].probes[p].setting \in Settings /\ sys \in [Settings -> Values]
        <5>0. Rules[i].probes \in Seq(ProbeTask)
          <6>1. Rules[i] \in Rule
            BY <4>1, RulesAssumption
          <6> QED
            BY <6>1 DEF Rule
        <5>1. Rules[i].probes[p] \in ProbeTask
          BY <5>0
        <5> QED
          BY <5>1, Zenon DEF ProbeTask, TypeOK
      <4> QED
        BY <4>2, <4>3, <4>4, <4>5
    <3>3. Clean => VerdictsAreTrue'
      <4>1. Judged({"PASS", "FIXED"})' = Judged({"PASS", "FIXED"})
        BY <3>1, JudgedQuiet
      <4> QED
        BY <3>2, <4>1 DEF CleanInv, VerdictsAreTrue
    <3>4. (Clean' => Clean) /\ AuditIsTrue' /\ DumpIsTrue'
      BY <2>0, <2>2 DEF Clean, AuditIsTrue, DumpIsTrue, Enforcing
    <3> QED
      BY <2>0, <3>3, <3>4 DEF CleanInv
  <2> QED
    BY <1>9, <2>1, <2>2 DEF RunReinforceStep
<1>10. CASE DryRunStep
  <2>1. QuietStep /\ UNCHANGED <<sys, drift, dump, dryRun, exit, pc>> /\ pc = "reinforce"
    BY <1>10 DEF DryRunStep, QuietStep
  <2>2. Clean => AuditIsTrue' /\ DumpIsTrue'
    BY <2>1 DEF CleanInv, AuditIsTrue, DumpIsTrue, Enforcing, DumpOf
  <2> QED
    BY <2>1, <2>2, CleanQuiet DEF CleanInv
<1>11. CASE EnforceReturns
  <2>0. /\ pc = "reinforce" /\ pc \in Running /\ idx <= Len(Rules)
        /\ UNCHANGED <<mode, dryRun, sys, exit, drift, since>>
        /\ "DRY-RUN" \in Statuses
    BY <1>0, <1>11 DEF EnforceReturns, Running, Statuses
  <2>1. CASE dryRun
    <3>1. Judge("DRY-RUN") /\ UNCHANGED dump /\ ~Enforcing
      BY <1>11, <2>1 DEF EnforceReturns, Enforcing
    <3> QED
      BY <2>0, <3>1, CleanJudge
  <2>2. CASE ~dryRun
    <3>1. /\ dump' = NoDump /\ pc' = "verify" /\ task' = 1
          /\ UNCHANGED <<idx, guardLog, report, counters>>
      BY <1>11, <2>2 DEF EnforceReturns, Start
    <3>2. QuietStep
      BY <3>1 DEF QuietStep
    <3>3. AuditIsTrue' /\ DumpIsTrue'
      BY <3>1 DEF AuditIsTrue, DumpIsTrue
    <3> QED
      BY <2>0, <3>2, <3>3, CleanQuiet DEF CleanInv
  <2> QED BY <2>1, <2>2
<1>12. CASE Finish
  <2>1. /\ QuietStep /\ UNCHANGED <<sys, drift, dump, dryRun>>
        /\ pc = "next" /\ pc' = "done"
        /\ exit' = 0 => counters["hard_failures"] = 0
    BY <1>12 DEF Finish, QuietStep
  <2>2. Clean => AuditIsTrue' /\ DumpIsTrue'
    BY <2>1 DEF CleanInv, AuditIsTrue, DumpIsTrue, Enforcing, DumpOf
  <2> QED
    BY <2>1, <2>2, CleanQuiet
<1>13. CASE Drift
  <2>1. drift' # 0 /\ UNCHANGED <<exit, counters>>
    BY <1>13, DriftAssumption DEF Drift, TypeOK
  <2> QED
    BY <2>1 DEF CleanInv, Clean
<1>14. CASE UNCHANGED vars
  <2>1. UNCHANGED <<sys, dump, pc, idx, task, match, report, counters, exit, drift, dryRun>>
    BY <1>14 DEF vars
  <2>2. Clean' = Clean /\ AuditIsTrue' = AuditIsTrue /\ DumpIsTrue' = DumpIsTrue
    BY <2>1 DEF Clean, AuditIsTrue, DumpIsTrue, Enforcing, rule, DumpOf
  <2>3. VerdictsAreTrue' = VerdictsAreTrue
    BY <2>1 DEF VerdictsAreTrue, Judged, Compliant
  <2> QED
    BY <2>1, <2>2, <2>3 DEF CleanInv
<1> QED
  BY <1>1, <1>2, <1>3, <1>4, <1>5, <1>6, <1>7, <1>8, <1>9, <1>10, <1>11,
     <1>12, <1>13, <1>14 DEF Next, Engine

(* Exit code 0 means that every rule reported PASS or FIXED holds on the host *)
(* when engine.run returns, whatever the profile, if nothing else changed it. *)
THEOREM ExitZeroCorrect == Spec => []ExitZeroMeansCompliant
<1>1. Init => CleanInv
  <2> SUFFICES ASSUME Init PROVE CleanInv
    OBVIOUS
  <2>1. pc = "next" /\ dump = NoDump /\ exit = -1 /\ idx = 1
    BY DEF Init
  <2>2. AuditIsTrue /\ DumpIsTrue
    BY <2>1 DEF AuditIsTrue, DumpIsTrue
  <2>3. VerdictsAreTrue
    BY <2>1 DEF VerdictsAreTrue, Judged
  <2> QED
    BY <2>1, <2>2, <2>3 DEF CleanInv
<1>2. TypeOK /\ CleanInv /\ [Next]_vars => CleanInv'
  BY CleanStep
<1>3. CleanInv => ExitZeroMeansCompliant
  BY DEF CleanInv, Clean, VerdictsAreTrue, ExitZeroMeansCompliant
<1> QED
  BY <1>1, <1>2, <1>3, TypeCorrect, PTL DEF Spec

-----------------------------------------------------------------------------
(* The guards of the rule in hand, one log entry for each that has run, none  *)
(* of which asked to skip the rule; the item of the rule waits as FAIL.       *)
GuardInv ==
    /\ pc \in {"next", "audit"} => guardLog = <<>>
    /\ pc = "guard" => Len(guardLog) = task - 1 /\ task <= rule.guards + 1
    /\ pc = "reinforce" => Len(guardLog) = rule.guards
    /\ pc \in {"guard", "reinforce"} =>
          /\ report[idx] = "FAIL"
          /\ \A g \in 1..Len(guardLog) : ~GuardSkips(guardLog[g])

(* Judging a rule forgets its guards. *)
LEMMA GuardsJudged == ASSUME NEW st, Judge(st) PROVE GuardInv'
BY DEF Judge, GuardInv

(* A guard that lets the rule through is logged after the others. *)
LEMMA GuardLogged ==
    ASSUME NEW log \in Seq(GuardOutcomes), NEW outcome \in GuardOutcomes,
           ~GuardSkips(outcome),
           \A g \in 1..Len(log) : ~GuardSkips(log[g])
    PROVE  /\ Len(Append(log, outcome)) = Len(log) + 1
           /\ \A g \in 1..Len(Append(log, outcome)) : ~GuardSkips(Append(log, outcome)[g])
<1>1. /\ Len(Append(log, outcome)) = Len(log) + 1
      /\ \A g \in 1..Len(log) : Append(log, outcome)[g] = log[g]
      /\ Append(log, outcome)[Len(log) + 1] = outcome
  OBVIOUS
<1>2. Len(log) \in Nat
  OBVIOUS
<1>3. \A g \in 1..(Len(log) + 1) : g \in 1..Len(log) \/ g = Len(log) + 1
  BY <1>2
<1> QED
  BY <1>1, <1>3, Zenon

(* Every step keeps the log of the guards complete. *)
LEMMA GuardStep == TypeOK /\ GuardInv /\ [Next]_vars => GuardInv'
<1> SUFFICES ASSUME TypeOK, GuardInv, [Next]_vars PROVE GuardInv'
  OBVIOUS
<1>1. CASE ValidateRule
  <2>1. CASE Start("audit") /\ UNCHANGED guardLog
    BY <1>1, <2>1 DEF ValidateRule, Start, GuardInv
  <2> QED
    BY <1>1, <2>1, GuardsJudged DEF ValidateRule
<1>2. CASE RunProbe
  <2>1. CASE UNCHANGED <<pc, guardLog>>
    BY <1>2, <2>1 DEF RunProbe, GuardInv
  <2> QED
    BY <1>2, <2>1, GuardsJudged, Zenon DEF RunProbe
<1>3. CASE EvaluateAudit
  <2>1. CASE report' = Append(report, "FAIL") /\ Start("guard") /\ UNCHANGED <<idx, guardLog>>
    <3>1. /\ report \in Seq(Statuses) /\ Len(report) = idx - 1 /\ idx \in Nat \ {0}
          /\ idx <= Len(Rules) /\ "FAIL" \in Statuses
      BY <1>3, Position DEF EvaluateAudit, Running, HasItem, Statuses
    <3>2. report'[idx] = "FAIL"
      BY <2>1, <3>1, AppendKeeps
    <3>3. guardLog' = <<>> /\ task' = 1 /\ pc' = "guard"
      BY <1>3, <2>1 DEF EvaluateAudit, Start, GuardInv
    <3>4. rule' = rule /\ rule.guards \in Nat
      BY <2>1, <3>1, RuleShape DEF rule
    <3>5. Len(guardLog') = task' - 1 /\ task' <= rule'.guards + 1
      BY <3>3, <3>4
    <3>6. 1..Len(guardLog') = {}
      BY <3>3
    <3> QED
      BY <2>1, <3>2, <3>3, <3>5, <3>6 DEF GuardInv
  <2> QED
    BY <1>3, <2>1, GuardsJudged DEF EvaluateAudit
<1>4. CASE EvaluateVerify
  BY <1>4, GuardsJudged DEF EvaluateVerify
<1>5. CASE EvaluatorRaises
  BY <1>5 DEF EvaluatorRaises, GuardInv
<1>6. CASE NothingToEnforce
  BY <1>6, GuardsJudged DEF NothingToEnforce
<1>7. CASE RunGuard
  <2>1. PICK outcome \in GuardOutcomes :
          IF GuardSkips(outcome)
          THEN Judge("MANUAL")
          ELSE /\ guardLog' = Append(guardLog, outcome)
               /\ task' = task + 1
               /\ UNCHANGED <<pc, idx, match, report, counters>>
    BY <1>7 DEF RunGuard
  <2>2. CASE GuardSkips(outcome)
    BY <2>1, <2>2, GuardsJudged
  <2>3. CASE ~GuardSkips(outcome)
    <3>1. /\ pc = "guard" /\ task <= rule.guards
          /\ guardLog' = Append(guardLog, outcome)
          /\ task' = task + 1
          /\ pc' = pc /\ report' = report /\ idx' = idx /\ rule' = rule
      BY <1>7, <2>1, <2>3 DEF RunGuard, rule
    <3>2. /\ Len(guardLog) = task - 1 /\ report[idx] = "FAIL"
          /\ \A g \in 1..Len(guardLog) : ~GuardSkips(guardLog[g])
      BY <3>1 DEF GuardInv
    <3>3. guardLog \in Seq(GuardOutcomes)
      BY DEF TypeOK
    <3>4. /\ Len(guardLog') = Len(guardLog) + 1
          /\ \A g \in 1..Len(guardLog') : ~GuardSkips(guardLog'[g])
      BY <2>3, <3>1, <3>2, <3>3, GuardLogged
    <3>5. task \in Nat /\ rule.guards \in Nat
      BY <3>1, Position, RuleShape DEF Running
    <3>6. Len(guardLog') = task' - 1 /\ task' <= rule.guards + 1
      BY <3>1, <3>2, <3>4, <3>5
    <3> QED
      BY <3>1, <3>2, <3>4, <3>6 DEF GuardInv
  <2> QED
    BY <2>2, <2>3
<1>8. CASE GuardsPassed
  <2>1. task \in Nat /\ rule.guards \in Nat
    BY <1>8, Position, RuleShape DEF GuardsPassed, Running
  <2>2. Len(guardLog) = rule.guards
    BY <1>8, <2>1 DEF GuardsPassed, GuardInv
  <2> QED
    BY <1>8, <2>2 DEF GuardsPassed, Start, GuardInv, rule
<1>9. CASE RunReinforceStep
  <2>1. CASE UNCHANGED <<pc, idx, guardLog, report>>
    BY <1>9, <2>1 DEF RunReinforceStep, GuardInv, rule
  <2> QED
    BY <1>9, <2>1, GuardsJudged, Zenon DEF RunReinforceStep
<1>10. CASE DryRunStep
  BY <1>10 DEF DryRunStep, GuardInv, rule
<1>11. CASE EnforceReturns
  <2>1. CASE Start("verify")
    BY <2>1 DEF Start, GuardInv
  <2> QED
    BY <1>11, <2>1, GuardsJudged DEF EnforceReturns
<1>12. CASE Finish
  BY <1>12 DEF Finish, GuardInv
<1>13. CASE Drift
  BY <1>13 DEF Drift, GuardInv, rule
<1>14. CASE UNCHANGED vars
  BY <1>14 DEF vars, GuardInv, rule
<1> QED
  BY <1>1, <1>2, <1>3, <1>4, <1>5, <1>6, <1>7, <1>8, <1>9, <1>10, <1>11,
     <1>12, <1>13, <1>14 DEF Next, Engine

(* No enforcer runs before every guard of its rule let the rule through, and  *)
(* none runs for a rule whose audit did not fail, for every profile and host. *)
THEOREM GuardsCorrect == Spec => []GuardsRunFirst
<1>1. Init => GuardInv
  BY DEF Init, GuardInv
<1>2. GuardInv => GuardsRunFirst
  BY DEF GuardInv, GuardsRunFirst
<1> QED
  BY <1>1, <1>2, GuardStep, TypeCorrect, PTL DEF Spec

-----------------------------------------------------------------------------
(* Until an enforcer fails, a kept dump holds values that the settings had    *)
(* since the last write of an enforcer, except between that write and the end *)
(* of rule_executor.enforce; so does what the audit in hand has read so far.  *)
NoEnforceError == Judged({"ENFORCE-ERROR"}) = {}

SinceHasNow == \A s \in Settings : sys[s] \in since[s]

DumpIsFresh ==
    (dump.state = "ok" /\ ~Enforcing) => \A s \in Settings : dump.values[s] \in since[s]

AuditIsFresh ==
    (pc \in {"audit", "verify"} /\ match) =>
        \A p \in 1..Len(rule.probes) :
            p < task => rule.probes[p].want \in since[rule.probes[p].setting]

FreshInv == SinceHasNow /\ (NoEnforceError => DumpIsFresh /\ AuditIsFresh)

(* Judging a rule drops no value that the run relies on. *)
LEMMA FreshJudge ==
    ASSUME TypeOK, FreshInv, pc \in Running, idx <= Len(Rules), ~Enforcing,
           UNCHANGED <<sys, dump, since, dryRun>>, NEW st \in Statuses, Judge(st)
    PROVE  FreshInv'
<1> DEFINE S == {"ENFORCE-ERROR"}
<1>1. Judged(S)' = IF st \in S THEN Judged(S) \cup {idx} ELSE Judged(S)
  BY JudgedGrows, Zenon
<1>2. NoEnforceError' => NoEnforceError
  BY <1>1 DEF NoEnforceError
<1>3. pc' = "next"
  BY DEF Judge
<1> QED
  BY <1>2, <1>3 DEF FreshInv, SinceHasNow, DumpIsFresh, AuditIsFresh, Enforcing

(* A failed enforcer is on the report from then on. *)
LEMMA FreshError ==
    ASSUME TypeOK, pc \in Running, idx <= Len(Rules), SinceHasNow', Judge("ENFORCE-ERROR")
    PROVE  FreshInv'
<1> DEFINE S == {"ENFORCE-ERROR"}
<1>0. "ENFORCE-ERROR" \in Statuses
  BY DEF Statuses
<1>1. Judged(S)' = IF "ENFORCE-ERROR" \in S THEN Judged(S) \cup {idx} ELSE Judged(S)
  BY <1>0, JudgedGrows, Zenon
<1>2. ~NoEnforceError'
  BY <1>1 DEF NoEnforceError
<1> QED
  BY <1>2 DEF FreshInv

(* A step that judges nothing keeps FreshInv if it keeps its parts. *)
LEMMA FreshQuiet ==
    ASSUME TypeOK, FreshInv, QuietStep, SinceHasNow',
           DumpIsFresh /\ AuditIsFresh => DumpIsFresh' /\ AuditIsFresh'
    PROVE  FreshInv'
<1> DEFINE S == {"ENFORCE-ERROR"}
<1>1. Judged(S)' = Judged(S)
  BY JudgedQuiet, Zenon
<1> QED
  BY <1>1 DEF FreshInv, NoEnforceError

(* What a dump that was read holds is fresh, when a kept dump is. *)
LEMMA ReadDumpFresh ==
    ASSUME TypeOK, SinceHasNow, DumpIsFresh, ~Enforcing,
           NEW d \in ReadEffectiveDump, d # FailedDump, NEW s \in Settings
    PROVE  d.values[s] \in since[s]
<1>1. CASE dump # NoDump
  <2>1. d = dump
    BY <1>1 DEF ReadEffectiveDump
  <2>2. PICK f \in [Settings -> Values] : dump = DumpOf(f)
    BY <1>1, <2>1 DEF TypeOK, Dumps
  <2>3. dump.state = "ok"
    BY <2>2 DEF DumpOf
  <2> QED
    BY <2>1, <2>3 DEF DumpIsFresh
<1>2. CASE dump = NoDump
  <2>1. d = DumpOf(sys)
    BY <1>2 DEF ReadEffectiveDump
  <2> QED
    BY <2>1 DEF DumpOf, SinceHasNow
<1> QED
  BY <1>1, <1>2

(* The dump a probe leaves is the one it read. *)
LEMMA ReadDumpKept ==
    ASSUME TypeOK, SinceHasNow, DumpIsFresh, ~Enforcing,
           NEW d \in ReadEffectiveDump, dump' = d, since' = since
    PROVE  DumpIsFresh'
<1>1. CASE d = FailedDump
  BY <1>1 DEF DumpIsFresh, FailedDump
<1>2. CASE d # FailedDump
  BY <1>2, ReadDumpFresh DEF DumpIsFresh
<1> QED
  BY <1>1, <1>2

(* Every step keeps what the run relies on fresh. *)
LEMMA FreshStep == TypeOK /\ FreshInv /\ [Next]_vars => FreshInv'
<1> SUFFICES ASSUME TypeOK, FreshInv, [Next]_vars PROVE FreshInv'
  OBVIOUS
<1>0. Len(Rules) \in Nat /\ SinceHasNow
  BY RulesAssumption DEF FreshInv
<1>1. CASE ValidateRule
  <2>0. /\ pc \in Running /\ ~Enforcing /\ idx <= Len(Rules)
        /\ UNCHANGED <<sys, dump, since, dryRun>>
    BY <1>1 DEF ValidateRule, Running, Enforcing
  <2>1. CASE Judge("ERROR")
    BY <2>0, <2>1, FreshJudge DEF Statuses
  <2>2. CASE Start("audit") /\ UNCHANGED <<idx, guardLog, report, counters>>
    <3>1. QuietStep /\ SinceHasNow'
      BY <1>0, <2>0, <2>2 DEF QuietStep, SinceHasNow
    <3>2. AuditIsFresh'
      <4>1. task' = 1 /\ \A p \in 1..Len(rule'.probes) : ~(p < 1)
        BY <2>2 DEF Start
      <4> QED
        BY <4>1, Zenon DEF AuditIsFresh
    <3>3. DumpIsFresh => DumpIsFresh'
      BY <2>0, <2>2 DEF DumpIsFresh, Enforcing, Start
    <3> QED
      BY <3>1, <3>2, <3>3, FreshQuiet
  <2> QED
    BY <1>1, <2>1, <2>2 DEF ValidateRule
<1>2. CASE RunProbe
  <2>0. /\ pc \in Running /\ ~Enforcing /\ idx <= Len(Rules) /\ pc \in {"audit", "verify"}
        /\ task <= Len(rule.probes)
        /\ UNCHANGED <<sys, since, dryRun>>
    BY <1>2, Position DEF RunProbe, Running, Enforcing
  <2>1. task \in 1..Len(rule.probes) /\ rule.probes[task].setting \in Settings
    <3>1. task \in Nat \ {0} /\ Len(rule.probes) \in Nat
      BY <2>0, Position, RuleShape
    <3>2. rule.probes[task] \in ProbeTask
      BY <2>0, <3>1, RuleShape
    <3> QED
      BY <2>0, <3>1, <3>2 DEF ProbeTask
  <2> DEFINE probe == rule.probes[task]
  <2>2. CASE Judge(IF pc = "audit" THEN "ERROR" ELSE "FAILED-TO-FIX") /\ UNCHANGED dump
    BY <2>0, <2>2, FreshJudge DEF Statuses
  <2>3. ASSUME UNCHANGED <<pc, idx, guardLog, report, counters>>, task' = task + 1,
               DumpIsFresh => DumpIsFresh',
               DumpIsFresh /\ match' => match /\ probe.want \in since[probe.setting]
        PROVE  FreshInv'
    <3>1. QuietStep /\ SinceHasNow' /\ rule' = rule
      BY <1>0, <2>0, <2>3 DEF QuietStep, SinceHasNow, rule
    <3>2. DumpIsFresh /\ AuditIsFresh => AuditIsFresh'
      <4> SUFFICES ASSUME DumpIsFresh, AuditIsFresh, match',
                          NEW p \in 1..Len(rule.probes), p < task + 1
                   PROVE  rule.probes[p].want \in since[rule.probes[p].setting]
        BY <2>0, <2>3, <3>1, Zenon DEF AuditIsFresh
      <4>1. match /\ probe.want \in since[probe.setting]
        BY <2>3
      <4>2. p < task \/ p = task
        BY <2>1
      <4> QED
        BY <2>0, <4>1, <4>2, Zenon DEF AuditIsFresh
    <3> QED
      BY <2>3, <3>1, <3>2, FreshQuiet
  <2>4. CASE /\ \E d \in ReadEffectiveDump :
                 /\ dump' = d
                 /\ match' = (match /\ d # FailedDump
                                    /\ d.values[probe.setting] = probe.want)
             /\ task' = task + 1
             /\ UNCHANGED <<pc, idx, guardLog, report, counters>>
    <3>1. PICK d \in ReadEffectiveDump :
                 /\ dump' = d
                 /\ match' = (match /\ d # FailedDump
                                    /\ d.values[probe.setting] = probe.want)
      BY <2>4, Zenon
    <3>2. DumpIsFresh => DumpIsFresh'
      BY <1>0, <2>0, <3>1, ReadDumpKept
    <3>3. match' => match /\ d # FailedDump /\ d.values[probe.setting] = probe.want
      BY <3>1, Zenon
    <3>4. DumpIsFresh /\ match' => match /\ probe.want \in since[probe.setting]
      BY <1>0, <2>0, <2>1, <3>3, ReadDumpFresh
    <3> QED
      BY <2>3, <2>4, <3>2, <3>4
  <2>5. CASE /\ match' = (match /\ sys[probe.setting] = probe.want)
             /\ task' = task + 1
             /\ UNCHANGED <<dump, pc, idx, guardLog, report, counters>>
    <3>1. DumpIsFresh => DumpIsFresh'
      BY <2>0, <2>5 DEF DumpIsFresh, Enforcing
    <3>2. match' => match /\ probe.want \in since[probe.setting]
      BY <1>0, <2>1, <2>5, Zenon DEF SinceHasNow
    <3> QED
      BY <2>3, <2>5, <3>1, <3>2
  <2> QED
    BY <1>2, <2>2, <2>4, <2>5, Zenon DEF RunProbe
<1>3. CASE EvaluateAudit
  <2>0. /\ pc \in Running /\ ~Enforcing /\ idx <= Len(Rules)
        /\ UNCHANGED <<sys, dump, since, dryRun>>
    BY <1>3, Position DEF EvaluateAudit, Running, Enforcing
  <2>1. CASE Judge("PASS") \/ Judge("FAIL")
    BY <2>0, <2>1, FreshJudge DEF Statuses
  <2>2. CASE report' = Append(report, "FAIL") /\ Start("guard") /\ UNCHANGED <<idx, counters>>
    <3>0. \A i \in 1..(idx - 1) : report'[i] = report[i]
      BY <2>2, Position, AppendKeeps DEF Statuses
    <3>1. QuietStep /\ SinceHasNow'
      BY <1>0, <2>0, <2>2, <3>0 DEF QuietStep, SinceHasNow
    <3>2. AuditIsFresh' /\ (DumpIsFresh => DumpIsFresh')
      BY <2>0, <2>2 DEF Start, AuditIsFresh, DumpIsFresh, Enforcing
    <3> QED
      BY <3>1, <3>2, FreshQuiet
  <2> QED
    BY <1>3, <2>1, <2>2 DEF EvaluateAudit
<1>4. CASE EvaluateVerify \/ NothingToEnforce
  <2>0. /\ pc \in Running /\ ~Enforcing /\ idx <= Len(Rules)
        /\ UNCHANGED <<sys, dump, since, dryRun>>
    BY <1>4, Position DEF EvaluateVerify, NothingToEnforce, Running, Enforcing
  <2>1. PICK st \in Statuses : Judge(st)
    BY <1>4 DEF EvaluateVerify, NothingToEnforce, Statuses
  <2> QED
    BY <2>0, <2>1, FreshJudge
<1>5. CASE EvaluatorRaises \/ Finish
  <2>1. /\ pc' \in {"aborted", "done"} /\ ~Enforcing
        /\ UNCHANGED <<sys, dump, since, dryRun, idx, report, counters>>
    BY <1>5 DEF EvaluatorRaises, Finish, Enforcing
  <2>2. QuietStep /\ SinceHasNow'
    BY <1>0, <2>1 DEF QuietStep, SinceHasNow
  <2>3. AuditIsFresh' /\ (DumpIsFresh => DumpIsFresh')
    BY <2>1 DEF AuditIsFresh, DumpIsFresh, Enforcing
  <2> QED
    BY <2>2, <2>3, FreshQuiet
<1>6. CASE RunGuard
  <2>0. /\ pc \in Running /\ ~Enforcing /\ idx <= Len(Rules) /\ pc = "guard"
        /\ UNCHANGED <<sys, dump, since, dryRun>>
    BY <1>6, Position DEF RunGuard, Running, Enforcing
  <2>1. CASE Judge("MANUAL")
    BY <2>0, <2>1, FreshJudge DEF Statuses
  <2>2. CASE UNCHANGED <<pc, idx, report, counters>>
    <3>1. QuietStep /\ SinceHasNow'
      BY <1>0, <2>0, <2>2 DEF QuietStep, SinceHasNow
    <3>2. AuditIsFresh' /\ (DumpIsFresh => DumpIsFresh')
      BY <2>0, <2>2 DEF AuditIsFresh, DumpIsFresh, Enforcing
    <3> QED
      BY <3>1, <3>2, FreshQuiet
  <2> QED
    BY <1>6, <2>1, <2>2 DEF RunGuard
<1>7. CASE GuardsPassed \/ DryRunStep
  <2>1. /\ pc' = "reinforce" /\ UNCHANGED <<sys, dump, since, dryRun, idx, report, counters>>
        /\ ~Enforcing
    BY <1>7 DEF GuardsPassed, DryRunStep, Start, Enforcing
  <2>2. QuietStep /\ SinceHasNow'
    BY <1>0, <2>1 DEF QuietStep, SinceHasNow
  <2>3. AuditIsFresh' /\ (DumpIsFresh => DumpIsFresh')
    BY <2>1 DEF AuditIsFresh, DumpIsFresh, Enforcing
  <2> QED
    BY <2>2, <2>3, FreshQuiet
<1>8. CASE RunReinforceStep
  <2>0. /\ pc = "reinforce" /\ pc \in Running /\ Enforcing /\ idx <= Len(Rules)
        /\ UNCHANGED <<dump, dryRun>>
    BY <1>8, Position DEF RunReinforceStep, Running, Enforcing
  <2>1. SinceHasNow'
    <3>1. PICK setting, v : Written(setting, v)
      BY <1>8, Zenon DEF RunReinforceStep
    <3> QED
      BY <3>1 DEF Written, SinceHasNow
  <2>2. CASE Judge("ENFORCE-ERROR")
    BY <2>0, <2>1, <2>2, FreshError
  <2>3. CASE UNCHANGED <<pc, idx, report, counters>>
    <3>1. QuietStep
      BY <2>3 DEF QuietStep
    <3>2. AuditIsFresh' /\ DumpIsFresh'
      BY <2>0, <2>3 DEF AuditIsFresh, DumpIsFresh, Enforcing
    <3> QED
      BY <2>1, <3>1, <3>2, FreshQuiet
  <2> QED
    BY <1>8, <2>2, <2>3, Zenon DEF RunReinforceStep
<1>9. CASE EnforceReturns
  <2>0. /\ pc = "reinforce" /\ pc \in Running /\ idx <= Len(Rules)
        /\ UNCHANGED <<sys, since, dryRun>>
    BY <1>9, Position DEF EnforceReturns, Running
  <2>1. CASE dryRun /\ Judge("DRY-RUN") /\ UNCHANGED dump
    BY <2>0, <2>1, FreshJudge DEF Statuses, Enforcing
  <2>2. CASE dump' = NoDump /\ Start("verify") /\ UNCHANGED <<idx, guardLog, report, counters>>
    <3>1. QuietStep /\ SinceHasNow'
      BY <1>0, <2>0, <2>2 DEF QuietStep, SinceHasNow
    <3>2. AuditIsFresh'
      <4>1. task' = 1 /\ \A p \in 1..Len(rule'.probes) : ~(p < 1)
        BY <2>2 DEF Start
      <4> QED
        BY <4>1, Zenon DEF AuditIsFresh
    <3>3. DumpIsFresh'
      BY <2>2 DEF DumpIsFresh, NoDump
    <3> QED
      BY <3>1, <3>2, <3>3, FreshQuiet
  <2> QED
    BY <1>9, <2>1, <2>2 DEF EnforceReturns
<1>10. CASE Drift
  <2>0. UNCHANGED <<dump, dryRun, pc, idx, task, match, report, counters>> /\ rule' = rule
    BY <1>10 DEF Drift, rule
  <2>1. PICK s \in Settings, v \in Values :
          /\ sys' = [sys EXCEPT ![s] = v]
          /\ since' = [since EXCEPT ![s] = @ \cup {v}]
    BY <1>10 DEF Drift
  <2>2. sys \in [Settings -> Values] /\ since \in [Settings -> SUBSET Values]
    BY DEF TypeOK
  <2>3. \A t \in Settings : since[t] \subseteq since'[t]
    BY <2>1, <2>2
  <2>4. QuietStep /\ SinceHasNow'
    <3>1. SinceHasNow'
      BY <1>0, <2>1, <2>2 DEF SinceHasNow
    <3> QED
      BY <2>0, <3>1 DEF QuietStep
  <2>5. DumpIsFresh => DumpIsFresh'
    BY <2>0, <2>3 DEF DumpIsFresh, Enforcing
  <2>6. AuditIsFresh => AuditIsFresh'
    <3> SUFFICES ASSUME AuditIsFresh, pc \in {"audit", "verify"}, match,
                        NEW p \in 1..Len(rule.probes), p < task
                 PROVE  rule.probes[p].want \in since'[rule.probes[p].setting]
      BY <2>0, Zenon DEF AuditIsFresh
    <3>1. rule.probes[p].want \in since[rule.probes[p].setting]
      BY Zenon DEF AuditIsFresh
    <3>2. rule.probes[p] \in ProbeTask
      BY Position, RuleShape DEF Running
    <3>3. rule.probes[p].setting \in Settings
      BY <3>2 DEF ProbeTask
    <3> QED
      BY <2>3, <3>1, <3>3
  <2> QED
    BY <2>4, <2>5, <2>6, FreshQuiet
<1>11. CASE UNCHANGED vars
  <2>1. QuietStep /\ SinceHasNow'
    BY <1>0, <1>11 DEF QuietStep, SinceHasNow, vars
  <2>2. AuditIsFresh /\ DumpIsFresh => AuditIsFresh' /\ DumpIsFresh'
    BY <1>11 DEF AuditIsFresh, DumpIsFresh, Enforcing, vars, rule
  <2> QED
    BY <2>1, <2>2, FreshQuiet
<1> QED
  BY <1>1, <1>2, <1>3, <1>4, <1>5, <1>6, <1>7, <1>8, <1>9, <1>10, <1>11 DEF Next, Engine

(* A verdict that is written is the one that was passed. *)
LEMMA VerdictOf ==
    ASSUME TypeOK, pc \in Running, idx <= Len(Rules), NEW st \in Statuses, Judge(st)
    PROVE  report'[idx] = st
BY JudgeReport

(* A step that judges a rule PASS or FIXED has read all of its probes. *)
LEMMA GoodVerdictStep ==
    ASSUME TypeOK, [Next]_vars, idx' = idx + 1, report'[idx] \in {"PASS", "FIXED"}
    PROVE  /\ pc \in {"audit", "verify"} /\ match
           /\ idx <= Len(Rules) /\ task > Len(rule.probes)
<1>0. idx' # idx /\ (pc \in Running \ {"next"} => idx <= Len(Rules))
  BY Position
<1>1. CASE ValidateRule
  <2>1. Judge("ERROR") /\ pc \in Running /\ idx <= Len(Rules)
    BY <1>0, <1>1 DEF ValidateRule, Running
  <2> QED
    BY <2>1, VerdictOf DEF Statuses
<1>2. CASE RunProbe
  <2>1. /\ Judge(IF pc = "audit" THEN "ERROR" ELSE "FAILED-TO-FIX")
        /\ pc \in Running /\ idx <= Len(Rules)
    BY <1>0, <1>2, Zenon DEF RunProbe, Running
  <2> QED
    BY <2>1, VerdictOf DEF Statuses
<1>3. CASE EvaluateAudit
  <2>1. pc = "audit" /\ pc \in Running /\ idx <= Len(Rules) /\ task > Len(rule.probes)
    BY <1>0, <1>3 DEF EvaluateAudit, Running
  <2>2. ~Judge("FAIL")
    BY <2>1, VerdictOf DEF Statuses
  <2>3. match
    BY <1>0, <1>3, <2>2 DEF EvaluateAudit
  <2> QED
    BY <2>1, <2>3
<1>4. CASE EvaluateVerify
  <2>1. pc = "verify" /\ pc \in Running /\ idx <= Len(Rules) /\ task > Len(rule.probes)
    BY <1>0, <1>4 DEF EvaluateVerify, Running
  <2>2. ~Judge("FAILED-TO-FIX")
    BY <2>1, VerdictOf DEF Statuses
  <2>3. match
    BY <1>4, <2>2 DEF EvaluateVerify
  <2> QED
    BY <2>1, <2>3
<1>5. CASE NothingToEnforce \/ RunGuard
  <2>1. Judge("MANUAL") /\ pc \in Running /\ idx <= Len(Rules)
    BY <1>0, <1>5 DEF NothingToEnforce, RunGuard, Running
  <2> QED
    BY <2>1, VerdictOf DEF Statuses
<1>6. CASE RunReinforceStep
  <2>1. Judge("ENFORCE-ERROR") /\ pc \in Running /\ idx <= Len(Rules)
    BY <1>0, <1>6, Zenon DEF RunReinforceStep, Running
  <2> QED
    BY <2>1, VerdictOf DEF Statuses
<1>7. CASE EnforceReturns
  <2>1. Judge("DRY-RUN") /\ pc \in Running /\ idx <= Len(Rules)
    BY <1>0, <1>7 DEF EnforceReturns, Running
  <2> QED
    BY <2>1, VerdictOf DEF Statuses
<1>8. CASE EvaluatorRaises \/ GuardsPassed \/ DryRunStep \/ Finish \/ Drift
  BY <1>0, <1>8 DEF EvaluatorRaises, GuardsPassed, DryRunStep, Finish, Drift
<1>9. CASE UNCHANGED vars
  BY <1>0, <1>9 DEF vars
<1> QED
  BY <1>1, <1>2, <1>3, <1>4, <1>5, <1>6, <1>7, <1>8, <1>9 DEF Next, Engine

(* A verdict never rests on a value older than the last write of an enforcer, *)
(* however long a dump was kept: VerdictsAreFresh, for every profile and host. *)
THEOREM FreshCorrect == Spec => VerdictsAreFresh
<1> DEFINE Good == /\ report' # report /\ idx' = idx + 1
                   /\ report'[idx] \in {"PASS", "FIXED"}
                   /\ Judged({"ENFORCE-ERROR"}) = {}
           Fresh == \A p \in 1..Len(rule.probes) :
                      rule.probes[p].want \in since[rule.probes[p].setting]
<1>1. Init => FreshInv
  <2> SUFFICES ASSUME Init PROVE FreshInv
    OBVIOUS
  <2>1. SinceHasNow
    BY DEF Init, SinceHasNow
  <2>2. DumpIsFresh /\ AuditIsFresh
    BY DEF Init, DumpIsFresh, AuditIsFresh, NoDump
  <2> QED
    BY <2>1, <2>2 DEF FreshInv
<1>2. TypeOK /\ FreshInv /\ [Next]_vars => (Good => Fresh)
  <2> SUFFICES ASSUME TypeOK, FreshInv, [Next]_vars, Good, NEW p \in 1..Len(rule.probes)
               PROVE  rule.probes[p].want \in since[rule.probes[p].setting]
    OBVIOUS
  <2>1. /\ pc \in {"audit", "verify"} /\ match
        /\ idx <= Len(Rules) /\ task > Len(rule.probes)
    BY GoodVerdictStep
  <2>2. AuditIsFresh
    BY DEF FreshInv, NoEnforceError
  <2>3. p < task
    BY <2>1, Position, RuleShape
  <2> QED
    BY <2>1, <2>2, <2>3, Zenon DEF AuditIsFresh
<1>3. TypeOK /\ FreshInv /\ [Next]_vars => [Good => Fresh]_vars
  BY <1>2
<1> QED
  BY <1>1, <1>3, FreshStep, TypeCorrect, PTL DEF Spec, VerdictsAreFresh

-----------------------------------------------------------------------------
(* The refinement: the verdicts of HardeningRun are the judged part of the     *)
(* report.  An item that is still FAIL because its rule is being enforced is   *)
(* not a verdict yet.                                                          *)
Verdicts == SubSeq(report, 1, idx - 1)

(* Only a live reinforce run enforces, and only it verifies. *)
ModeInv ==
    /\ pc \in {"guard", "reinforce", "verify"} => mode = "reinforce"
    /\ pc = "verify" => ~dryRun

(* A step either changes nothing that HardeningRun knows, or judges with a     *)
(* verdict that the mode allows, or ends the run.                              *)
SilentStep == QuietStep /\ UNCHANGED <<mode, dryRun, exit>>

AllowedJudgeStep ==
    /\ pc \in Running
    /\ idx <= Len(Rules)
    /\ UNCHANGED <<mode, dryRun, exit>>
    /\ \E st \in Statuses \cap Promise!VerdictsOf(mode, dryRun) : Judge(st)

(* Every step keeps ModeInv. *)
LEMMA ModeStep == ModeInv /\ [Next]_vars => ModeInv'
<1> SUFFICES ASSUME ModeInv, [Next]_vars PROVE ModeInv'
  OBVIOUS
<1> USE DEF ModeInv
<1>1. CASE ValidateRule
  BY <1>1 DEF ValidateRule, Judge, Start
<1>2. CASE RunProbe
  BY <1>2 DEF RunProbe, Judge
<1>3. CASE EvaluateAudit
  BY <1>3 DEF EvaluateAudit, Judge, Start
<1>4. CASE EvaluateVerify
  BY <1>4 DEF EvaluateVerify, Judge
<1>5. CASE EvaluatorRaises
  BY <1>5 DEF EvaluatorRaises
<1>6. CASE NothingToEnforce
  BY <1>6 DEF NothingToEnforce, Judge
<1>7. CASE RunGuard
  BY <1>7 DEF RunGuard, Judge
<1>8. CASE GuardsPassed
  BY <1>8 DEF GuardsPassed, Start
<1>9. CASE RunReinforceStep
  BY <1>9 DEF RunReinforceStep, Judge
<1>10. CASE DryRunStep
  BY <1>10 DEF DryRunStep
<1>11. CASE EnforceReturns
  BY <1>11 DEF EnforceReturns, Judge, Start
<1>12. CASE Finish
  BY <1>12 DEF Finish
<1>13. CASE Drift
  BY <1>13 DEF Drift
<1>14. CASE UNCHANGED vars
  BY <1>14 DEF vars
<1> QED
  BY <1>1, <1>2, <1>3, <1>4, <1>5, <1>6, <1>7, <1>8, <1>9, <1>10, <1>11,
     <1>12, <1>13, <1>14 DEF Next, Engine

(* Every step is of one of the four kinds. *)
LEMMA RefinedKinds ==
    TypeOK /\ ModeInv /\ [Next]_vars
        => SilentStep \/ AllowedJudgeStep \/ EvaluatorRaises \/ Finish
<1> SUFFICES ASSUME TypeOK, ModeInv, [Next]_vars, ~EvaluatorRaises, ~Finish
             PROVE  SilentStep \/ AllowedJudgeStep
  OBVIOUS
<1> USE DEF ModeInv, SilentStep, AllowedJudgeStep, Promise!VerdictsOf, Statuses, Running
<1>0. Len(Rules) \in Nat
  BY RulesAssumption
<1>1. CASE ValidateRule
  BY <1>1 DEF ValidateRule, QuietStep
<1>2. CASE RunProbe
  BY <1>2, <1>0, Position, Zenon DEF RunProbe, QuietStep
<1>3. CASE EvaluateAudit
  <2>1. CASE report' = Append(report, "FAIL") /\ UNCHANGED <<idx, guardLog, counters>>
    <3>1. \A i \in 1..(idx - 1) : report'[i] = report[i]
      BY <2>1, Position, AppendKeeps
    <3> QED
      BY <1>3, <2>1, <3>1, Zenon DEF EvaluateAudit, QuietStep
  <2>2. CASE Judge("PASS") \/ (mode = "scan" /\ Judge("FAIL"))
    BY <1>0, <1>3, <2>2, Position DEF EvaluateAudit
  <2> QED
    BY <1>3, <2>1, <2>2 DEF EvaluateAudit
<1>4. CASE EvaluateVerify
  BY <1>4, <1>0, Position DEF EvaluateVerify
<1>5. CASE NothingToEnforce
  BY <1>5, <1>0, Position DEF NothingToEnforce
<1>6. CASE RunGuard
  BY <1>6, <1>0, Position DEF RunGuard, QuietStep
<1>7. CASE RunReinforceStep
  BY <1>7, <1>0, Position, Zenon DEF RunReinforceStep, QuietStep
<1>8. CASE EnforceReturns
  BY <1>8, <1>0, Position DEF EnforceReturns, QuietStep
<1>9. CASE GuardsPassed \/ DryRunStep \/ Drift
  BY <1>9 DEF GuardsPassed, DryRunStep, Drift, QuietStep
<1>10. CASE UNCHANGED vars
  BY <1>10 DEF vars, QuietStep
<1> QED
  BY <1>1, <1>2, <1>3, <1>4, <1>5, <1>6, <1>7, <1>8, <1>9, <1>10 DEF Next, Engine

(* Two reports with the same items are the same. *)
LEMMA SameItems ==
    ASSUME NEW r \in Seq(Statuses), NEW s \in Seq(Statuses), Len(r) = Len(s),
           \A i \in 1..Len(r) : r[i] = s[i]
    PROVE  r = s
OBVIOUS

(* What a prefix of a report holds. *)
LEMMA PrefixShape ==
    ASSUME NEW r, NEW n \in Nat, \A i \in 1..n : r[i] \in Statuses
    PROVE  /\ SubSeq(r, 1, n) \in Seq(Statuses)
           /\ Len(SubSeq(r, 1, n)) = n
           /\ \A i \in 1..n : SubSeq(r, 1, n)[i] = r[i]
OBVIOUS

(* The judged items are verdicts. *)
LEMMA JudgedItems ==
    ASSUME TypeOK
    PROVE  idx - 1 \in Nat /\ \A i \in 1..(idx - 1) : report[i] \in Statuses
BY Position

(* A step that leaves the judged items alone leaves the verdicts alone. *)
LEMMA VerdictsQuiet == ASSUME TypeOK, QuietStep PROVE Verdicts' = Verdicts
<1>1. idx' = idx /\ \A i \in 1..(idx - 1) : report'[i] = report[i]
  BY DEF QuietStep
<1>2. idx - 1 \in Nat /\ \A i \in 1..(idx - 1) : report[i] \in Statuses /\ report'[i] \in Statuses
  BY <1>1, JudgedItems
<1>3. SubSeq(report', 1, idx - 1) = SubSeq(report, 1, idx - 1)
  BY <1>1, <1>2, PrefixShape, SameItems
<1> QED
  BY <1>1, <1>3, Zenon DEF Verdicts

(* Judging the rule in hand appends its verdict. *)
LEMMA VerdictsGrow ==
    ASSUME TypeOK, pc \in Running, idx <= Len(Rules), NEW st \in Statuses, Judge(st)
    PROVE  Verdicts' = Append(Verdicts, st)
<1>1. /\ idx \in Nat \ {0} /\ idx' = idx + 1
      /\ report'[idx] = st
      /\ \A i \in 1..(idx - 1) : report'[i] = report[i]
  BY JudgeReport
<1>2. \A i \in 1..(idx - 1) : report[i] \in Statuses
  BY JudgedItems
<1>3. \A i \in 1..idx : report'[i] \in Statuses
  BY <1>1, <1>2
<1>4. /\ SubSeq(report', 1, idx) \in Seq(Statuses)
      /\ Len(SubSeq(report', 1, idx)) = idx
      /\ \A i \in 1..idx : SubSeq(report', 1, idx)[i] = report'[i]
  BY <1>1, <1>3, PrefixShape
<1>5. /\ Verdicts \in Seq(Statuses)
      /\ Len(Verdicts) = idx - 1
      /\ \A i \in 1..(idx - 1) : Verdicts[i] = report[i]
  BY <1>1, <1>2, PrefixShape DEF Verdicts
<1>6. /\ Append(Verdicts, st) \in Seq(Statuses)
      /\ Len(Append(Verdicts, st)) = idx
      /\ \A i \in 1..(idx - 1) : Append(Verdicts, st)[i] = Verdicts[i]
      /\ Append(Verdicts, st)[idx] = st
  <2>1. Len(Verdicts) + 1 = idx
    BY <1>1, <1>5
  <2> QED
    BY <1>5, <2>1
<1>7. \A i \in 1..idx : SubSeq(report', 1, idx)[i] = Append(Verdicts, st)[i]
  <2>1. \A i \in 1..idx : i = idx \/ i \in 1..(idx - 1)
    BY <1>1
  <2>2. SubSeq(report', 1, idx)[idx] = st
    BY <1>1, <1>4
  <2>3. \A i \in 1..(idx - 1) : SubSeq(report', 1, idx)[i] = report[i]
    BY <1>1, <1>4
  <2> QED
    BY <1>5, <1>6, <2>1, <2>2, <2>3
<1>8. SubSeq(report', 1, idx) = Append(Verdicts, st)
  BY <1>4, <1>6, <1>7, SameItems
<1> QED
  BY <1>1, <1>8 DEF Verdicts

-----------------------------------------------------------------------------
(* The counters: what is below counts rules, and is the only part that needs  *)
(* the facts about cardinalities.                                              *)
INSTANCE FiniteSetTheorems

(* The judged rules are finitely many. *)
LEMMA JudgedFinite ==
    ASSUME TypeOK, NEW S
    PROVE  IsFiniteSet(Judged(S)) /\ idx \notin Judged(S)
<1>1. idx \in Int /\ 1..(idx - 1) \subseteq Int
  BY RulesAssumption DEF TypeOK
<1>2. IsFiniteSet(1..(idx - 1))
  BY <1>1, FS_Interval
<1>3. Judged(S) \in SUBSET (1..(idx - 1))
  BY DEF Judged
<1> QED
  BY <1>1, <1>2, <1>3, FS_Subset

(* Judging adds one to the count of rules with its status. *)
LEMMA JudgedCount ==
    ASSUME TypeOK, pc \in Running, idx <= Len(Rules), NEW S,
           NEW st \in Statuses, Judge(st)
    PROVE  Cardinality(Judged(S)') =
             IF st \in S THEN Cardinality(Judged(S)) + 1 ELSE Cardinality(Judged(S))
<1>1. IsFiniteSet(Judged(S)) /\ idx \notin Judged(S)
  BY JudgedFinite
<1>2. Cardinality(Judged(S) \cup {idx}) = Cardinality(Judged(S)) + 1
  BY <1>1, FS_AddElement
<1>3. Judged(S)' = IF st \in S THEN Judged(S) \cup {idx} ELSE Judged(S)
  BY JudgedGrows, Zenon
<1> QED
  BY <1>2, <1>3

(* Every step keeps the counters equal to the numbers of judged rules. *)
LEMMA SummaryStep ==
    TypeOK /\ SummaryMatchesReport /\ [Next]_vars => SummaryMatchesReport'
<1> SUFFICES ASSUME TypeOK, SummaryMatchesReport, [Next]_vars
             PROVE  SummaryMatchesReport'
  OBVIOUS
<1>1. CASE QuietStep
  <2>1. counters' = counters
    BY <1>1 DEF QuietStep
  <2> QED
    BY <1>1, <2>1, JudgedQuiet DEF SummaryMatchesReport
<1>2. CASE JudgeStep
  <2>1. PICK st \in Statuses : Judge(st)
    BY <1>2 DEF JudgeStep
  <2>2. pc \in Running /\ idx <= Len(Rules)
    BY <1>2 DEF JudgeStep
  <2>3. \A S : Cardinality(Judged(S)') =
            IF st \in S THEN Cardinality(Judged(S)) + 1 ELSE Cardinality(Judged(S))
    BY <2>1, <2>2, JudgedCount
  <2>4. \A c \in Counters :
          counters'[c] = IF c = CounterOf(st) THEN counters[c] + 1 ELSE counters[c]
    BY <2>1, CounterOfStatus DEF Judge, TypeOK, Counters
  <2>5. /\ counters'["passed"] = Cardinality(Judged({"PASS"})')
        /\ counters'["fixed"] = Cardinality(Judged({"FIXED"})')
        /\ counters'["manual"] = Cardinality(Judged({"MANUAL"})')
        /\ counters'["dry_run_pending"] = Cardinality(Judged({"DRY-RUN"})')
    BY <2>3, <2>4 DEF SummaryMatchesReport, Counters, CounterOf, Statuses
  <2>6. counters'["hard_failures"] = Cardinality(
          Judged({"ERROR", "FAIL", "ENFORCE-ERROR", "FAILED-TO-FIX"})')
    BY <2>3, <2>4 DEF SummaryMatchesReport, Counters, CounterOf, Statuses
  <2> QED
    BY <2>5, <2>6 DEF SummaryMatchesReport
<1> QED
  BY <1>1, <1>2, StepKinds

(* The counters engine.run prints always agree with the items it reports. *)
THEOREM SummaryCorrect == Spec => []SummaryMatchesReport
<1>1. Init => SummaryMatchesReport
  <2> SUFFICES ASSUME Init PROVE SummaryMatchesReport
    OBVIOUS
  <2>1. \A S : Judged(S) = {}
    BY DEF Judged, Init
  <2> QED
    BY <2>1, FS_EmptySet, Zenon DEF Init, SummaryMatchesReport
<1>2. TypeOK /\ SummaryMatchesReport /\ [Next]_vars => SummaryMatchesReport'
  BY SummaryStep
<1> QED
  BY <1>1, <1>2, TypeCorrect, PTL DEF Spec

(* The counters that decide on the exit code are zero exactly when every       *)
(* verdict is a good one.                                                      *)
LEMMA GoodVerdicts ==
    ASSUME TypeOK, SummaryMatchesReport
    PROVE  counters.hard_failures = 0 /\ counters.dry_run_pending = 0
             <=> \A i \in 1..Len(Verdicts) : Verdicts[i] \in Promise!Good
<1>1. /\ Len(Verdicts) = idx - 1
      /\ \A i \in 1..(idx - 1) : Verdicts[i] = report[i] /\ report[i] \in Statuses
  BY JudgedItems, PrefixShape DEF Verdicts
<1> DEFINE Bad == {"ERROR", "FAIL", "ENFORCE-ERROR", "FAILED-TO-FIX"}
<1>2. counters.hard_failures = 0 <=> Judged(Bad) = {}
  BY JudgedFinite, FS_EmptySet DEF SummaryMatchesReport
<1>3. counters.dry_run_pending = 0 <=> Judged({"DRY-RUN"}) = {}
  BY JudgedFinite, FS_EmptySet DEF SummaryMatchesReport
<1> QED
  BY <1>1, <1>2, <1>3 DEF Judged, Statuses, Promise!Good

-----------------------------------------------------------------------------
(* Every step of the engine is a step of HardeningRun, or one it cannot see. *)
LEMMA RefinementStep ==
    TypeOK /\ ModeInv /\ SummaryMatchesReport /\ [Next]_vars
        => [Promise!RunNext]_(Promise!runVars)
<1> SUFFICES ASSUME TypeOK, ModeInv, SummaryMatchesReport, [Next]_vars
             PROVE  Promise!RunNext \/ UNCHANGED Promise!runVars
  OBVIOUS
<1>0. /\ Len(Rules) \in Nat /\ idx \in Nat \ {0} /\ idx - 1 <= Len(Rules)
      /\ exit = -1 <=> pc \in Running
      /\ Len(Verdicts) = idx - 1
  <2>1. Len(Verdicts) = idx - 1
    BY JudgedItems, PrefixShape DEF Verdicts
  <2> QED
    BY <2>1, Position
<1>1. CASE SilentStep
  <2>1. Verdicts' = Verdicts
    BY <1>1, VerdictsQuiet DEF SilentStep
  <2> QED
    BY <1>1, <2>1, Zenon DEF SilentStep, Promise!runVars, Verdicts
<1>2. CASE AllowedJudgeStep
  <2>1. PICK st \in Statuses \cap Promise!VerdictsOf(mode, dryRun) : Judge(st)
    BY <1>2 DEF AllowedJudgeStep
  <2>2. Verdicts' = Append(Verdicts, st)
    BY <1>2, <2>1, VerdictsGrow DEF AllowedJudgeStep
  <2>3. exit = -1 /\ Len(Verdicts) < Len(Rules)
    BY <1>0, <1>2 DEF AllowedJudgeStep
  <2>4. Promise!JudgeRule
    BY <1>2, <2>1, <2>2, <2>3, Zenon DEF AllowedJudgeStep, Promise!JudgeRule, Verdicts
  <2> QED
    BY <2>4 DEF Promise!RunNext
<1>3. CASE EvaluatorRaises
  <2>1. Verdicts' = Verdicts
    BY <1>3 DEF EvaluatorRaises, Verdicts
  <2>2. Promise!CutShort
    BY <1>0, <1>3, <2>1 DEF EvaluatorRaises, Running, Promise!CutShort, Verdicts
  <2> QED
    BY <2>2 DEF Promise!RunNext
<1>4. CASE Finish
  <2>1. Verdicts' = Verdicts
    BY <1>4 DEF Finish, Verdicts
  <2>2. exit = -1 /\ Len(Verdicts) = Len(Rules)
    BY <1>0, <1>4 DEF Finish, Running
  <2>3. exit' = IF \A i \in 1..Len(Verdicts) : Verdicts[i] \in Promise!Good THEN 0 ELSE 1
    BY <1>4, GoodVerdicts DEF Finish
  <2>4. Promise!Conclude
    BY <1>4, <2>1, <2>2, <2>3, Zenon DEF Finish, Promise!Conclude, Verdicts
  <2> QED
    BY <2>4 DEF Promise!RunNext
<1> QED
  BY <1>1, <1>2, <1>3, <1>4, RefinedKinds

(* engine.run keeps the promise of HardeningRun, for every profile and host:   *)
(* rules are judged in order, no verdict is revised, each is one that the mode *)
(* allows, and the exit code says whether all are good.                        *)
THEOREM RefinementCorrect == Spec => ImplementsHardeningRun
<1>1. Init => Promise!RunInit
  <2> SUFFICES ASSUME Init PROVE Promise!RunInit
    OBVIOUS
  <2>1. idx - 1 = 0 /\ 1 > 0
    BY DEF Init
  <2>2. SubSeq(report, 1, idx - 1) = <<>>
    BY <2>1
  <2> QED
    BY <2>2 DEF Init, Promise!RunInit
<1>2. Init => ModeInv
  BY DEF Init, ModeInv
<1> QED
  BY <1>1, <1>2, ModeStep, RefinementStep, TypeCorrect, SummaryCorrect, PTL
  DEF Spec, ImplementsHardeningRun, Promise!RunSpec
=============================================================================
