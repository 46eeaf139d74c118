---------------------------- MODULE HardeningRun ----------------------------
(***************************************************************************)
(* What a seharden run promises to its caller, without saying how rules    *)
(* are audited or enforced: rules are judged one after the other, a        *)
(* verdict is final and is one the mode allows, and the exit code is 0     *)
(* exactly when every verdict is a good one and the run was not cut short. *)
(***************************************************************************)
EXTENDS Integers, Sequences

CONSTANT Total      \* number of rules to judge

VARIABLES
    mode,           \* "scan" or "reinforce"
    dryRun,         \* whether a reinforce run only says what it would do
    verdicts,       \* the verdicts so far, in the order of the rules
    exit            \* -1 until the run has ended

runVars == <<mode, dryRun, verdicts, exit>>

Good == {"PASS", "FIXED", "MANUAL"}

VerdictsOf(m, dry) ==
    {"PASS", "ERROR"} \cup
    (IF m = "scan" THEN {"FAIL"}
     ELSE {"MANUAL"} \cup
          (IF dry THEN {"DRY-RUN"}
           ELSE {"FIXED", "FAILED-TO-FIX", "ENFORCE-ERROR"}))

RunInit ==
    /\ mode \in {"scan", "reinforce"}
    /\ dryRun \in BOOLEAN
    /\ verdicts = <<>>
    /\ exit = -1

JudgeRule ==
    /\ exit = -1
    /\ Len(verdicts) < Total
    /\ \E v \in VerdictsOf(mode, dryRun) : verdicts' = Append(verdicts, v)
    /\ UNCHANGED <<mode, dryRun, exit>>

Conclude ==
    /\ exit = -1
    /\ Len(verdicts) = Total
    /\ exit' = IF \A i \in 1..Len(verdicts) : verdicts[i] \in Good THEN 0 ELSE 1
    /\ UNCHANGED <<mode, dryRun, verdicts>>

CutShort ==
    /\ exit = -1
    /\ exit' = 1
    /\ UNCHANGED <<mode, dryRun, verdicts>>

RunNext == JudgeRule \/ Conclude \/ CutShort

RunSpec == RunInit /\ [][RunNext]_runVars
=============================================================================
