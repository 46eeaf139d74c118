------------------------------ MODULE RpmVerify ------------------------------
(* loongshield rpm --verify: rpm/cli.lua runs rpm/verify.lua in a coroutine,   *)
(* which looks the package up, fetches its SBOM through UvCurl, lists its      *)
(* files, hashes them one by one and turns the tally into an exit code.        *)
(*                                                                             *)
(* The disk and the rpm database may change between any two steps, so that     *)
(* each query is a fresh choice over what it can find.                         *)
EXTENDS UvCurl, Sequences, FiniteSetsExt

CONSTANTS
    Verifier,       \* the fetcher that runs verify_package
    Files, Digests,
    Documents       \* response bodies: [kind, entries]

VARIABLES
    stage,          \* where verify_package is
    config,         \* --verify-config
    sums,           \* sbom_checksums
    doc,            \* the body that was downloaded
    listed,         \* rpm_files: the files with a digest, to is_config
    left,           \* those that verify_checksums has yet to visit
    results,        \* its tally
    hashed,         \* what opening and hashing each file gave
    result,         \* what verify_package returned
    exit            \* what M.run returned, or how the process died

verifyVars == <<stage, config, sums, doc, listed, left, results, hashed, result, exit>>
vars == <<loopVars, verifyVars>>

Fields == {"total", "verified", "mismatches", "missing_in_sbom", "missing_on_disk",
           "skipped_config", "errors"}
Uncaught == 255
Prefixes == {"./", "bare", "/", "././"}
Unhashed == {"partial", "absent", "unreadable", "unhashable"}
Found == Digests \cup Unhashed

ASSUME VerifyAssumption ==
    /\ Verifier \in Fetchers /\ IsFiniteSet(Files)
    /\ Digests \cap Unhashed = {}
    /\ None \notin Documents /\ None \notin Found /\ None \notin 0..Uncaught
    /\ None \notin Prefixes \X Files

(* An entry without a name or without a SHA256 digest has None in its place. *)
ASSUME DocumentsAssumption == \A d \in Documents :
    /\ d.kind \in {"invalid", "odd", "spdx"}
    /\ d.entries \in Seq([name : (Prefixes \X Files) \cup {None}, sha : Digests \cup {None}])

Init ==
    /\ LoopInit
    /\ stage = "parse" /\ config = FALSE
    /\ sums = <<>> /\ doc = None
    /\ listed = <<>> /\ left = {}
    /\ results = [k \in Fields |-> 0]
    /\ hashed = [f \in Files |-> None]
    /\ result = None /\ exit = None

Return(code) == stage' = "end" /\ result' = code

-----------------------------------------------------------------------------
(* parse_args and M.run up to the coroutine: a bad command line or a missing    *)
(* package name returns 1 (--help leaves with 0 before there is anything to     *)
(* verify, and is left out).                                                    *)
ParseArgs ==
    /\ stage = "parse" /\ exit = None
    /\ \/ stage' = "lookup" /\ config' \in BOOLEAN /\ UNCHANGED exit
       \/ stage' = "end" /\ exit' = 1 /\ UNCHANGED config
    /\ UNCHANGED <<loopVars, sums, doc, listed, left, results, hashed, result>>

(* get_package_info and construct_url: a package that is not installed, or has *)
(* no architecture, ends the coroutine; an error raised by the rpm binding     *)
(* makes M.run return 1 without running the loop.                              *)
GetPackageInfo ==
    /\ stage = "lookup" /\ exit = None
    /\ \/ stage' = "fetch" /\ UNCHANGED <<result, exit>>
       \/ Return(1) /\ UNCHANGED exit
       \/ exit' = 1 /\ stage' = "end" /\ UNCHANGED result
    /\ UNCHANGED <<loopVars, config, sums, doc, listed, left, results, hashed>>

(* download_sbom, as far as the yield. *)
Download ==
    /\ stage = "fetch" /\ Fetch(Verifier)
    /\ UNCHANGED verifyVars

(* M.run: once the coroutine yields or ends, the loop runs. *)
Run ==
    /\ exit = None
    /\ \/ stage = "fetch" /\ RunLoop
       \/ /\ stage = "end" /\ co[Verifier] = "ready" /\ loop = "off"
          /\ loop' = "waiting"
          /\ UNCHANGED <<co, got, requests, transfer, steps, timer, poll, current>>
    /\ UNCHANGED verifyVars

-----------------------------------------------------------------------------
(* parse_spdx_json.  A name is a prefix and a file; "./p" and the bare "p"      *)
(* become "/p".  Entries without a name or a SHA256 digest are passed over, and *)
(* a later entry of a path replaces an earlier one.                             *)
Normalized(name) == IF name[1] \in {"./", "bare"} THEN <<"/", name[2]>> ELSE name

ParseSpdx(entries) ==
    LET usable == {i \in DOMAIN entries : entries[i].name # None /\ entries[i].sha \in Digests}
        named(p) == {i \in usable : Normalized(entries[i].name) = p}
    IN [p \in {Normalized(entries[i].name) : i \in usable} |-> entries[Max(named(p))].sha]

(* download_sbom after the yield, and parse_spdx_json: a network error, an HTTP *)
(* status other than 200 and a body that is no SPDX document end with 1.  A     *)
(* field of an unexpected type raises inside the uv callback, upon which luv    *)
(* (external) ends the process.                                                 *)
FetchAndParse ==
    /\ current = Verifier /\ stage = "fetch" /\ exit = None
    /\ \/ got[Verifier] = "error" /\ Return(1) /\ UNCHANGED <<sums, doc, exit>>
       \/ got[Verifier] = "ok" /\ Return(1) /\ UNCHANGED <<sums, doc, exit>>
       \/ /\ got[Verifier] = "ok"
          /\ \E d \in Documents :
               /\ doc' = d
               /\ \/ d.kind = "invalid" /\ Return(1) /\ UNCHANGED <<sums, exit>>
                  \/ /\ d.kind = "odd" /\ stage' = "end"
                     /\ exit' = Uncaught /\ UNCHANGED <<sums, result>>
                  \/ /\ d.kind = "spdx" /\ stage' = "list"
                     /\ sums' = ParseSpdx(d.entries) /\ UNCHANGED <<result, exit>>
    /\ UNCHANGED <<loopVars, config, listed, left, results, hashed>>

(* get_rpm_files: the binding's list or, when it has none or raises, that of   *)
(* the rpm command, which may fail in turn.                                    *)
GetRpmFiles ==
    /\ stage = "list"
    /\ \/ Return(1) /\ UNCHANGED <<listed, left>>
       \/ \E s \in SUBSET Files : \E l \in [{<<"/", f>> : f \in s} -> BOOLEAN] :
            listed' = l /\ left' = DOMAIN l /\ stage' = "check" /\ UNCHANGED result
    /\ UNCHANGED <<loopVars, config, sums, doc, results, hashed, exit>>

(* Mutant: a file that cannot be read is passed over. *)
StatusLenient(p, found) ==
    IF listed[p] /\ ~config THEN "skipped_config"
    ELSE IF p \notin DOMAIN sums THEN "missing_in_sbom"
    ELSE IF found = "absent" THEN "missing_on_disk"
    ELSE IF found \in {"unreadable", "unhashable", sums[p]} THEN "verified"
    ELSE "mismatches"

(* The part of verify_checksums that decides on one file, and                  *)
(* compute_file_sha256: a read that fails half way looks like the end of file. *)
Status(p, found) ==
    IF listed[p] /\ ~config THEN "skipped_config"
    ELSE IF p \notin DOMAIN sums THEN "missing_in_sbom"
    ELSE IF found = "absent" THEN "missing_on_disk"
    ELSE IF found \in {"unreadable", "unhashable"} THEN "errors"
    ELSE IF found = sums[p] THEN "verified"
    ELSE "mismatches"

Opens(p) == (config \/ ~listed[p]) /\ p \in DOMAIN sums

(* Mutant: a skipped file is not in the total. *)
VerifyFileSkippedFirst(p) ==
    /\ stage = "check" /\ p \in left
    /\ \E found \in IF Opens(p) THEN Found ELSE {None} :
         /\ hashed' = [hashed EXCEPT ![p[2]] = found]
         /\ results' = [k \in Fields |->
                          IF k = Status(p, found) \/ (k = "total" /\ Opens(p))
                          THEN results[k] + 1 ELSE results[k]]
    /\ left' = left \ {p}
    /\ UNCHANGED <<loopVars, stage, config, sums, doc, listed, result, exit>>

VerifyFile(p) ==
    /\ stage = "check" /\ p \in left
    /\ \E found \in IF Opens(p) THEN Found ELSE {None} :
         /\ hashed' = [hashed EXCEPT ![p[2]] = found]
         /\ results' = [k \in Fields |->
                          results[k] + IF k \in {"total", Status(p, found)} THEN 1 ELSE 0]
    /\ left' = left \ {p}
    /\ UNCHANGED <<loopVars, stage, config, sums, doc, listed, result, exit>>

(* Mutant: an error hides a failure. *)
ExitCodeErrorsFirst ==
    IF results.errors > 0 THEN 1
    ELSE IF results.mismatches + results.missing_in_sbom + results.missing_on_disk > 0 THEN 2
    ELSE 0

(* has_verification_failures and the end of verify_package. *)
ExitCode ==
    IF results.mismatches > 0 \/ results.missing_in_sbom > 0 \/ results.missing_on_disk > 0 THEN 2
    ELSE IF results.errors > 0 THEN 1 ELSE 0

Summary ==
    /\ stage = "check" /\ left = {}
    /\ Return(ExitCode)
    /\ UNCHANGED <<loopVars, config, sums, doc, listed, left, results, hashed, exit>>

-----------------------------------------------------------------------------
(* The other coroutines, and the loop itself, around verify_package. *)
LoopMoves ==
    /\ exit = None
    /\ \/ \E f \in Fetchers \ {Verifier} : Fetch(f) \/ CoroutineReturns(f)
       \/ stage = "end" /\ CoroutineReturns(Verifier)
       \/ \E f \in Fetchers : InfoRead(f)
       \/ TimerFires \/ InfoEmpty \/ LoopEnds
    /\ UNCHANGED verifyVars

(* The peer of f's socket makes it ready in the polled direction. *)
SocketEvent(f) == exit = None /\ SocketReady(f) /\ UNCHANGED verifyVars

(* M.run: result or 1. *)
Finish ==
    /\ loop = "returned" /\ exit = None
    /\ exit' = IF result = None THEN 1 ELSE result
    /\ UNCHANGED <<loopVars, stage, config, sums, doc, listed, left, results, hashed, result>>

Step ==
    \/ ParseArgs \/ GetPackageInfo \/ Download \/ Run
    \/ FetchAndParse \/ GetRpmFiles \/ (\E p \in left : VerifyFile(p)) \/ Summary
    \/ LoopMoves \/ Finish

Next == Step \/ \E f \in Fetchers : SocketEvent(f)

(* The process is scheduled and its timer fires; the peer need not answer. *)
Spec == Init /\ [][Next]_vars /\ WF_vars(Step)

-----------------------------------------------------------------------------
Expected(f) ==
    LET hits == {i \in DOMAIN doc.entries :
                   /\ doc.entries[i].name \in {"./", "bare", "/"} \X {f}
                   /\ doc.entries[i].sha \in Digests}
    IN IF hits = {} THEN None ELSE doc.entries[Max(hits)].sha

Checked == {p[2] : p \in {q \in DOMAIN listed : config \/ ~listed[q]}}

(* Exit code 0 means that the SBOM came, that every listed file that is not a   *)
(* skipped configuration file was opened and hashed, and that its digest is the *)
(* one of the last entry the SBOM has for it under any spelling.                *)
ExitZeroMeansVerified ==
    exit = 0 => /\ doc # None /\ doc.kind = "spdx" /\ got[Verifier] = "ok"
                /\ \A f \in Checked : hashed[f] = Expected(f) /\ hashed[f] # None

(* Exit code 2 means, in whatever order the files came, that one of them is not *)
(* in the SBOM, not on disk or of another digest, and a run that got as far as  *)
(* the summary exits with 2 for each such file, errors or not.                  *)
ExitTwoMeansMismatch ==
    LET failed == {f \in Checked : \/ Expected(f) = None \/ hashed[f] = "absent"
                                   \/ hashed[f] \in (Digests \cup {"partial"}) \ {Expected(f)}}
    IN /\ exit = 2 => failed # {}
       /\ exit \in {0, 1} /\ left = {} /\ DOMAIN listed # {} => failed = {}

(* Every file is counted once, under one heading: the headings add up to the    *)
(* total, and the total at the end is the number of files listed.               *)
TallyAddsUp ==
    /\ results.total = results.verified + results.mismatches + results.missing_in_sbom
                         + results.missing_on_disk + results.skipped_config + results.errors
    /\ results.total + Cardinality(left) = Cardinality(DOMAIN listed)

(* The exit code of "rpm verify" and its tally tell what was found, in whatever *)
(* order the files came.                                                        *)
ReportIsTrue == ExitZeroMeansVerified /\ ExitTwoMeansMismatch /\ TallyAddsUp

PeersAnswer == \A f \in Fetchers : WF_vars(SocketEvent(f))
DeadlineKept == [](loop = "waiting" /\ Running # {} => timer)

(* The command ends, whatever libcurl reports, if either every polled socket    *)
(* becomes ready at last, or the deadline that download_sbom passes to fetch    *)
(* stays armed while a transfer runs.  Neither is the program's doing alone:    *)
(* curl_perform stops the timer at each event and leaves it to libcurl to set   *)
(* it again, so that with a silent peer and no new timer uv.run does not return.*)
CommandEnds == PeersAnswer \/ DeadlineKept => <>(exit # None)
=============================================================================
