--------------------------- MODULE RpmVerifyProofs ---------------------------
(* What the theorems say of the rpm command, for any number of fetching         *)
(* coroutines, any finite set of files and any SBOM.  LoopInv ties the          *)
(* coroutines to libcurl's transfers and to the handles that keep uv.run going; *)
(* VerifyInv ties the tally to the files already visited.                       *)
EXTENDS RpmVerify, TLAPS

LoopTypeOK ==
    /\ co \in [Fetchers -> {"ready", "waiting", "resumed", "returned"}]
    /\ got \in [Fetchers -> Outcomes \cup {None}]
    /\ requests \subseteq Fetchers
    /\ transfer \in [Fetchers -> {"none", "running", "closed"} \cup Outcomes]
    /\ poll \in [Fetchers -> {"none", "idle", "r", "w"}]
    /\ loop \in {"off", "waiting", "callback", "returned"}
    /\ current \in Fetchers \cup {None}

(* Where the coroutine of f is, given the transfer. *)
CoroutineFits(f) ==
    /\ co[f] = "ready" => transfer[f] = "none"
    /\ co[f] = "waiting" => transfer[f] # "closed"
    /\ co[f] = "resumed" => transfer[f] = got[f] /\ got[f] \in Outcomes
    /\ co[f] = "returned" => transfer[f] = "closed"
    /\ co[f] = "resumed" <=> current = f

(* The request and the poll handle of f, given the transfer; a transfer without *)
(* a poll handle is one that libcurl set the timer for.                         *)
HandlesFit(f) ==
    /\ transfer[f] \in Outcomes \cup {"running"} => f \in requests
    /\ transfer[f] \in Outcomes => loop = "callback"
    /\ poll[f] # "none" => transfer[f] = "running"
    /\ transfer[f] = "running" /\ poll[f] = "none" => loop \in {"off", "waiting"} /\ timer
    /\ loop = "returned" => poll[f] \in {"none", "idle"}

LoopInv ==
    /\ LoopTypeOK
    /\ \A f \in Fetchers : CoroutineFits(f) /\ HandlesFit(f)

(* The steps of the loop and of its coroutines, whoever takes them. *)
StartLoop ==
    /\ loop = "off" /\ loop' = "waiting"
    /\ UNCHANGED <<co, got, requests, transfer, steps, timer, poll, current>>
LoopNext ==
    \/ \E f \in Fetchers : Fetch(f) \/ SocketReady(f) \/ InfoRead(f) \/ CoroutineReturns(f)
    \/ TimerFires \/ InfoEmpty \/ LoopEnds \/ StartLoop

VerifyTypeOK ==
    /\ stage \in {"parse", "lookup", "fetch", "list", "check", "end"}
    /\ DOMAIN listed \subseteq {"/"} \X Files
    /\ left \subseteq DOMAIN listed
    /\ results \in [Fields -> Nat]
    /\ hashed \in [Files -> Found \cup {None}]
    /\ result \in {None, 0, 1, 2}
    /\ exit \in {None, 0, 1, 2, Uncaught}

(* Before the files are listed nothing is counted; while they are, verify_package *)
(* is what the loop has resumed; and the coroutine's value is there at its end.   *)
StageFits ==
    /\ stage \in {"parse", "lookup", "fetch", "list"} =>
         DOMAIN listed = {} /\ results = [k \in Fields |-> 0]
    /\ stage \in {"list", "check"} => current = Verifier /\ exit = None
    /\ stage # "end" => result = None

(* The checksums the files are compared with are those of the body that came. *)
SbomFits ==
    stage \in {"list", "check"} \/ DOMAIN listed # {} \/ result \in {0, 2} =>
      /\ doc \in Documents /\ doc.kind = "spdx" /\ sums = ParseSpdx(doc.entries)
      /\ got[Verifier] = "ok" /\ co[Verifier] \in {"resumed", "returned"}

(* A heading is not zero exactly if some file that was visited comes under it. *)
Visited == DOMAIN listed \ left
HeadingsFit ==
    /\ \A p \in Visited : hashed[p[2]] \in IF Opens(p) THEN Found ELSE {None}
    /\ \A k \in Fields \ {"total"} :
         results[k] > 0 <=> \E p \in Visited : Status(p, hashed[p[2]]) = k

(* The exit code is that of the summary once there was one. *)
CodeFits ==
    /\ stage = "end" /\ (DOMAIN listed # {} \/ result \in {0, 2}) =>
         left = {} /\ result = ExitCode
    /\ exit \in {0, 2} => result = exit
    /\ exit = 1 /\ DOMAIN listed # {} => result = 1

VerifyInv ==
    /\ VerifyTypeOK /\ StageFits /\ SbomFits /\ HeadingsFit /\ CodeFits /\ TallyAddsUp

-----------------------------------------------------------------------------
(* The loop's invariant holds before anything was fetched. *)
LEMMA LoopInitial == LoopInit => LoopInv
  BY NoneAssumption DEF LoopInit, LoopInv, LoopTypeOK, CoroutineFits, HandlesFit, Outcomes

(* A transfer that runs has a coroutine that waits. *)
LEMMA RunningWaits ==
    ASSUME LoopInv, NEW f \in Fetchers, transfer[f] = "running"
    PROVE  co[f] = "waiting"
  BY DEF LoopInv, LoopTypeOK, CoroutineFits, Outcomes

(* After libcurl was told of an event, each transfer that runs has a poll       *)
(* handle, and each that does not has none.                                     *)
LEMMA ActionPolls ==
    ASSUME LoopInv, NEW moved \in SUBSET Running, SocketAction(moved)
    PROVE  /\ transfer' \in [Fetchers -> {"none", "running", "closed"} \cup Outcomes]
           /\ poll' \in [Fetchers -> {"none", "idle", "r", "w"}]
           /\ \A f \in Fetchers :
                /\ transfer'[f] # transfer[f] => transfer[f] = "running" /\ transfer'[f] \in Outcomes
                /\ poll'[f] # "none" <=> transfer'[f] = "running"
  <1>1. PICK over \in SUBSET moved :
        /\ \E ends \in [over -> Outcomes] :
             transfer' = [f \in Fetchers |-> IF f \in over THEN ends[f] ELSE transfer[f]]
        /\ \E asks \in [moved \ over -> {"in", "out", "inout"}] :
             poll' = [f \in Fetchers |->
                        IF f \in over THEN HandleSocket(poll[f], "remove")
                        ELSE IF f \in moved THEN HandleSocket(poll[f], asks[f])
                        ELSE poll[f]]
    BY Zenon DEF SocketAction
  <1>2. PICK ends \in [over -> Outcomes], asks \in [moved \ over -> {"in", "out", "inout"}] :
            /\ transfer' = [f \in Fetchers |-> IF f \in over THEN ends[f] ELSE transfer[f]]
            /\ poll' = [f \in Fetchers |->
                          IF f \in over THEN HandleSocket(poll[f], "remove")
                          ELSE IF f \in moved THEN HandleSocket(poll[f], asks[f])
                          ELSE poll[f]]
    BY <1>1
  <1>3. /\ transfer \in [Fetchers -> {"none", "running", "closed"} \cup Outcomes]
        /\ poll \in [Fetchers -> {"none", "idle", "r", "w"}]
        /\ moved \subseteq Fetchers
        /\ \A f \in moved : transfer[f] = "running"
        /\ \A f \in Fetchers \ moved : transfer[f] = "running" => poll[f] # "none"
        /\ \A f \in Fetchers : poll[f] # "none" => transfer[f] = "running"
    BY DEF LoopInv, LoopTypeOK, HandlesFit, Running, SocketAction
  <1>4. \A p \in {"none", "idle", "r", "w"} :
          /\ HandleSocket(p, "remove") = "none"
          /\ \A a \in {"in", "out", "inout"} : HandleSocket(p, a) \in {"idle", "r", "w"}
    BY DEF HandleSocket
  <1>5. \A f \in Fetchers :
          /\ f \in over => transfer'[f] \in Outcomes /\ poll'[f] = "none"
          /\ f \in moved \ over => transfer'[f] = "running" /\ poll'[f] \in {"idle", "r", "w"}
          /\ f \notin moved => transfer'[f] = transfer[f] /\ poll'[f] = poll[f]
    BY <1>2, <1>3, <1>4
  <1>6. transfer' \in [Fetchers -> {"none", "running", "closed"} \cup Outcomes]
    BY <1>2, <1>3
  <1>7. \A f \in Fetchers : poll'[f] \in {"none", "idle", "r", "w"}
    BY <1>5, <1>3
  <1>8. poll' \in [Fetchers -> {"none", "idle", "r", "w"}]
    <2>1. poll' = [f \in Fetchers |-> poll'[f]]
      BY <1>2
    <2> QED BY <2>1, <1>7
  <1> QED BY <1>3, <1>5, <1>6, <1>8 DEF Outcomes

(* Every step of the loop keeps its invariant. *)
LEMMA LoopStep ==
    ASSUME LoopInv, LoopNext
    PROVE  LoopInv'
  <1>1. ASSUME NEW f \in Fetchers, Fetch(f) PROVE LoopInv'
    <2>1. LoopTypeOK'
      BY <1>1 DEF LoopInv, LoopTypeOK, Fetch
    <2>2. ASSUME NEW g \in Fetchers PROVE CoroutineFits(g)'
      BY <1>1 DEF LoopInv, LoopTypeOK, Fetch, CoroutineFits, Outcomes
    <2>3. ASSUME NEW g \in Fetchers PROVE HandlesFit(g)'
      <3>1. poll[f] = "none"
        BY <1>1 DEF LoopInv, LoopTypeOK, CoroutineFits, HandlesFit, Fetch
      <3> QED BY <1>1, <3>1 DEF LoopInv, LoopTypeOK, Fetch, HandlesFit, Outcomes
    <2> QED BY <2>1, <2>2, <2>3 DEF LoopInv
  <1>2. ASSUME NEW moved \in SUBSET Running, SocketAction(moved),
               loop = "waiting", loop' = "callback", UNCHANGED <<co, got, requests, current>>
        PROVE  LoopInv'
    <2>1. /\ transfer' \in [Fetchers -> {"none", "running", "closed"} \cup Outcomes]
          /\ poll' \in [Fetchers -> {"none", "idle", "r", "w"}]
          /\ \A f \in Fetchers :
               /\ transfer'[f] # transfer[f] => transfer[f] = "running" /\ transfer'[f] \in Outcomes
               /\ poll'[f] # "none" <=> transfer'[f] = "running"
      BY <1>2, ActionPolls
    <2>2. LoopTypeOK'
      BY <1>2, <2>1 DEF LoopInv, LoopTypeOK
    <2>3. ASSUME NEW g \in Fetchers PROVE CoroutineFits(g)'
      BY <1>2, <2>1, RunningWaits DEF LoopInv, LoopTypeOK, CoroutineFits, Outcomes
    <2>4. ASSUME NEW g \in Fetchers PROVE HandlesFit(g)'
      BY <1>2, <2>1 DEF LoopInv, LoopTypeOK, HandlesFit, Outcomes
    <2> QED BY <2>2, <2>3, <2>4 DEF LoopInv
  <1>3. ASSUME NEW f \in Fetchers, InfoRead(f) PROVE LoopInv'
    <2>1. LoopTypeOK'
      BY <1>3 DEF LoopInv, LoopTypeOK, InfoRead, Finished
    <2>2. ASSUME NEW g \in Fetchers PROVE CoroutineFits(g)'
      BY <1>3, NoneAssumption DEF LoopInv, LoopTypeOK, InfoRead, Finished, CoroutineFits
    <2>3. ASSUME NEW g \in Fetchers PROVE HandlesFit(g)'
      BY <1>3 DEF LoopInv, LoopTypeOK, InfoRead, HandlesFit
    <2> QED BY <2>1, <2>2, <2>3 DEF LoopInv
  <1>4. ASSUME NEW f \in Fetchers, CoroutineReturns(f) PROVE LoopInv'
    <2>1. LoopTypeOK'
      BY <1>4 DEF LoopInv, LoopTypeOK, CoroutineReturns
    <2>2. ASSUME NEW g \in Fetchers PROVE CoroutineFits(g)'
      BY <1>4, NoneAssumption DEF LoopInv, LoopTypeOK, CoroutineReturns, CoroutineFits
    <2>3. ASSUME NEW g \in Fetchers PROVE HandlesFit(g)'
      <3>1. transfer[f] \in Outcomes
        BY <1>4 DEF LoopInv, CoroutineReturns, CoroutineFits
      <3> QED BY <1>4, <3>1 DEF LoopInv, LoopTypeOK, CoroutineReturns, HandlesFit, Outcomes
    <2> QED BY <2>1, <2>2, <2>3 DEF LoopInv
  <1>5. ASSUME \/ /\ loop' = "waiting"
                  /\ loop = "off" \/ (loop = "callback" /\ Finished = {})
               \/ /\ loop = "waiting" /\ ~timer /\ loop' = "returned"
                  /\ \A f \in Fetchers : poll[f] \in {"none", "idle"},
               UNCHANGED <<co, got, requests, transfer, steps, timer, poll, current>>
        PROVE  LoopInv'
    <2>1. LoopTypeOK'
      BY <1>5 DEF LoopInv, LoopTypeOK
    <2>2. ASSUME NEW g \in Fetchers PROVE CoroutineFits(g)'
      BY <1>5 DEF LoopInv, CoroutineFits
    <2>3. ASSUME NEW g \in Fetchers PROVE HandlesFit(g)'
      BY <1>5 DEF LoopInv, LoopTypeOK, HandlesFit, Finished, Outcomes
    <2> QED BY <2>1, <2>2, <2>3 DEF LoopInv
  <1>6. CASE \E f \in Fetchers : Fetch(f) \/ InfoRead(f) \/ CoroutineReturns(f)
    BY <1>6, <1>1, <1>3, <1>4
  <1>7. CASE (\E f \in Fetchers : SocketReady(f)) \/ TimerFires
    BY <1>7, <1>2 DEF SocketReady, TimerFires
  <1>8. CASE InfoEmpty \/ LoopEnds \/ StartLoop
    BY <1>8, <1>5 DEF InfoEmpty, LoopEnds, StartLoop
  <1> QED BY <1>6, <1>7, <1>8 DEF LoopNext

(* What the invariant says of a coroutine that is resumed or left behind. *)
LEMMA LoopSafe == LoopInv => TransfersAreResumed
  <1> SUFFICES ASSUME LoopInv PROVE TransfersAreResumed
    OBVIOUS
  <1>1. ResumedByItsTransfer
    BY DEF LoopInv, LoopTypeOK, CoroutineFits, HandlesFit, ResumedByItsTransfer, Finished, Outcomes
  <1>2. AbandonedOnlyUnpolled
    BY DEF LoopInv, LoopTypeOK, CoroutineFits, HandlesFit, AbandonedOnlyUnpolled, Running, Outcomes
  <1> QED BY <1>1, <1>2 DEF TransfersAreResumed

-----------------------------------------------------------------------------
Event == \E f \in Fetchers : SocketEvent(f)

(* The command as a whole moves the loop by its own steps only. *)
LEMMA LoopOfNext == [Next]_vars => LoopNext \/ UNCHANGED loopVars
  <1>1. ParseArgs \/ GetPackageInfo \/ FetchAndParse \/ GetRpmFiles
          \/ (\E p \in left : VerifyFile(p)) \/ Summary \/ Finish => UNCHANGED loopVars
    BY DEF ParseArgs, GetPackageInfo, FetchAndParse, GetRpmFiles, VerifyFile, Summary, Finish
  <1>2. Download \/ Run \/ LoopMoves \/ Event => LoopNext
    BY VerifyAssumption, Zenon DEF Download, Run, RunLoop, StartLoop, LoopMoves, LoopNext, Event, SocketEvent
  <1> QED BY <1>1, <1>2 DEF Next, Step, Event, vars

(* The loop leaves verify_package where it is: what it was resumed with stays,  *)
(* and as long as it has not returned nothing else is resumed.                  *)
LEMMA VerifierKept ==
    ASSUME LoopInv, Download \/ Run \/ LoopMoves \/ Event
    PROVE  /\ UNCHANGED verifyVars
           /\ stage # "end" /\ current = Verifier => current' = Verifier
           /\ co[Verifier] \in {"resumed", "returned"} =>
                co'[Verifier] \in {"resumed", "returned"} /\ got'[Verifier] = got[Verifier]
  <1> USE VerifyAssumption, NoneAssumption
  <1>0. UNCHANGED verifyVars
    BY DEF Download, Run, LoopMoves, Event, SocketEvent
  <1>1. ASSUME NEW f \in Fetchers, Fetch(f)
        PROVE  /\ current' = current /\ got' = got
               /\ co[Verifier] \in {"resumed", "returned"} => co'[Verifier] = co[Verifier]
    BY <1>1 DEF Fetch, LoopInv, LoopTypeOK
  <1>2. ASSUME NEW f \in Fetchers, CoroutineReturns(f), f = Verifier => stage = "end"
        PROVE  /\ stage # "end" /\ current = Verifier => current' = Verifier
               /\ got' = got
               /\ co[Verifier] \in {"resumed", "returned"} => co'[Verifier] \in {"resumed", "returned"}
    BY <1>2 DEF CoroutineReturns, LoopInv, LoopTypeOK
  <1>3. ASSUME NEW f \in Fetchers, InfoRead(f)
        PROVE  /\ current # Verifier
               /\ co[Verifier] \in {"resumed", "returned"} =>
                    co'[Verifier] = co[Verifier] /\ got'[Verifier] = got[Verifier]
    BY <1>3 DEF InfoRead, LoopInv, LoopTypeOK, CoroutineFits, Finished, Outcomes
  <1>4. (\E f \in Fetchers : SocketReady(f)) \/ TimerFires \/ InfoEmpty \/ LoopEnds \/ Run
          => UNCHANGED <<co, got, current>>
    BY DEF SocketReady, TimerFires, InfoEmpty, LoopEnds, Run, RunLoop
  <1>5. CASE Download
    BY <1>0, <1>1, <1>5 DEF Download
  <1>6. CASE Run
    BY <1>0, <1>4, <1>6
  <1>7. CASE LoopMoves
    BY <1>0, <1>1, <1>2, <1>3, <1>4, <1>7 DEF LoopMoves
  <1>8. CASE Event
    BY <1>0, <1>4, <1>8 DEF Event, SocketEvent
  <1> QED BY <1>5, <1>6, <1>7, <1>8

(* The headings depend on nothing but the files, their checksums and the tally. *)
LEMMA HeadingsKept ==
    ASSUME HeadingsFit, UNCHANGED <<config, sums, listed, left, results, hashed>>
    PROVE  HeadingsFit'
  <1>1. Visited' = Visited
    BY DEF Visited
  <1>2. \A p : Opens(p)' = Opens(p)
    BY DEF Opens
  <1>3. \A p : Status(p, hashed[p[2]])' = Status(p, hashed[p[2]])
    BY DEF Status
  <1> QED BY <1>1, <1>2, <1>3 DEF HeadingsFit

(* A step of the loop keeps what is known of verify_package. *)
LEMMA LoopKeepsVerify ==
    ASSUME LoopInv, VerifyInv, Download \/ Run \/ LoopMoves \/ Event
    PROVE  VerifyInv'
  <1>1. UNCHANGED verifyVars
    BY VerifierKept
  <1>2. VerifyTypeOK' /\ CodeFits' /\ TallyAddsUp'
    BY <1>1 DEF VerifyInv, VerifyTypeOK, CodeFits, TallyAddsUp, ExitCode, verifyVars
  <1>3. HeadingsFit'
    BY <1>1, HeadingsKept DEF VerifyInv, verifyVars
  <1>4. StageFits'
    BY <1>1, VerifierKept DEF VerifyInv, StageFits, verifyVars
  <1>5. SbomFits'
    BY <1>1, VerifierKept DEF VerifyInv, SbomFits, verifyVars
  <1> QED BY <1>2, <1>3, <1>4, <1>5 DEF VerifyInv

(* Every file comes under one of the headings. *)
LEMMA StatusIsHeading == \A p, found : Status(p, found) \in Fields \ {"total"}
  BY DEF Status, Fields

(* The summary's code becomes what verify_package returns, and that or 1 what   *)
(* M.run returns.                                                               *)
LEMMA EndStep ==
    ASSUME LoopInv, VerifyInv, Summary \/ Finish
    PROVE  VerifyInv'
  <1>1. /\ UNCHANGED <<loopVars, config, sums, doc, listed, left, results, hashed>>
        /\ exit = None
    BY DEF Summary, Finish, VerifyInv, StageFits
  <1>2. None \notin {0, 1, 2, Uncaught}
    BY VerifyAssumption DEF Uncaught
  <1>3. HeadingsFit' /\ TallyAddsUp'
    BY <1>1, HeadingsKept DEF VerifyInv, TallyAddsUp
  <1>4. ExitCode \in {0, 1, 2} /\ ExitCode' = ExitCode
    BY <1>1 DEF ExitCode
  <1>5. CASE Summary
    <2>1. /\ stage = "check" /\ left = {} /\ stage' = "end" /\ result' = ExitCode /\ exit' = exit
      BY <1>5 DEF Summary, Return
    <2>2. VerifyTypeOK' /\ StageFits' /\ SbomFits' /\ CodeFits'
      BY <1>1, <1>2, <1>4, <2>1 DEF VerifyInv, VerifyTypeOK, StageFits, SbomFits, CodeFits, loopVars
    <2> QED BY <1>3, <2>2 DEF VerifyInv
  <1>6. CASE Finish
    <2>1. /\ loop = "returned" /\ UNCHANGED <<stage, result>>
          /\ exit' = IF result = None THEN 1 ELSE result
      BY <1>6 DEF Finish
    <2>2. stage \notin {"list", "check"}
      <3>1. current = Verifier => loop = "callback"
        BY VerifyAssumption DEF LoopInv, CoroutineFits, HandlesFit
      <3> QED BY <2>1, <3>1 DEF VerifyInv, StageFits
    <2>3. DOMAIN listed # {} => result \in {0, 1, 2}
      BY <1>4, <2>2 DEF VerifyInv, VerifyTypeOK, StageFits, CodeFits
    <2>4. VerifyTypeOK' /\ StageFits' /\ SbomFits'
      BY <1>1, <2>1, <2>2 DEF VerifyInv, VerifyTypeOK, StageFits, SbomFits, loopVars
    <2>5. CodeFits'
      BY <1>1, <1>2, <1>4, <2>1, <2>2, <2>3 DEF VerifyInv, VerifyTypeOK, CodeFits
    <2> QED BY <1>3, <2>4, <2>5 DEF VerifyInv
  <1> QED BY <1>5, <1>6

(* At the end, each file's heading is the one its content deserves. *)
LEMMA EndReport ==
    ASSUME VerifyInv, exit \in {0, 1, 2}, left = {}, DOMAIN listed # {} \/ exit \in {0, 2}
    PROVE  /\ result = exit /\ exit = ExitCode
           /\ doc \in Documents /\ doc.kind = "spdx" /\ sums = ParseSpdx(doc.entries)
           /\ got[Verifier] = "ok"
           /\ \A k \in Fields \ {"total"} :
                results[k] > 0 <=> \E p \in DOMAIN listed : Status(p, hashed[p[2]]) = k
           /\ \A p \in DOMAIN listed : hashed[p[2]] \in IF Opens(p) THEN Found ELSE {None}
  <1>1. None \notin {0, 1, 2, Uncaught}
    BY VerifyAssumption DEF Uncaught
  <1>2. result = exit
    BY DEF VerifyInv, CodeFits
  <1>3. stage = "end"
    BY <1>1, <1>2 DEF VerifyInv, StageFits
  <1>4. exit = ExitCode
    BY <1>2, <1>3 DEF VerifyInv, CodeFits
  <1>5. /\ doc \in Documents /\ doc.kind = "spdx" /\ sums = ParseSpdx(doc.entries)
        /\ got[Verifier] = "ok"
    BY <1>2 DEF VerifyInv, SbomFits
  <1>6. Visited = DOMAIN listed
    BY DEF Visited
  <1> QED BY <1>2, <1>4, <1>5, <1>6 DEF VerifyInv, HeadingsFit

-----------------------------------------------------------------------------
INSTANCE FiniteSetTheorems

(* The files to visit are finitely many, and visiting one leaves one less. *)
LEMMA LeftFinite ==
    ASSUME NEW S \in SUBSET ({"/"} \X Files)
    PROVE  /\ IsFiniteSet(S) /\ Cardinality(S) \in Nat
           /\ \A p \in S : Cardinality(S \ {p}) = Cardinality(S) - 1
  <1>1. IsFiniteSet({"/"} \X Files)
    BY FS_Singleton, FS_Product, VerifyAssumption, Zenon
  <1>2. IsFiniteSet(S)
    BY <1>1, FS_Subset
  <1>3. Cardinality(S) \in Nat
    BY <1>2, FS_CardinalityType
  <1>4. \A p \in S : Cardinality(S \ {p}) = Cardinality(S) - 1
    BY <1>2, FS_RemoveElement
  <1> QED BY <1>2, <1>3, <1>4

(* No file counted yet. *)
Uncounted == left = DOMAIN listed /\ left \subseteq {"/"} \X Files /\ results = [k \in Fields |-> 0]

(* Uncounted files and an empty tally fit each other. *)
LEMMA NothingVisited == Uncounted => HeadingsFit /\ TallyAddsUp
  <1> SUFFICES ASSUME Uncounted PROVE HeadingsFit /\ TallyAddsUp
    OBVIOUS
  <1>1. HeadingsFit
    BY DEF HeadingsFit, Visited, Fields, Uncounted
  <1>2. Cardinality(left) = Cardinality(DOMAIN listed) /\ Cardinality(left) \in Nat
    BY LeftFinite DEF Uncounted
  <1>3. TallyAddsUp
    BY <1>2 DEF TallyAddsUp, Fields, Uncounted
  <1> QED BY <1>1, <1>3

(* The command's initial state. *)
LEMMA VerifyInitial == Init => VerifyInv
  <1> SUFFICES ASSUME Init PROVE VerifyInv
    OBVIOUS
  <1>1. /\ DOMAIN listed = {} /\ left = {} /\ results = [k \in Fields |-> 0]
        /\ stage = "parse" /\ result = None /\ exit = None /\ hashed = [f \in Files |-> None]
    BY DEF Init
  <1>2. HeadingsFit /\ TallyAddsUp
    BY <1>1, NothingVisited DEF Uncounted
  <1>3. VerifyTypeOK
    BY <1>1 DEF VerifyTypeOK
  <1>4. None \notin {0, 1, 2}
    BY VerifyAssumption DEF Uncaught
  <1>5. StageFits /\ SbomFits /\ CodeFits
    BY <1>1, <1>4 DEF StageFits, SbomFits, CodeFits
  <1> QED BY <1>2, <1>3, <1>5 DEF VerifyInv

(* The steps of verify_package before the files are listed count nothing. *)
LEMMA EarlyStep ==
    ASSUME LoopInv, VerifyInv, ParseArgs \/ GetPackageInfo \/ FetchAndParse
    PROVE  VerifyInv'
  <1>1. /\ stage \in {"parse", "lookup", "fetch"} /\ exit = None
        /\ UNCHANGED <<loopVars, listed, left, results, hashed>>
    BY DEF ParseArgs, GetPackageInfo, FetchAndParse
  <1>2. /\ DOMAIN listed = {} /\ left = {} /\ results = [k \in Fields |-> 0] /\ result = None
    BY <1>1 DEF VerifyInv, VerifyTypeOK, StageFits
  <1>3. HeadingsFit' /\ TallyAddsUp'
    <2>1. Uncounted'
      BY <1>1, <1>2 DEF Uncounted
    <2> QED BY <2>1, NothingVisited, PTL
  <1>4. None \notin {0, 1, 2, Uncaught}
    BY VerifyAssumption DEF Uncaught
  <1>5. /\ stage' \in {"lookup", "fetch", "list", "end"}
        /\ result' \in {None, 1} /\ exit' \in {None, 1, Uncaught}
        /\ stage' # "end" => result' = None /\ exit' = None
        /\ stage' = "list" => /\ current = Verifier /\ got[Verifier] = "ok"
                              /\ doc' \in Documents /\ doc'.kind = "spdx"
                              /\ sums' = ParseSpdx(doc'.entries)
    BY <1>1, <1>2 DEF ParseArgs, GetPackageInfo, FetchAndParse, Return
  <1>6. VerifyTypeOK'
    BY <1>1, <1>5 DEF VerifyInv, VerifyTypeOK
  <1>7. StageFits'
    BY <1>1, <1>2, <1>5 DEF StageFits, loopVars
  <1>8. SbomFits'
    <2>1. current = Verifier => co[Verifier] = "resumed"
      BY VerifyAssumption DEF LoopInv, CoroutineFits
    <2> QED BY <1>1, <1>2, <1>4, <1>5, <2>1 DEF SbomFits, loopVars
  <1>9. CodeFits'
    BY <1>1, <1>2, <1>4, <1>5 DEF CodeFits, Uncaught
  <1> QED BY <1>3, <1>6, <1>7, <1>8, <1>9 DEF VerifyInv

(* get_rpm_files lists what verify_checksums then visits. *)
LEMMA ListStep ==
    ASSUME LoopInv, VerifyInv, GetRpmFiles
    PROVE  VerifyInv'
  <1>1. /\ stage = "list" /\ result = None /\ exit = None /\ current = Verifier
        /\ DOMAIN listed = {} /\ left = {} /\ results = [k \in Fields |-> 0]
        /\ UNCHANGED <<loopVars, config, sums, doc, results, hashed, exit>>
    BY DEF GetRpmFiles, VerifyInv, VerifyTypeOK, StageFits
  <1>2. /\ left' = DOMAIN listed' /\ left' \subseteq {"/"} \X Files
        /\ \/ stage' = "end" /\ result' = 1 /\ DOMAIN listed' = {}
           \/ stage' = "check" /\ result' = None
    <2>1. CASE Return(1) /\ UNCHANGED <<listed, left>>
      BY <1>1, <2>1 DEF Return
    <2>2. CASE \E s \in SUBSET Files : \E l \in [{<<"/", f>> : f \in s} -> BOOLEAN] :
                 listed' = l /\ left' = DOMAIN l /\ stage' = "check" /\ UNCHANGED result
      BY <1>1, <2>2
    <2> QED BY <2>1, <2>2, Zenon DEF GetRpmFiles
  <1>3. HeadingsFit' /\ TallyAddsUp'
    <2>1. Uncounted'
      BY <1>1, <1>2 DEF Uncounted
    <2> QED BY <2>1, NothingVisited, PTL
  <1>4. None \notin {0, 1, 2, Uncaught}
    BY VerifyAssumption DEF Uncaught
  <1>5. VerifyTypeOK'
    BY <1>1, <1>2 DEF VerifyInv, VerifyTypeOK
  <1>6. StageFits'
    BY <1>1, <1>2 DEF StageFits, loopVars
  <1>7. SbomFits'
    BY <1>1, <1>2, <1>4 DEF VerifyInv, SbomFits, loopVars
  <1>8. CodeFits'
    BY <1>1, <1>2, <1>4 DEF CodeFits
  <1> QED BY <1>3, <1>5, <1>6, <1>7, <1>8 DEF VerifyInv

(* verify_checksums counts one file under its heading and in the total. *)
LEMMA FileStep ==
    ASSUME VerifyInv, NEW p \in left, VerifyFile(p)
    PROVE  VerifyInv'
  <1>1. /\ stage = "check" /\ result = None /\ exit = None /\ left' = left \ {p}
        /\ UNCHANGED <<loopVars, stage, config, sums, doc, listed, result, exit>>
    BY DEF VerifyFile, VerifyInv, StageFits
  <1>2. PICK found \in IF Opens(p) THEN Found ELSE {None} :
          /\ hashed' = [hashed EXCEPT ![p[2]] = found]
          /\ results' = [k \in Fields |->
                           results[k] + IF k \in {"total", Status(p, found)} THEN 1 ELSE 0]
    BY Zenon DEF VerifyFile
  <1>3. /\ p \in DOMAIN listed /\ DOMAIN listed \subseteq {"/"} \X Files
        /\ left \subseteq DOMAIN listed /\ p[2] \in Files
        /\ results \in [Fields -> Nat] /\ hashed \in [Files -> Found \cup {None}]
    BY DEF VerifyInv, VerifyTypeOK
  <1>4. found \in Found \cup {None} /\ Status(p, found) \in Fields \ {"total"}
    BY StatusIsHeading
  <1>5. VerifyTypeOK'
    BY <1>1, <1>2, <1>3, <1>4 DEF VerifyInv, VerifyTypeOK
  <1>6. StageFits' /\ SbomFits' /\ CodeFits'
    BY <1>1 DEF VerifyInv, StageFits, SbomFits, CodeFits, loopVars
  <1>7. /\ Visited' = Visited \cup {p} /\ p \notin Visited
        /\ hashed'[p[2]] = found
        /\ \A q \in Visited : hashed'[q[2]] = hashed[q[2]]
    <2>1. Visited' = Visited \cup {p} /\ p \notin Visited
      BY <1>1, <1>3 DEF Visited
    <2>2. \A q \in Visited : q[2] # p[2]
      BY <2>1, <1>3 DEF Visited
    <2> QED BY <1>2, <1>3, <2>1, <2>2
  <1>8. HeadingsFit'
    <2>1. \A q : Opens(q)' = Opens(q) /\ Status(q, hashed[q[2]])' = Status(q, hashed'[q[2]])
      BY <1>1 DEF Opens, Status
    <2>2. ASSUME NEW q \in Visited'
          PROVE  hashed'[q[2]] \in IF Opens(q)' THEN Found ELSE {None}
      BY <1>7, <2>1, <2>2 DEF VerifyInv, HeadingsFit
    <2>3. ASSUME NEW k \in Fields \ {"total"}
          PROVE  results'[k] > 0 <=> \E q \in Visited' : Status(q, hashed[q[2]])' = k
      <3>1. CASE k = Status(p, found)
        <4>1. results'[k] > 0
          BY <1>2, <1>3, <3>1
        <4> QED BY <4>1, <1>7, <2>1, <3>1
      <3>2. CASE k # Status(p, found)
        <4>1. results'[k] = results[k]
          BY <1>2, <1>3, <2>3, <3>2
        <4>2. results[k] > 0 <=> \E q \in Visited : Status(q, hashed[q[2]]) = k
          BY <2>3 DEF VerifyInv, HeadingsFit
        <4> QED BY <4>1, <4>2, <1>7, <2>1, <3>2
      <3> QED BY <3>1, <3>2
    <2> QED BY <2>2, <2>3 DEF HeadingsFit
  <1>9. TallyAddsUp'
    <2>1. Cardinality(left \ {p}) = Cardinality(left) - 1 /\ Cardinality(left) \in Nat
      BY <1>3, LeftFinite
    <2>2. /\ results'.total = results'.verified + results'.mismatches + results'.missing_in_sbom
                               + results'.missing_on_disk + results'.skipped_config + results'.errors
          /\ results'.total = results.total + 1 /\ results.total \in Nat
      BY <1>2, <1>3, <1>4 DEF VerifyInv, TallyAddsUp, Fields
    <2> QED BY <1>1, <2>1, <2>2 DEF VerifyInv, TallyAddsUp
  <1> QED BY <1>5, <1>6, <1>8, <1>9 DEF VerifyInv

-----------------------------------------------------------------------------
(* A set of positions has a last one. *)
LEMMA LastPosition ==
    ASSUME NEW n \in Nat, NEW S \in SUBSET (1..n), S # {}
    PROVE  Max(S) \in S
  <1> DEFINE T == {n - x : x \in S}
  <1>1. T \in SUBSET Nat /\ T # {}
    <2>1. \A x \in S : n - x \in Nat
      OBVIOUS
    <2> QED BY <2>1, Zenon
  <1>2. PICK t \in T : \A u \in T : ~(<<u, t>> \in OpToRel(<, Nat))
    <2> HIDE DEF T
    <2> QED BY <1>1, NatLessThanWellFounded, WFMin, Zenon
  <1>3. PICK x \in S : t = n - x
    OBVIOUS
  <1>4. \A y \in S : ~(n - y < n - x)
    <2>1. \A u \in T : u < t => <<u, t>> \in OpToRel(<, Nat)
      <3> HIDE DEF T
      <3> QED BY <1>1 DEF OpToRel
    <2>2. \A u \in T : ~(u < t)
      BY <1>2, <2>1, Zenon
    <2> QED BY <1>3, <2>2, Zenon
  <1>5. \A y \in S : x >= y
    BY <1>4
  <1>6. \E z \in S : \A y \in S : z >= y
    BY <1>5
  <1> QED BY <1>6, Zenon DEF Max

(* The checksum parse_spdx_json keeps for a path is that of the last entry that *)
(* has one for the file, however it spells the name.                            *)
LEMMA SpdxExpected ==
    ASSUME doc \in Documents, NEW f \in Files
    PROVE  /\ <<"/", f>> \in DOMAIN ParseSpdx(doc.entries) =>
                Expected(f) = ParseSpdx(doc.entries)[<<"/", f>>] /\ Expected(f) # None
           /\ <<"/", f>> \notin DOMAIN ParseSpdx(doc.entries) => Expected(f) = None
  <1> DEFINE es == doc.entries
             usable == {i \in DOMAIN es : es[i].name # None /\ es[i].sha \in Digests}
             named == {i \in usable : Normalized(es[i].name) = <<"/", f>>}
             hits == {i \in DOMAIN es : /\ es[i].name \in {"./", "bare", "/"} \X {f}
                                        /\ es[i].sha \in Digests}
  <1>1. es \in Seq([name : (Prefixes \X Files) \cup {None}, sha : Digests \cup {None}])
    BY DocumentsAssumption, Zenon
  <1>2. \A x \in Prefixes \X Files :
          Normalized(x) = <<"/", f>> <=> x \in {"./", "bare", "/"} \X {f}
    BY DEF Normalized, Prefixes
  <1>3. named = hits
    <2>1. \A i \in DOMAIN es : es[i].name \in (Prefixes \X Files) \cup {None}
      <3> DEFINE Item == [name : (Prefixes \X Files) \cup {None}, sha : Digests \cup {None}]
      <3>1. \A i \in DOMAIN es : es[i] \in Item
        <4>1. es \in Seq(Item)
          BY <1>1
        <4> HIDE DEF Item, es
        <4> QED BY <4>1
      <3> HIDE DEF es
      <3> QED BY <3>1
    <2>2. {"./", "bare", "/"} \X {f} \subseteq Prefixes \X Files
      BY DEF Prefixes
    <2>3. None \notin Prefixes \X Files
      BY VerifyAssumption
    <2> HIDE DEF es
    <2> QED BY <1>2, <2>1, <2>2, <2>3
  <1>4. /\ DOMAIN ParseSpdx(es) = {Normalized(es[i].name) : i \in usable}
        /\ <<"/", f>> \in DOMAIN ParseSpdx(es) =>
             ParseSpdx(es)[<<"/", f>>] = es[Max(named)].sha
    BY DEF ParseSpdx
  <1>5. <<"/", f>> \in DOMAIN ParseSpdx(es) <=> named # {}
    BY <1>4
  <1>6. Expected(f) = IF hits = {} THEN None ELSE es[Max(hits)].sha
    BY Zenon DEF Expected
  <1>7. hits # {} => es[Max(hits)].sha \in Digests
    <2>1. hits \in SUBSET (1..Len(es)) /\ Len(es) \in Nat
      BY <1>1
    <2>2. hits # {} => Max(hits) \in hits
      <3> HIDE DEF hits
      <3> QED BY <2>1, LastPosition, Zenon
    <2> QED BY <2>2
  <1>8. None \notin Digests
    BY VerifyAssumption DEF Found
  <1> HIDE DEF es, usable, named, hits
  <1>9. /\ <<"/", f>> \in DOMAIN ParseSpdx(es) =>
             Expected(f) = ParseSpdx(es)[<<"/", f>>] /\ Expected(f) # None
        /\ <<"/", f>> \notin DOMAIN ParseSpdx(es) => Expected(f) = None
    BY <1>3, <1>4, <1>5, <1>6, <1>7, <1>8
  <1> QED BY <1>9 DEF es

(* Exit codes 0 and 2 mean what they say. *)
LEMMA VerifySafe == VerifyInv => ReportIsTrue
  <1> SUFFICES ASSUME VerifyInv PROVE ReportIsTrue
    OBVIOUS
  <1> DEFINE failed == {f \in Checked : \/ Expected(f) = None \/ hashed[f] = "absent"
                                       \/ hashed[f] \in (Digests \cup {"partial"}) \ {Expected(f)}}
             bad == {p \in DOMAIN listed : Status(p, hashed[p[2]])
                       \in {"mismatches", "missing_in_sbom", "missing_on_disk"}}
  <1>1. exit \in {0, 2} => left = {}
    <2>1. None \notin {0, 2}
      BY VerifyAssumption DEF Uncaught
    <2> QED BY <2>1 DEF VerifyInv, StageFits, CodeFits
  <1>2. ASSUME exit \in {0, 1, 2}, left = {}, DOMAIN listed # {} \/ exit \in {0, 2},
               NEW p \in DOMAIN listed
        PROVE  /\ p = <<"/", p[2]>> /\ p[2] \in Files
               /\ p \in DOMAIN sums => Expected(p[2]) = sums[p] /\ Expected(p[2]) # None
               /\ p \notin DOMAIN sums => Expected(p[2]) = None
               /\ Opens(p) => hashed[p[2]] \in Found
    <2>1. p = <<"/", p[2]>> /\ p[2] \in Files
      BY DEF VerifyInv, VerifyTypeOK
    <2>2. /\ doc \in Documents /\ sums = ParseSpdx(doc.entries)
          /\ hashed[p[2]] \in IF Opens(p) THEN Found ELSE {None}
      BY <1>2, EndReport
    <2>3. /\ <<"/", p[2]>> \in DOMAIN sums =>
               Expected(p[2]) = sums[<<"/", p[2]>>] /\ Expected(p[2]) # None
          /\ <<"/", p[2]>> \notin DOMAIN sums => Expected(p[2]) = None
      BY <2>1, <2>2, SpdxExpected, Zenon
    <2> QED BY <2>1, <2>2, <2>3
  <1>3. ASSUME exit \in {0, 1, 2}, left = {}, DOMAIN listed # {} \/ exit \in {0, 2},
               NEW p \in DOMAIN listed
        PROVE  /\ p \in bad <=> (config \/ ~listed[p]) /\ p[2] \in failed
               /\ config \/ ~listed[p] => \/ p \in bad
                                          \/ Status(p, hashed[p[2]]) = "errors"
                                          \/ /\ hashed[p[2]] = Expected(p[2])
                                             /\ hashed[p[2]] # None
    <2> DEFINE x == hashed[p[2]]
    <2>1. p[2] \in Checked <=> config \/ ~listed[p]
      <3>1. \A q \in DOMAIN listed : q[2] = p[2] => q = p
        BY <1>2, <1>3
      <3> QED BY <3>1 DEF Checked
    <2>2. p[2] \in failed <=>
            /\ config \/ ~listed[p]
            /\ \/ Expected(p[2]) = None \/ x = "absent"
               \/ x \in (Digests \cup {"partial"}) \ {Expected(p[2])}
      BY <2>1
    <2>3. CASE listed[p] /\ ~config
      BY <2>2, <2>3 DEF Status
    <2>4. CASE (config \/ ~listed[p]) /\ p \notin DOMAIN sums
      BY <1>2, <1>3, <2>2, <2>4 DEF Status
    <2>5. CASE Opens(p)
      <3>1. /\ x \in Found /\ None \notin Found /\ Digests \cap Unhashed = {}
            /\ Expected(p[2]) = sums[p] /\ Expected(p[2]) # None
            /\ p \in DOMAIN sums /\ (config \/ ~listed[p])
        BY <1>2, <1>3, <2>5, VerifyAssumption DEF Opens
      <3>2. Status(p, x) = IF x = "absent" THEN "missing_on_disk"
                           ELSE IF x \in {"unreadable", "unhashable"} THEN "errors"
                           ELSE IF x = sums[p] THEN "verified" ELSE "mismatches"
        BY <3>1 DEF Status
      <3> HIDE DEF x, failed
      <3>3. Status(p, x) \in {"mismatches", "missing_in_sbom", "missing_on_disk"}
              <=> p[2] \in failed
        BY <2>2, <3>1, <3>2 DEF Found, Unhashed
      <3>4. \/ Status(p, x) \in {"mismatches", "missing_in_sbom", "missing_on_disk", "errors"}
            \/ x = Expected(p[2]) /\ x # None
        BY <3>1, <3>2
      <3> QED BY <3>1, <3>3, <3>4 DEF x
    <2> QED BY <2>3, <2>4, <2>5 DEF Opens
  <1>4. ASSUME exit \in {0, 1, 2}, left = {}, DOMAIN listed # {} \/ exit \in {0, 2}
        PROVE  /\ exit = ExitCode
               /\ bad # {} <=> exit = 2
               /\ failed # {} <=> bad # {}
    <2>1. /\ exit = ExitCode
          /\ \A k \in Fields \ {"total"} :
                results[k] > 0 <=> \E p \in DOMAIN listed : Status(p, hashed[p[2]]) = k
      BY <1>4, EndReport
    <2>2. bad # {} <=> \/ results["mismatches"] > 0 \/ results["missing_in_sbom"] > 0
                       \/ results["missing_on_disk"] > 0
      BY <2>1 DEF Fields
    <2>3. bad # {} <=> exit = 2
      BY <2>1, <2>2 DEF ExitCode
    <2>4. failed # {} <=> bad # {}
      <3>1. \A f \in failed : \E p \in DOMAIN listed : (config \/ ~listed[p]) /\ p[2] = f
        BY DEF Checked
      <3> HIDE DEF failed, bad
      <3>2. \A p \in bad : p \in DOMAIN listed
        BY DEF bad
      <3> QED BY <1>3, <1>4, <3>1, <3>2
    <2> QED BY <2>1, <2>3, <2>4
  <1>5. ExitTwoMeansMismatch
    <2>1. exit = 2 => failed # {}
      BY <1>1, <1>4
    <2>2. exit \in {0, 1} /\ left = {} /\ DOMAIN listed # {} => failed = {}
      BY <1>4
    <2> QED BY <2>1, <2>2 DEF ExitTwoMeansMismatch
  <1>6. ExitZeroMeansVerified
    <2> SUFFICES ASSUME exit = 0
                 PROVE  /\ doc # None /\ doc.kind = "spdx" /\ got[Verifier] = "ok"
                        /\ \A f \in Checked : hashed[f] = Expected(f) /\ hashed[f] # None
      BY DEF ExitZeroMeansVerified
    <2>1. left = {} /\ bad = {} /\ ExitCode = 0
      BY <1>1, <1>4
    <2>2. /\ doc \in Documents /\ doc.kind = "spdx" /\ got[Verifier] = "ok"
          /\ results["errors"] > 0 <=> \E p \in DOMAIN listed : Status(p, hashed[p[2]]) = "errors"
      BY <2>1, EndReport DEF Fields
    <2>3. ~(results["errors"] > 0)
      BY <2>1 DEF ExitCode
    <2>4. ASSUME NEW f \in Checked PROVE hashed[f] = Expected(f) /\ hashed[f] # None
      <3>1. PICK p \in DOMAIN listed : (config \/ ~listed[p]) /\ f = p[2]
        BY DEF Checked
      <3> HIDE DEF failed, bad
      <3> QED BY <1>3, <2>1, <2>2, <2>3, <3>1
    <2> QED BY <2>2, <2>4, VerifyAssumption
  <1> QED BY <1>5, <1>6 DEF VerifyInv, ReportIsTrue

-----------------------------------------------------------------------------
(* Every step of the command keeps both invariants. *)
LEMMA RpmStep == LoopInv /\ VerifyInv /\ [Next]_vars => LoopInv' /\ VerifyInv'
  <1> SUFFICES ASSUME LoopInv, VerifyInv, [Next]_vars PROVE LoopInv' /\ VerifyInv'
    OBVIOUS
  <1>1. LoopInv'
    <2>1. CASE LoopNext
      BY <2>1, LoopStep
    <2>2. CASE UNCHANGED loopVars
      BY <2>2 DEF LoopInv, LoopTypeOK, CoroutineFits, HandlesFit, loopVars
    <2> QED BY <2>1, <2>2, LoopOfNext
  <1>2. CASE ParseArgs \/ GetPackageInfo \/ FetchAndParse
    BY <1>1, <1>2, EarlyStep
  <1>3. CASE GetRpmFiles
    BY <1>1, <1>3, ListStep
  <1>4. CASE \E p \in left : VerifyFile(p)
    BY <1>1, <1>4, FileStep
  <1>5. CASE Summary \/ Finish
    BY <1>1, <1>5, EndStep
  <1>6. CASE Download \/ Run \/ LoopMoves \/ Event
    BY <1>1, <1>6, LoopKeepsVerify
  <1>7. CASE UNCHANGED vars
    <2>1. UNCHANGED verifyVars /\ UNCHANGED loopVars
      BY <1>7 DEF vars
    <2>2. VerifyTypeOK' /\ TallyAddsUp'
      BY <2>1 DEF VerifyInv, VerifyTypeOK, TallyAddsUp, verifyVars
    <2>4. StageFits' /\ SbomFits'
      BY <2>1 DEF VerifyInv, StageFits, SbomFits, verifyVars, loopVars
    <2>5. CodeFits'
      BY <2>1 DEF VerifyInv, CodeFits, ExitCode, verifyVars
    <2>3. HeadingsFit'
      BY <2>1, HeadingsKept DEF VerifyInv, verifyVars
    <2> QED BY <1>1, <2>2, <2>3, <2>4, <2>5 DEF VerifyInv
  <1> QED BY <1>2, <1>3, <1>4, <1>5, <1>6, <1>7 DEF Next, Step, Event

(* A coroutine that waits in fetch is resumed by its own transfer's message     *)
(* with its outcome, and uv.run leaves one behind only if libcurl has neither a *)
(* timer nor a polled direction for it, however many coroutines fetch.          *)
THEOREM TransfersCorrect == Spec => []TransfersAreResumed
  <1>1. Init => LoopInv /\ VerifyInv
    BY LoopInitial, VerifyInitial DEF Init
  <1> QED BY <1>1, RpmStep, LoopSafe, PTL DEF Spec

(* For any SBOM and any files: exit code 0 means that every file checked has    *)
(* the digest of the last SBOM entry for it, exit code 2 that one does not, and *)
(* every file is counted once.                                                  *)
THEOREM ReportCorrect == Spec => []ReportIsTrue
  <1>1. Init => LoopInv /\ VerifyInv
    BY LoopInitial, VerifyInitial DEF Init
  <1> QED BY <1>1, RpmStep, VerifySafe, PTL DEF Spec
=============================================================================
