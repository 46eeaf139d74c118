---------------------------- MODULE CommandsProofs ---------------------------
(***************************************************************************)
(* The lua-lsm command, for every number of processes and edits; the start *)
(* of the program, for every list of libraries; and the levels of seharden, *)
(* for every profile, whatever its levels inherit from.                    *)
(***************************************************************************)
EXTENDS LuaLsm, Startup, ProfileLevels, TLAPS


-----------------------------------------------------------------------------
Places == {"start", "validated", "load_file", "write", "blocks", "buffered", "done"}

LsmTypeOK ==
    /\ file \in Contents \cup {Missing} /\ edits \in Nat
    /\ cmd \in [Procs -> Commands]
    /\ at \in [Procs -> Places]
    /\ checked \in [Procs -> Contents \cup {Missing}]
    /\ source \in [Procs -> Contents \cup {Missing}]
    /\ cut \subseteq Procs /\ stale \subseteq Procs
    /\ granted \in [Procs -> Nat] /\ rejected \in [Procs -> Nat]
    /\ exit \in [Procs -> {-1, 0, 1}]

(* The requests that a process has made, and how they went, follow from where *)
(* it is and whether its source was cut.                                       *)
CountsOf(p) ==
    /\ at[p] = "validated" => cmd[p] = "load"
    /\ at[p] = "load_file" => cmd[p] \in {"load", "load_unchecked"}
    /\ at[p] \in {"write", "blocks", "buffered"} => cmd[p] \notin {"list", "status"}
    /\ at[p] = "blocks" => cmd[p] # "unload"
    /\ at[p] = "done" <=> exit[p] # -1
    /\ at[p] # "done" => rejected[p] = 0
    /\ at[p] \notin {"buffered", "done"} => granted[p] = 0 /\ p \notin cut
    /\ at[p] = "buffered" => \/ granted[p] = 0 /\ p \notin cut
                             \/ granted[p] = 1 /\ p \in cut
    /\ exit[p] = 1 => granted[p] = 0 /\ rejected[p] \in {0, 1}
    /\ exit[p] = 0 => \/ cmd[p] \in {"list", "status"}
                      \/ p \notin cut /\ granted[p] = 1 /\ rejected[p] = 0
                      \/ p \notin cut /\ granted[p] = 0 /\ rejected[p] = 1
                      \/ p \in cut /\ granted[p] = 2 /\ rejected[p] = 0
                      \/ p \in cut /\ granted[p] = 1 /\ rejected[p] = 1

(* Unless somebody edits the file between the two reads of a process, what it   *)
(* validated is what is on disk then and what it sends.                         *)
HoldsOf(p) ==
    cmd[p] = "load" =>
        /\ at[p] \notin {"start", "done"} => checked[p] \in Contents /\ checked[p].valid
        /\ p \notin stale /\ at[p] \in {"validated", "load_file"} => checked[p] = file
        /\ p \notin stale /\ (at[p] \in {"write", "blocks", "buffered"} \/ rejected[p] # 0)
              => source[p] = checked[p]

Beaten(p) ==
    \E q \in Procs \ {p} :
        /\ cmd[q] # "unload" /\ granted[q] # 0
        /\ source[q].name = checked[p].name \/ q \in cut

(* From the check on, the name is in the table only if another process put it  *)
(* there.                                                                      *)
CauseOf(p) ==
    /\ cmd[p] = "load" /\ p \notin stale \cup cut
    /\ "modules" \in abi /\ checked[p].name \notin HeaderWords
    /\ \/ rejected[p] # 0 /\ source[p].accepted
       \/ /\ at[p] \in {"load_file", "write", "blocks", "buffered"}
          /\ checked[p].name \in loaded
    => Beaten(p)

LsmInv ==
    /\ LsmTypeOK
    /\ \A p \in Procs : CountsOf(p) /\ HoldsOf(p) /\ CauseOf(p)

(* The command line starts with nothing sent. *)
LEMMA LsmInitial == LsmInit => LsmInv
<1> SUFFICES ASSUME LsmInit PROVE LsmInv
    OBVIOUS
<1>1. LsmTypeOK
    BY DEF LsmInit, LsmTypeOK, Places
<1>2. ASSUME NEW p \in Procs PROVE CountsOf(p) /\ HoldsOf(p) /\ CauseOf(p)
    <2>1. at[p] = "start" /\ exit[p] = -1 /\ granted[p] = 0 /\ rejected[p] = 0 /\ p \notin cut
        BY DEF LsmInit
    <2> QED
        BY <2>1 DEF CountsOf, HoldsOf, CauseOf
<1> QED
    BY <1>1, <1>2 DEF LsmInv

(* A step of one process changes what belongs to it alone, and the table. *)
LEMMA OthersWait ==
    ASSUME LsmTypeOK, NEW p \in Procs, Step(p)
    PROVE  /\ LsmTypeOK'
           /\ UNCHANGED <<file, edits, stale, abi, cmd>>
           /\ cut \subseteq cut' /\ cut' \subseteq cut \cup {p}
           /\ \A q \in Procs \ {p} :
                 /\ at'[q] = at[q] /\ exit'[q] = exit[q]
                 /\ checked'[q] = checked[q] /\ source'[q] = source[q]
                 /\ granted'[q] = granted[q] /\ rejected'[q] = rejected[q]
<1> USE DEF LsmTypeOK, Places, Goto, Exit, Static, KernelIdle
<1>1. CASE ValidateFile(p)
    BY <1>1 DEF ValidateFile
<1>2. CASE CheckLoaded(p)
    BY <1>2 DEF CheckLoaded
<1>3. CASE SkipValidation(p)
    BY <1>3 DEF SkipValidation
<1>4. CASE LoadFile(p)
    BY <1>4 DEF LoadFile
<1>5. CASE BeginUnload(p)
    BY <1>5 DEF BeginUnload
<1>6. CASE OpenAndWrite(p)
    BY <1>6 DEF OpenAndWrite
<1>7. CASE CloseFlushes(p)
    BY <1>7 DEF CloseFlushes, Request
<1>8. CASE ReadCommand(p)
    BY <1>8 DEF ReadCommand
<1>9. CASE WriteBlocks(p)
    BY <1>9 DEF WriteBlocks, Request
<1> QED
    BY <1>1, <1>2, <1>3, <1>4, <1>5, <1>6, <1>7, <1>8, <1>9 DEF Step

(* A process that moves makes the requests of its place. *)
LEMMA CountsMove ==
    ASSUME LsmTypeOK, NEW p \in Procs, CountsOf(p), Step(p)
    PROVE  CountsOf(p)'
<1> USE DEF LsmTypeOK, Places, Goto, Exit, Static, KernelIdle, CountsOf
<1>1. CASE ValidateFile(p)
    BY <1>1 DEF ValidateFile
<1>2. CASE CheckLoaded(p)
    BY <1>2 DEF CheckLoaded
<1>3. CASE SkipValidation(p)
    BY <1>3 DEF SkipValidation
<1>4. CASE LoadFile(p)
    BY <1>4 DEF LoadFile
<1>5. CASE BeginUnload(p)
    BY <1>5 DEF BeginUnload
<1>6. CASE OpenAndWrite(p)
    BY <1>6 DEF OpenAndWrite
<1>7. CASE CloseFlushes(p)
    BY <1>7 DEF CloseFlushes, Request
<1>8. CASE ReadCommand(p)
    BY <1>8 DEF ReadCommand
<1>9. CASE WriteBlocks(p)
    BY <1>9 DEF WriteBlocks, Request
<1> QED
    BY <1>1, <1>2, <1>3, <1>4, <1>5, <1>6, <1>7, <1>8, <1>9 DEF Step

(* A process that moves holds what it validated. *)
LEMMA HoldsMove ==
    ASSUME LsmTypeOK, NEW p \in Procs, CountsOf(p), HoldsOf(p), Step(p)
    PROVE  HoldsOf(p)'
<1> USE DEF LsmTypeOK, Places, Goto, Exit, Static, KernelIdle, CountsOf, HoldsOf
<1>1. CASE ValidateFile(p)
    BY <1>1 DEF ValidateFile
<1>2. CASE CheckLoaded(p)
    BY <1>2 DEF CheckLoaded
<1>3. CASE SkipValidation(p)
    BY <1>3 DEF SkipValidation
<1>4. CASE LoadFile(p)
    BY <1>4 DEF LoadFile
<1>5. CASE BeginUnload(p)
    BY <1>5 DEF BeginUnload
<1>6. CASE OpenAndWrite(p)
    BY <1>6 DEF OpenAndWrite
<1>7. CASE CloseFlushes(p)
    BY <1>7 DEF CloseFlushes, Request
<1>8. CASE ReadCommand(p)
    BY <1>8 DEF ReadCommand
<1>9. CASE WriteBlocks(p)
    BY <1>9 DEF WriteBlocks, Request
<1> QED
    BY <1>1, <1>2, <1>3, <1>4, <1>5, <1>6, <1>7, <1>8, <1>9 DEF Step

(* Whoever was beaten to a name stays beaten: a process that has made a request *)
(* reads no other source.                                                       *)
LEMMA BeatenStays ==
    ASSUME LsmTypeOK, NEW p \in Procs, Step(p), CountsOf(p),
           NEW q \in Procs, checked'[q] = checked[q], Beaten(q)
    PROVE  Beaten(q)'
<1>1. PICK r \in Procs \ {q} :
          /\ cmd[r] # "unload" /\ granted[r] # 0
          /\ source[r].name = checked[q].name \/ r \in cut
    BY DEF Beaten
<1>2. CASE r # p
    BY <1>1, <1>2, OthersWait DEF Beaten
<1>3. CASE r = p
    <2>1. CloseFlushes(p)
        BY <1>1, <1>3 DEF Step, ValidateFile, CheckLoaded, SkipValidation, LoadFile, BeginUnload,
               OpenAndWrite, WriteBlocks, ReadCommand, CountsOf
    <2>2. source' = source /\ cut' = cut /\ cmd' = cmd
        BY <2>1 DEF CloseFlushes, Static
    <2>3. granted'[p] # 0
        BY <1>1, <1>3, <2>1 DEF CloseFlushes, Request, LsmTypeOK
    <2> QED
        BY <1>1, <1>3, <2>2, <2>3 DEF Beaten
<1> QED
    BY <1>2, <1>3

(* What the kernel rejects although its checks pass is of a name it has. *)
LEMMA RejectedName ==
    ASSUME NEW p \in Procs, cmd[p] = "load", source[p].accepted, Grants(p, TRUE) = {}
    PROVE  source[p].name \in loaded
<1>1. Grants(p, TRUE) = {loaded \cup {n} : n \in {source[p].name} \ loaded}
    BY DEF Grants
<1> QED
    BY <1>1

(* A request that is rejected lost to another process, or for another cause.  *)
LEMMA CauseMove ==
    ASSUME LsmTypeOK, NEW p \in Procs, CountsOf(p), HoldsOf(p), CauseOf(p), Step(p)
    PROVE  CauseOf(p)'
<1> SUFFICES ASSUME cmd'[p] = "load", p \notin stale' \cup cut',
                    "modules" \in abi', checked'[p].name \notin HeaderWords,
                    \/ rejected'[p] # 0 /\ source'[p].accepted
                    \/ /\ at'[p] \in {"load_file", "write", "blocks", "buffered"}
                       /\ checked'[p].name \in loaded'
             PROVE  Beaten(p)'
    BY DEF CauseOf
<1>0. cmd[p] = "load" /\ p \notin stale \cup cut /\ "modules" \in abi
    BY OthersWait
<1> USE DEF LsmTypeOK, Places, Goto, Exit, Static, KernelIdle
<1>1. CASE ValidateFile(p)
    BY <1>1 DEF ValidateFile, CountsOf
<1>2. CASE CheckLoaded(p)
    BY <1>0, <1>2 DEF CheckLoaded, CountsOf, IsLoaded
<1>3. CASE LoadFile(p)
    <2>1. /\ at[p] = "load_file" /\ rejected'[p] = 0 /\ loaded' = loaded
          /\ checked' = checked
        BY <1>3 DEF LoadFile, CountsOf
    <2>2. Beaten(p)
        BY <1>0, <2>1 DEF CauseOf
    <2> QED
        BY <2>1, <2>2, BeatenStays
<1>4. CASE OpenAndWrite(p)
    <2>1. /\ at[p] = "write" /\ rejected'[p] = 0 /\ loaded' = loaded
          /\ checked' = checked
        BY <1>4 DEF OpenAndWrite, CountsOf
    <2>2. Beaten(p)
        BY <1>0, <2>1 DEF CauseOf
    <2> QED
        BY <2>1, <2>2, BeatenStays
<1>5. CASE WriteBlocks(p) \/ CloseFlushes(p)
    <2>1. /\ at[p] \in {"blocks", "buffered"} /\ rejected[p] = 0
          /\ checked' = checked /\ source' = source
        BY <1>5 DEF WriteBlocks, CloseFlushes, CountsOf
    <2>2. Request(p, TRUE) /\ at'[p] = "done"
        BY <1>0, <1>5, <2>1 DEF WriteBlocks, CloseFlushes
    <2>3. rejected'[p] # 0 /\ source[p].accepted
        BY <2>1, <2>2
    <2>4. Grants(p, TRUE) = {}
        BY <2>1, <2>2, <2>3 DEF Request
    <2>5. checked[p].name \in loaded
        BY <1>0, <2>1, <2>3, <2>4, RejectedName DEF HoldsOf
    <2>6. Beaten(p)
        BY <1>0, <2>1, <2>5 DEF CauseOf
    <2> QED
        BY <2>1, <2>6, BeatenStays
<1> QED
    BY <1>0, <1>1, <1>2, <1>3, <1>4, <1>5 DEF Step, SkipValidation, BeginUnload, ReadCommand

(* A name that comes into the table is that of the source that was sent, or    *)
(* any if only a part of it was.                                               *)
LEMMA GrantedName ==
    ASSUME NEW p \in Procs, NEW whole \in BOOLEAN, Request(p, whole),
           NEW n, n \in loaded', n \notin loaded
    PROVE  /\ cmd[p] # "unload" /\ granted' = [granted EXCEPT ![p] = @ + 1]
           /\ whole => n = source[p].name
<1>1. loaded' \in Grants(p, whole) /\ granted' = [granted EXCEPT ![p] = @ + 1]
    BY DEF Request
<1>2. cmd[p] # "unload"
    BY <1>1 DEF Grants
<1>3. ASSUME whole = TRUE PROVE n = source[p].name
    BY <1>1, <1>2, <1>3 DEF Grants
<1> QED
    BY <1>1, <1>2, <1>3

(* Another process finds the name taken only if the one that moves took it.   *)
LEMMA CauseWaits ==
    ASSUME LsmTypeOK, NEW p \in Procs, CountsOf(p), Step(p),
           NEW q \in Procs \ {p}, CauseOf(q)
    PROVE  CauseOf(q)'
<1> SUFFICES ASSUME cmd'[q] = "load", q \notin stale' \cup cut',
                    "modules" \in abi', checked'[q].name \notin HeaderWords,
                    \/ rejected'[q] # 0 /\ source'[q].accepted
                    \/ /\ at'[q] \in {"load_file", "write", "blocks", "buffered"}
                       /\ checked'[q].name \in loaded'
             PROVE  Beaten(q)'
    BY DEF CauseOf
<1>0. /\ cmd' = cmd /\ abi' = abi /\ q \notin stale \cup cut /\ source'[q] = source[q]
      /\ checked'[q] = checked[q] /\ rejected'[q] = rejected[q] /\ at'[q] = at[q]
    BY OthersWait
<1>1. CASE (rejected[q] # 0 /\ source[q].accepted) \/ checked[q].name \in loaded
    <2>1. Beaten(q)
        BY <1>0, <1>1 DEF CauseOf
    <2> QED
        BY <1>0, <2>1, BeatenStays
<1>2. CASE ~(rejected[q] # 0 /\ source[q].accepted) /\ checked[q].name \notin loaded
    <2>1. checked[q].name \in loaded' /\ loaded' # loaded
        BY <1>0, <1>2
    <2>2. CloseFlushes(p) \/ WriteBlocks(p)
        BY <2>1, Zenon DEF Step, ValidateFile, CheckLoaded, SkipValidation, LoadFile, BeginUnload,
                    OpenAndWrite, ReadCommand, KernelIdle
    <2>3. PICK whole \in BOOLEAN : Request(p, whole) /\ (whole = FALSE => p \in cut')
        BY <2>2 DEF CloseFlushes, WriteBlocks
    <2>4. /\ cmd[p] # "unload" /\ granted' = [granted EXCEPT ![p] = @ + 1]
          /\ whole = TRUE => checked[q].name = source[p].name
        BY <1>2, <2>1, <2>3, GrantedName
    <2>5. granted'[p] # 0 /\ source' = source
        BY <2>2, <2>4 DEF CloseFlushes, WriteBlocks, LsmTypeOK
    <2> QED
        BY <1>0, <2>3, <2>4, <2>5 DEF Beaten
<1> QED
    BY <1>1, <1>2

(* Every step of every process, and every edit, keeps the invariant. *)
LEMMA LsmStep == LsmInv /\ [LsmNext]_lsmVars => LsmInv'
<1> SUFFICES ASSUME LsmInv, [LsmNext]_lsmVars PROVE LsmInv'
    OBVIOUS
<1> USE DEF LsmInv
<1>1. CASE Edit
    <2>1. /\ edits' \in Nat
          /\ UNCHANGED <<abi, cmd, arg, cap, loaded, cut, granted, rejected, at, exit, checked, source>>
          /\ file' \in Contents \cup {Missing}
          /\ stale' = stale \cup {p \in Procs : at[p] \in {"validated", "load_file"}}
        BY <1>1 DEF Edit, Static, KernelIdle, LsmTypeOK
    <2>2. LsmTypeOK' /\ stale \subseteq stale'
        BY <2>1 DEF LsmTypeOK
    <2>3. ASSUME NEW p \in Procs PROVE CountsOf(p)' /\ HoldsOf(p)'
        BY <2>1 DEF CountsOf, HoldsOf
    <2>4. ASSUME NEW p \in Procs PROVE CauseOf(p)'
        BY <2>1, <2>2 DEF CauseOf, Beaten
    <2> QED
        BY <2>2, <2>3, <2>4
<1>2. ASSUME NEW p \in Procs, Step(p) PROVE LsmInv'
    <2>1. CountsOf(p)' /\ HoldsOf(p)' /\ CauseOf(p)'
        BY <1>2, CountsMove, HoldsMove, CauseMove
    <2>2. ASSUME NEW q \in Procs \ {p} PROVE CountsOf(q)' /\ HoldsOf(q)'
        BY <1>2, OthersWait DEF CountsOf, HoldsOf
    <2>3. ASSUME NEW q \in Procs \ {p} PROVE CauseOf(q)'
        BY <1>2, CauseWaits
    <2> QED
        BY <1>2, <2>1, <2>2, <2>3, OthersWait
<1>3. CASE UNCHANGED lsmVars
    BY <1>3 DEF lsmVars, LsmTypeOK, CountsOf, HoldsOf, CauseOf, Beaten
<1> QED
    BY <1>1, <1>2, <1>3 DEF LsmNext

(* A lua-lsm command that exits with 1 has changed nothing in the kernel, and   *)
(* one that exits with 0 has sent all of its request and may have overlooked    *)
(* only the answer to its last part, however many processes run and edit.       *)
THEOREM RequestsCorrect == LsmSpec => []ExitCodeCountsRequests
<1>1. LsmInv => ExitCodeCountsRequests
    <2> SUFFICES ASSUME LsmInv, NEW p \in Procs
                 PROVE  /\ exit[p] = 1 => granted[p] = 0 /\ rejected[p] <= 1
                        /\ exit[p] = 0 /\ cmd[p] \notin {"list", "status"} =>
                              /\ granted[p] + rejected[p] = IF p \in cut THEN 2 ELSE 1
                              /\ rejected[p] <= 1
        BY DEF ExitCodeCountsRequests
    <2>1. CountsOf(p)
        BY DEF LsmInv
    <2>2. exit[p] = 1 => granted[p] = 0 /\ rejected[p] \in {0, 1}
        BY <2>1, Zenon DEF CountsOf
    <2>3. exit[p] = 0 /\ cmd[p] \notin {"list", "status"} =>
              \/ p \notin cut /\ granted[p] = 1 /\ rejected[p] = 0
              \/ p \notin cut /\ granted[p] = 0 /\ rejected[p] = 1
              \/ p \in cut /\ granted[p] = 2 /\ rejected[p] = 0
              \/ p \in cut /\ granted[p] = 1 /\ rejected[p] = 1
        BY <2>1, Zenon DEF CountsOf
    <2> QED
        BY <2>2, <2>3
<1> QED
    BY LsmInitial, LsmStep, <1>1, PTL DEF LsmSpec

(* A validated load whose file is not edited between its two reads sends what   *)
(* it validated, and whatever the kernel rejects has one of the listed causes.  *)
THEOREM SendingCorrect == LsmSpec => []SendsOnlyValid
<1>1. LsmInv => SendsWhatItValidated
    BY DEF LsmInv, HoldsOf, SendsWhatItValidated
<1>2. LsmInv => RejectionHasACause
    <2> SUFFICES ASSUME LsmInv, NEW p \in Procs, cmd[p] = "load", rejected[p] > 0,
                        p \notin stale \cup cut, source[p].accepted,
                        "modules" \in abi, checked[p].name \notin HeaderWords
                 PROVE  \E q \in Procs \ {p} :
                           /\ cmd[q] # "unload" /\ granted[q] > 0
                           /\ source[q].name = source[p].name \/ q \in cut
        BY DEF RejectionHasACause
    <2>1. rejected[p] # 0
        BY DEF LsmInv, LsmTypeOK
    <2>2. source[p] = checked[p]
        BY <2>1 DEF LsmInv, HoldsOf
    <2>3. Beaten(p)
        BY <2>1 DEF LsmInv, CauseOf
    <2>4. \A q \in Procs : granted[q] # 0 => granted[q] > 0
        BY DEF LsmInv, LsmTypeOK
    <2> QED
        BY <2>2, <2>3, <2>4 DEF Beaten
<1>3. LsmInv => SendsOnlyValid
    BY <1>1, <1>2 DEF SendsOnlyValid
<1> QED
    BY LsmInitial, LsmStep, <1>3, PTL DEF LsmSpec

-----------------------------------------------------------------------------
(* What the steps of the start have done by the time each of them runs. *)
StartInv ==
    /\ lib \in 0..Libs
    /\ value = Unset \/ (value.type = "number" /\ value.n \in Nat)
    /\ spc \in {"main", "openall", "require", "init", "pcall", "done"}
    /\ spc \in {"require", "init"} => lib = Libs /\ gc
    /\ spc = "init" => loaded_
    /\ spc \in {"main", "openall", "require", "init"} => value = Unset
    /\ spc = "pcall" /\ value # Unset /\ value.n % 256 = 0 => lib = Libs /\ gc /\ loaded_
    /\ spc = "main" => ~state /\ ~log

(* The program ends with its state and its log closed, and its status is 0     *)
(* only after every library, the virtual file system and init have run.        *)
THEOREM StartCorrect == StartSpec => []StartupStatusIsTrue
<1> DEFINE SInv == StartInv /\ StartupStatusIsTrue
<1>1. StartInit => SInv
    BY StartupAssumption, SMTT(10) DEF StartInit, StartInv, StartupStatusIsTrue
<1>2. SInv /\ [StartNext]_startVars => SInv'
    <2> SUFFICES ASSUME SInv, [StartNext]_startVars PROVE SInv'
        OBVIOUS
    <2> USE StartupAssumption DEF StartInv, StartupStatusIsTrue
    <2>1. CASE start_main
        BY <2>1 DEF start_main
    <2>2. CASE Thrown
        BY <2>2 DEF Thrown
    <2>3. CASE luaL_requiref
        BY <2>3 DEF luaL_requiref
    <2>4. CASE pmain_restarts_gc
        BY <2>4 DEF pmain_restarts_gc
    <2>5. CASE ramfs_require
        BY <2>5 DEF ramfs_require, Number, Unset
    <2>6. CASE ramfs_vfsinit
        BY <2>6 DEF ramfs_vfsinit, Number, Unset, Values, Truthy
    <2>7. CASE main_ends
        BY <2>7 DEF main_ends, Number, Unset, Truthy
    <2>8. CASE UNCHANGED startVars
        BY <2>8 DEF startVars
    <2> QED
        BY <2>1, <2>2, <2>3, <2>4, <2>5, <2>6, <2>7, <2>8 DEF StartNext
<1>3. SInv => StartupStatusIsTrue
    OBVIOUS
<1> QED
    BY <1>1, <1>2, <1>3, PTL DEF StartSpec

-----------------------------------------------------------------------------
(* Profiles: build_active_levels computes the least set that contains the      *)
(* target level and is closed under inherits_from, and select_rules takes the  *)
(* rules of those levels, each once and in the order of the profile.           *)

(* Taking the last element off a list and adding others keeps track of what   *)
(* is on the list.                                                            *)
LEMMA ListElements ==
    ASSUME NEW S, NEW s \in Seq(S), s # <<>>, NEW t \in Seq(S)
    PROVE  LET rest == SubSeq(s, 1, Len(s) - 1)
           IN /\ s[Len(s)] \in S
              /\ rest \in Seq(S) /\ rest \o t \in Seq(S)
              /\ Range(s) = Range(rest) \cup {s[Len(s)]}
              /\ Range(rest \o t) = Range(rest) \cup Range(t)
<1> DEFINE rest == SubSeq(s, 1, Len(s) - 1)
<1>1. Len(s) \in Nat \ {0} /\ s[Len(s)] \in S /\ DOMAIN s = 1..Len(s)
    OBVIOUS
<1>2. \A i \in 1..(Len(s) - 1) : s[i] \in S
    BY <1>1
<1>3. rest \in Seq(S) /\ Len(rest) = Len(s) - 1 /\ \A i \in 1..(Len(s) - 1) : rest[i] = s[i]
    BY <1>1
<1>4. Range(s) = Range(rest) \cup {s[Len(s)]}
    <2>1. DOMAIN rest = 1..(Len(s) - 1)
        BY <1>1, <1>3
    <2>2. 1..Len(s) = 1..(Len(s) - 1) \cup {Len(s)}
        BY <1>1
    <2> QED
        BY <1>1, <1>3, <2>1, <2>2 DEF Range
<1>5. rest \o t \in Seq(S) /\ Range(rest \o t) = Range(rest) \cup Range(t)
    <2>1. rest \in Seq(S)
        BY <1>3
    <2> HIDE DEF rest
    <2>2. /\ rest \o t \in Seq(S) /\ Len(rest \o t) = Len(rest) + Len(t)
          /\ \A i \in 1..Len(rest) : (rest \o t)[i] = rest[i]
          /\ \A i \in 1..Len(t) : (rest \o t)[Len(rest) + i] = t[i]
        BY <2>1
    <2>3. Len(rest) \in Nat /\ Len(t) \in Nat /\ DOMAIN rest = 1..Len(rest) /\ DOMAIN t = 1..Len(t)
        BY <2>1
    <2>4. DOMAIN (rest \o t) = 1..(Len(rest) + Len(t))
        BY <2>2
    <2>5. Range(rest \o t) \subseteq Range(rest) \cup Range(t)
        <3> SUFFICES ASSUME NEW i \in 1..(Len(rest) + Len(t))
                     PROVE  (rest \o t)[i] \in Range(rest) \cup Range(t)
            BY <2>4 DEF Range
        <3>1. CASE i <= Len(rest)
            BY <2>2, <2>3, <3>1 DEF Range
        <3>2. CASE i > Len(rest)
            <4>1. i - Len(rest) \in 1..Len(t) /\ i = Len(rest) + (i - Len(rest))
                BY <2>3, <3>2
            <4>2. (rest \o t)[i] = t[i - Len(rest)]
                BY <2>2, <4>1
            <4> QED
                BY <2>3, <4>1, <4>2 DEF Range
        <3> QED
            BY <2>3, <3>1, <3>2
    <2>6. Range(rest) \cup Range(t) \subseteq Range(rest \o t)
        <3>1. \A i \in 1..Len(rest) : i \in DOMAIN (rest \o t)
            BY <2>3, <2>4
        <3>2. \A i \in 1..Len(t) : Len(rest) + i \in DOMAIN (rest \o t)
            BY <2>3, <2>4
        <3> QED
            BY <2>2, <2>3, <3>1, <3>2, Zenon DEF Range
    <2> QED
        BY <2>2, <2>5, <2>6
<1> QED
    BY <1>1, <1>3, <1>4, <1>5

(* The elements of a sequence. *)
LEMMA ElementOf == ASSUME NEW S, NEW s \in Seq(S), NEW i \in DOMAIN s PROVE s[i] \in S
    OBVIOUS

(* A sequence is one of every set that has its elements. *)
LEMMA SeqOfFewer ==
    ASSUME NEW S, NEW s \in Seq(S), NEW T, \A i \in DOMAIN s : s[i] \in T
    PROVE  s \in Seq(T)
    OBVIOUS

(* Validation makes every level that a level inherits from a defined one. *)
LEMMA ParentsAreDefined ==
    ASSUME NEW p \in Profile, Validate(p), NEW l \in DefinedIds(p)
    PROVE  InheritsFrom(p, l) \in Seq(DefinedIds(p))
<1>1. p.levels \in Seq(Level)
    BY DEF Profile
<1>2. \E d \in Range(p.levels) : d.id = l
    BY DEF DefinedIds, Range
<1> DEFINE d == CHOOSE x \in Range(p.levels) : x.id = l
<1>3. d \in Range(p.levels)
    BY <1>2
<1>4. PICK i \in DOMAIN p.levels : d = p.levels[i]
    BY <1>3 DEF Range
<1>5. d \in Level
    BY <1>1, <1>4, ElementOf, Zenon
<1>6. d.inherits_from \in Seq(LevelIds)
    BY <1>5 DEF Level
<1>7. Range(d.inherits_from) \subseteq DefinedIds(p)
    BY <1>4, Zenon DEF Validate
<1>8. d.inherits_from \in Seq(DefinedIds(p))
    <2>1. \A k \in DOMAIN d.inherits_from : d.inherits_from[k] \in DefinedIds(p)
        BY <1>7, Zenon DEF Range
    <2> HIDE DEF d
    <2> QED
        BY <1>6, <2>1, SeqOfFewer
<1> QED
    BY <1>8 DEF InheritsFrom

(* The parts of a profile. *)
LEMMA ProfileParts ==
    ASSUME NEW p \in Profiles
    PROVE  p \in Profile /\ p.rules \in Seq(Rule) /\ Len(p.rules) \in Nat
<1>1. p \in Profile
    BY ProfileShape
<1>2. p.rules \in Seq(Rule)
    BY <1>1 DEF Profile
<1> HIDE DEF Rule
<1> QED
    BY <1>1, <1>2

(* Nothing is collected before the walk begins. *)
EmptyBefore == pc \in {"load", "levels"} => active = {}

Inv == TypeOK /\ EmptyBefore /\ WalkInv /\ ActiveIsInheritanceClosure

(* A run starts with no level collected. *)
LEMMA InvInit == Init => Inv
<1> SUFFICES ASSUME Init PROVE Inv
    OBVIOUS
<1>1. profile \in Profile
    BY ProfileShape DEF Init
<1>2. Len(profile.rules) \in Nat
    BY <1>1 DEF Profile
<1> QED
    BY <1>1, <1>2 DEF Init, Inv, EmptyBefore, TypeOK, WalkInv, ActiveIsInheritanceClosure

(* Loading, each turn of the work list and the selection keep the invariant. *)
LEMMA InvStep == Inv /\ [Next]_vars => Inv'
<1> SUFFICES ASSUME Inv, [Next]_vars PROVE Inv'
    OBVIOUS
<1> USE DEF Inv
<1>0. profile \in Profile /\ Len(profile.rules) \in Nat
    BY ProfileParts DEF TypeOK
<1>1. CASE Load
    <2>1. target' \in LevelIds \cup {Nil}
        BY <1>0, <1>1 DEF Load, TypeOK, Profile
    <2> QED
        BY <1>1, <2>1 DEF Load, EmptyBefore, TypeOK, WalkInv, ActiveIsInheritanceClosure
<1>2. CASE BeginLevels
    <2>0. UNCHANGED <<profile, requested, target, index, selected, reviews>> /\ pc = "levels"
        BY <1>2 DEF BeginLevels
    <2>1. CASE target = Nil /\ active' = DefinedIds(profile) /\ pc' = "rules" /\ UNCHANGED stack
        BY <2>0, <2>1 DEF EmptyBefore, TypeOK, WalkInv, ActiveIsInheritanceClosure, Closed
    <2>2. CASE pc' = "rejected" /\ UNCHANGED <<active, stack>>
        BY <2>0, <2>2 DEF EmptyBefore, TypeOK, WalkInv, ActiveIsInheritanceClosure, Closed
    <2>3. CASE target \in DefinedIds(profile) /\ stack' = <<target>> /\ pc' = "walk" /\ UNCHANGED active
        <3>1. stack' \in Seq(DefinedIds(profile)) /\ Range(stack') = {target}
            BY <2>3 DEF Range
        <3>2. active = {}
            BY <2>0 DEF TypeOK, EmptyBefore
        <3> QED
            BY <2>0, <2>3, <3>1, <3>2
               DEF TypeOK, WalkInv, ActiveIsInheritanceClosure, EmptyBefore, Closed
    <2> QED
        BY <1>2, <2>1, <2>2, <2>3 DEF BeginLevels
<1>3. CASE Visit
    <2> DEFINE current == stack[Len(stack)]
               rest == SubSeq(stack, 1, Len(stack) - 1)
               parents == InheritsFrom(profile, current)
    <2>0. /\ UNCHANGED <<profile, requested, pc, target, index, selected, reviews>>
          /\ pc = "walk" /\ stack # <<>> /\ stack \in Seq(DefinedIds(profile))
          /\ Validate(profile) /\ active \subseteq DefinedIds(profile)
        BY <1>3 DEF Visit, TypeOK
    <2>1. <<>> \in Seq(DefinedIds(profile))
        OBVIOUS
    <2>2. current \in DefinedIds(profile) /\ Range(stack) = Range(rest) \cup {current}
          /\ rest \in Seq(DefinedIds(profile))
        BY <2>0, <2>1, ListElements
    <2>3. parents \in Seq(DefinedIds(profile))
        BY <1>0, <2>0, <2>2, ParentsAreDefined
    <2>4. rest \o parents \in Seq(DefinedIds(profile))
          /\ Range(rest \o parents) = Range(rest) \cup Range(parents)
        BY <2>0, <2>3, ListElements
    <2>5. CASE current \in active
        <3>1. stack' = rest /\ active' = active
            BY <1>3, <2>5 DEF Visit
        <3>2. active \cup Range(stack) = active \cup Range(stack')
            BY <2>2, <2>5, <3>1
        <3> QED
            BY <2>0, <2>2, <3>1, <3>2 DEF TypeOK, WalkInv, ActiveIsInheritanceClosure, EmptyBefore, Closed
    <2>6. CASE current \notin active
        <3>1. stack' = rest \o parents /\ active' = active \cup {current}
            BY <1>3, <2>6, Zenon DEF Visit
        <3>2. active' \cup Range(stack') = active \cup Range(stack) \cup Range(parents)
            BY <2>2, <2>4, <3>1
        <3>3. TypeOK' /\ EmptyBefore'
            BY <2>0, <2>2, <2>4, <3>1 DEF TypeOK, EmptyBefore
        <3>4. \A l \in active' : Range(InheritsFrom(profile, l)) \subseteq active' \cup Range(stack')
            BY <2>0, <3>1, <3>2 DEF WalkInv
        <3>5. ASSUME NEW S \in SUBSET DefinedIds(profile), target \in S, Closed(S)
              PROVE  active' \cup Range(stack') \subseteq S
            <4>1. active \cup Range(stack) \subseteq S
                BY <2>0, <3>5 DEF WalkInv
            <4>2. current \in S
                BY <2>2, <4>1
            <4>3. Range(parents) \subseteq S
                BY <3>5, <4>2 DEF Closed
            <4> QED
                BY <3>2, <4>1, <4>3
        <3>6. target \in active' \cup Range(stack')
            BY <2>0, <3>2 DEF WalkInv
        <3>7. WalkInv' /\ ActiveIsInheritanceClosure'
            BY <2>0, <3>4, <3>5, <3>6 DEF WalkInv, ActiveIsInheritanceClosure, Closed
        <3> QED
            BY <3>3, <3>7
    <2> QED
        BY <2>5, <2>6
<1>4. CASE EndWalk
    <2>1. Range(stack) = {}
        BY <1>4 DEF EndWalk, Range
    <2> QED
        BY <1>4, <2>1 DEF EndWalk, TypeOK, WalkInv, ActiveIsInheritanceClosure, EmptyBefore, Closed
<1>5. CASE SelectRule
    <2>0. index \in 1..(Len(profile.rules) + 1) /\ index <= Len(profile.rules)
        BY <1>5 DEF SelectRule, TypeOK
    <2>1. pc = "rules" /\ pc' \in {"rules", "rejected"} /\ index' \in {index, index + 1}
          /\ UNCHANGED <<profile, requested, target, active, stack, reviews>>
        BY <1>5, Zenon DEF SelectRule
    <2>2. index' \in 1..(Len(profile.rules) + 1)
        BY <1>0, <2>0, <2>1
    <2>3. TypeOK'
        BY <2>1, <2>2 DEF TypeOK
    <2>4. EmptyBefore' /\ WalkInv'
        BY <2>1 DEF EmptyBefore, WalkInv
    <2>5. ActiveIsInheritanceClosure'
        BY <2>1 DEF ActiveIsInheritanceClosure, Closed
    <2> QED
        BY <2>3, <2>4, <2>5
<1>6. CASE SelectReviews
    BY <1>6 DEF SelectReviews, TypeOK, WalkInv, ActiveIsInheritanceClosure, EmptyBefore, Closed
<1>7. CASE UNCHANGED vars
    BY <1>7 DEF vars, TypeOK, WalkInv, ActiveIsInheritanceClosure, EmptyBefore, Closed
<1> QED
    BY <1>1, <1>2, <1>3, <1>4, <1>5, <1>6, <1>7 DEF Next

(* The work list, the levels found so far and the input keep their types, and *)
(* only a validated profile gets past load.                                   *)
THEOREM TypeCorrect == Spec => []TypeOK
<1>1. Inv => TypeOK
    BY DEF Inv
<1> QED
    BY InvInit, InvStep, <1>1, PTL DEF Spec

(* The levels a run selects are the least set that contains the target and    *)
(* what its members inherit from: build_active_levels misses no inherited     *)
(* level and adds none, for every profile that validate accepts.              *)
THEOREM ClosureCorrect == Spec => []ActiveIsInheritanceClosure
<1>1. Inv => ActiveIsInheritanceClosure
    BY DEF Inv
<1> QED
    BY InvInit, InvStep, <1>1, PTL DEF Spec

-----------------------------------------------------------------------------
(* The rules looked at so far: those that apply have been taken, in order.    *)
ApplicableBefore(n) == {i \in 1..(n - 1) : Applies(profile.rules[i].level)}

SelectInv ==
    /\ selected \in Seq(Nat)
    /\ pc \in {"load", "levels", "walk"} => index = 1 /\ selected = <<>>
    /\ pc \in {"rules", "done"} => Range(selected) = ApplicableBefore(index)
    /\ pc = "done" => index = Len(profile.rules) + 1
    /\ \A i, j \in DOMAIN selected : i < j => selected[i] < selected[j]

(* Appending a number above all others keeps a sequence increasing. *)
LEMMA AppendIncreasing ==
    ASSUME NEW s \in Seq(Nat), NEW n \in Nat, \A i \in DOMAIN s : s[i] < n,
           \A i, j \in DOMAIN s : i < j => s[i] < s[j]
    PROVE  /\ Append(s, n) \in Seq(Nat)
           /\ Range(Append(s, n)) = Range(s) \cup {n}
           /\ \A i, j \in DOMAIN Append(s, n) : i < j => Append(s, n)[i] < Append(s, n)[j]
<1> DEFINE t == Append(s, n)
<1>1. /\ t \in Seq(Nat) /\ Len(t) = Len(s) + 1
      /\ \A i \in 1..Len(s) : t[i] = s[i]
      /\ t[Len(s) + 1] = n
    OBVIOUS
<1>2. Len(s) \in Nat /\ DOMAIN s = 1..Len(s) /\ DOMAIN t = 1..(Len(s) + 1)
    BY <1>1
<1> HIDE DEF t
<1>3. ASSUME NEW i \in DOMAIN t, NEW j \in DOMAIN t, i < j PROVE t[i] < t[j]
    <2>1. i \in DOMAIN s /\ t[i] = s[i]
        BY <1>1, <1>2, <1>3
    <2>2. CASE j \in DOMAIN s
        BY <1>1, <1>2, <1>3, <2>1, <2>2
    <2>3. CASE j = Len(s) + 1
        BY <1>1, <2>1, <2>3
    <2> QED
        BY <1>2, <2>2, <2>3
<1>4. Range(t) = Range(s) \cup {n}
    <2>1. DOMAIN t = DOMAIN s \cup {Len(s) + 1}
        BY <1>2
    <2>2. \A i \in DOMAIN s : t[i] = s[i]
        BY <1>1, <1>2
    <2>3. Range(t) = {t[i] : i \in DOMAIN s} \cup {t[Len(s) + 1]}
        BY <2>1 DEF Range
    <2>4. {t[i] : i \in DOMAIN s} = Range(s)
        BY <2>2 DEF Range
    <2> QED
        BY <1>1, <2>3, <2>4
<1> QED
    BY <1>1, <1>3, <1>4 DEF t

(* Each rule that is looked at joins the selection if it applies. *)
LEMMA SelectStep == TypeOK /\ SelectInv /\ [Next]_vars => SelectInv'
<1> SUFFICES ASSUME TypeOK, SelectInv, [Next]_vars PROVE SelectInv'
    OBVIOUS
<1>0. profile \in Profile /\ Len(profile.rules) \in Nat /\ index \in Nat \ {0}
    BY ProfileParts DEF TypeOK
<1>1. CASE Load \/ Visit \/ UNCHANGED vars
    BY <1>1, Zenon DEF Load, Visit, vars, SelectInv, ApplicableBefore, Applies
<1>2. CASE BeginLevels \/ EndWalk
    <2>1. /\ pc \in {"levels", "walk"} /\ pc' # "done"
          /\ selected' = <<>> /\ index' = 1
        BY <1>2 DEF BeginLevels, EndWalk, SelectInv
    <2>2. Range(<<>>) = {} /\ ApplicableBefore(1)' = {} /\ DOMAIN <<>> = {}
        BY DEF Range, ApplicableBefore
    <2>3. <<>> \in Seq(Nat)
        OBVIOUS
    <2> QED
        BY <2>1, <2>2, <2>3, Zenon DEF SelectInv
<1>3. CASE SelectRule
    <2>1. /\ pc = "rules" /\ UNCHANGED <<profile, active>>
          /\ Range(selected) = ApplicableBefore(index)
          /\ selected \in Seq(Nat)
          /\ \A i, j \in DOMAIN selected : i < j => selected[i] < selected[j]
        BY <1>3 DEF SelectRule, SelectInv
    <2>2. \A n : ApplicableBefore(n)' = ApplicableBefore(n)
        BY <2>1 DEF ApplicableBefore, Applies
    <2>3. CASE /\ Applies(profile.rules[index].level)
               /\ selected' = Append(selected, index) /\ index' = index + 1 /\ pc' = pc
        <3>1. ApplicableBefore(index + 1) = ApplicableBefore(index) \cup {index}
            BY <1>0, <2>3 DEF ApplicableBefore
        <3>2. \A i \in DOMAIN selected : selected[i] < index
            <4>1. \A i \in DOMAIN selected : selected[i] \in Range(selected)
                BY DEF Range
            <4> QED
                BY <1>0, <2>1, <4>1 DEF ApplicableBefore
        <3>3. /\ selected' \in Seq(Nat)
              /\ Range(selected') = Range(selected) \cup {index}
              /\ \A i, j \in DOMAIN selected' : i < j => selected'[i] < selected'[j]
            BY <1>0, <2>1, <2>3, <3>2, AppendIncreasing
        <3> QED
            BY <2>1, <2>2, <2>3, <3>1, <3>3 DEF SelectInv
    <2>4. CASE pc' = "rejected" /\ UNCHANGED <<selected, index>>
        BY <2>1, <2>4 DEF SelectInv
    <2>5. CASE ~Applies(profile.rules[index].level) /\ index' = index + 1 /\ UNCHANGED <<selected, pc>>
        <3>1. ApplicableBefore(index + 1) = ApplicableBefore(index)
            BY <1>0, <2>5 DEF ApplicableBefore
        <3> QED
            BY <2>1, <2>2, <2>5, <3>1 DEF SelectInv
    <2> QED
        BY <1>3, <2>3, <2>4, <2>5 DEF SelectRule
<1>4. CASE SelectReviews
    BY <1>4 DEF SelectReviews, SelectInv, ApplicableBefore, Applies
<1> QED
    BY <1>1, <1>2, <1>3, <1>4 DEF Next

(* The rules that run are those of the level and no others, in the order of    *)
(* the profile, for every profile: RunsTheRulesOfTheLevel.                     *)
THEOREM SelectionCorrect == Spec => []RunsTheRulesOfTheLevel
<1>1. Init => SelectInv
    BY DEF Init, SelectInv
<1>2. TypeOK /\ SelectInv => RunsTheRulesOfTheLevel
    <2> SUFFICES ASSUME TypeOK, SelectInv, pc = "done" PROVE RunsTheRulesOfTheLevel
        BY DEF RunsTheRulesOfTheLevel
    <2>1. profile.rules \in Seq(Rule)
        BY ProfileParts DEF TypeOK
    <2>2. DOMAIN profile.rules = 1..(index - 1)
        BY <2>1 DEF SelectInv
    <2> QED
        BY <2>2 DEF SelectInv, RunsTheRulesOfTheLevel, ApplicableBefore
<1> QED
    BY <1>1, <1>2, SelectStep, TypeCorrect, PTL DEF Spec
=============================================================================
