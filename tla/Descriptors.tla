---------------------------- MODULE Descriptors -----------------------------
(* The userdata of daemon/lua_audit.c and daemon/lua_fanotify.c that own a    *)
(* file descriptor, and the rules of lua_audit.c, in a process that uses the  *)
(* numbers of closed descriptors again.  libaudit and the kernel are external. *)
EXTENDS Integers, FiniteSets

CONSTANTS
    FdSlots,    \* the userdata
    Fds,        \* descriptor numbers
    Blocks      \* blocks of the heap, for the rules

ASSUME FdAssumption == FdSlots \cap {"free", "other"} = {} /\ -1 \notin Fds

VARIABLES
    table,      \* number -> the userdata whose file it is, "other" or "free"
    fdud,       \* userdata: its kind ("none" when collected), fd (-1: none) and rule ({} is NULL)
    blocks,     \* block -> the userdata whose rule it is, or "free"
    touched     \* history: files and rules that a userdata used or gave up without owning them

fdVars == <<table, fdud, blocks, touched>>

NoUserdata == [kind |-> "none", fd |-> -1, rule |-> {}]

FdInit ==
    /\ table = [f \in Fds |-> "free"]
    /\ fdud = [u \in FdSlots |-> NoUserdata]
    /\ blocks = [b \in Blocks |-> "free"]
    /\ touched = {}

Lowest == {f \in Fds : table[f] = "free" /\ \A g \in Fds : g < f => table[g] # "free"}

New(u, kind) == fdud[u] = NoUserdata /\ fdud' = [fdud EXCEPT ![u].kind = kind]

(* audit.open and fanotify.init: when the call fails open leaves a userdata    *)
(* with -1 behind and init none.                                               *)
l_open(u) ==
    /\ fdud[u] = NoUserdata
    /\ \/ \E f \in Lowest : /\ table' = [table EXCEPT ![f] = u]
                            /\ fdud' = [fdud EXCEPT ![u] = [NoUserdata EXCEPT !.kind = "audit", !.fd = f]]
       \/ fdud' = [fdud EXCEPT ![u].kind = "audit"] /\ UNCHANGED table
    /\ UNCHANGED <<blocks, touched>>

l_fanotify_init(u) ==
    /\ fdud[u] = NoUserdata
    /\ \E f \in Lowest : /\ table' = [table EXCEPT ![f] = u]
                         /\ fdud' = [fdud EXCEPT ![u] = [NoUserdata EXCEPT !.kind = "fanotify", !.fd = f]]
    /\ UNCHANGED <<blocks, touched>>

(* The rest of the process opens and closes files of its own. *)
other_files ==
    /\ \/ \E f \in Lowest : table' = [table EXCEPT ![f] = "other"]
       \/ \E f \in Fds : table[f] = "other" /\ table' = [table EXCEPT ![f] = "free"]
    /\ UNCHANGED <<fdud, blocks, touched>>

(* The file that a call on userdata u goes to: of no one if the number is -1  *)
(* or not open.                                                               *)
Reaches(u) == {table[f] : f \in Fds \cap {fdud[u].fd}} \ {"free", u}

(* Mutant: the number is kept. *)
close_keeps(u, kind) ==
    /\ fdud[u].kind = kind /\ fdud[u].fd # -1
    /\ table' = [f \in Fds |-> IF f = fdud[u].fd THEN "free" ELSE table[f]]
    /\ touched' = touched \cup Reaches(u)
    /\ UNCHANGED <<fdud, blocks>>

Close(u, kind) ==
    /\ fdud[u].kind = kind
    /\ IF fdud[u].fd = -1 THEN UNCHANGED <<table, fdud, touched>>
       ELSE /\ table' = [f \in Fds |-> IF f = fdud[u].fd THEN "free" ELSE table[f]]
            /\ touched' = touched \cup Reaches(u)
            /\ fdud' = [fdud EXCEPT ![u].fd = -1]
    /\ UNCHANGED blocks

(* close by hand *)
auditfd_free(u) == Close(u, "audit")
l_fanotify_close(u) == Close(u, "fanotify")

(* enabled, request_status, set_pid, the other requests and the messages of   *)
(* lua_audit.c, which raise an error when a field is missing; and mark of     *)
(* lua_fanotify.c.  A descriptor that is not open fails with EBADF.           *)
Request(u, kind) ==
    /\ fdud[u].kind = kind
    /\ touched' = touched \cup Reaches(u)
    /\ UNCHANGED <<table, fdud, blocks>>

afd_request(u) == Request(u, "audit")
log_message(u, fields) == fields /\ Request(u, "audit")
l_fanotify_mark(u) == Request(u, "fanotify")

-----------------------------------------------------------------------------
(* Blocks that are not u's. *)
Foreign(u, bs) == {blocks[b] : b \in bs} \ {u}

l_rule_create(u) ==
    /\ \/ \E b \in {x \in Blocks : blocks[x] = "free"} :
              /\ fdud[u] = NoUserdata
              /\ fdud' = [fdud EXCEPT ![u] = [NoUserdata EXCEPT !.kind = "rule", !.rule = {b}]]
              /\ blocks' = [blocks EXCEPT ![b] = u]
       \/ New(u, "rule") /\ UNCHANGED blocks
    /\ UNCHANGED <<table, touched>>

(* Mutant: the new address is not stored. *)
rule_grows_away(u) ==
    /\ fdud[u].kind = "rule" /\ fdud[u].rule # {}
    /\ \E b \in {x \in Blocks : blocks[x] = "free"} :
           blocks' = [x \in Blocks |-> IF x = b THEN u ELSE IF x \in fdud[u].rule THEN "free" ELSE blocks[x]]
    /\ touched' = touched \cup Foreign(u, fdud[u].rule)
    /\ UNCHANGED <<table, fdud>>

(* fieldpair, interfield_comp, add_watch and add_watch_dir may move the rule: *)
(* libaudit stores its new address through rulp.                              *)
rule_fieldpair(u) ==
    /\ fdud[u].kind = "rule" /\ fdud[u].rule # {}
    /\ \E b \in {x \in Blocks : blocks[x] = "free"} :
           /\ blocks' = [x \in Blocks |-> IF x = b THEN u ELSE IF x \in fdud[u].rule THEN "free" ELSE blocks[x]]
           /\ fdud' = [fdud EXCEPT ![u].rule = {b}]
    /\ touched' = touched \cup Foreign(u, fdud[u].rule)
    /\ UNCHANGED table

(* add_rule and delete_rule read the rule. *)
afd_rule(u, v) ==
    /\ fdud[u].kind = "audit" /\ fdud[v].kind = "rule" /\ fdud[v].rule # {}
    /\ touched' = touched \cup Reaches(u) \cup Foreign(v, fdud[v].rule)
    /\ UNCHANGED <<table, fdud, blocks>>

rule_free(u) ==
    /\ fdud[u].kind = "rule"
    /\ blocks' = [x \in Blocks |-> IF x \in fdud[u].rule THEN "free" ELSE blocks[x]]
    /\ touched' = touched \cup Foreign(u, fdud[u].rule)
    /\ fdud' = [fdud EXCEPT ![u].rule = {}]
    /\ UNCHANGED table

(* __gc is close; then the userdata is gone. *)
fd_collected(u) ==
    /\ fdud[u] # NoUserdata
    /\ table' = [f \in Fds |-> IF f = fdud[u].fd THEN "free" ELSE table[f]]
    /\ blocks' = [x \in Blocks |-> IF x \in fdud[u].rule THEN "free" ELSE blocks[x]]
    /\ touched' = touched \cup Reaches(u) \cup Foreign(u, fdud[u].rule)
    /\ fdud' = [fdud EXCEPT ![u] = NoUserdata]

FdNext ==
    \/ other_files
    \/ \E u \in FdSlots :
           \/ l_open(u) \/ l_fanotify_init(u) \/ l_rule_create(u)
           \/ auditfd_free(u) \/ l_fanotify_close(u) \/ rule_free(u) \/ fd_collected(u)
           \/ afd_request(u) \/ l_fanotify_mark(u) \/ rule_fieldpair(u)
           \/ \E fields \in BOOLEAN : log_message(u, fields)
           \/ \E v \in FdSlots : afd_rule(u, v)

FdSpec == FdInit /\ [][FdNext]_fdVars

-----------------------------------------------------------------------------
(* However closes by hand, collections, failed opens and the files of the rest *)
(* of the process follow one another, a userdata asks and closes only its own  *)
(* file and frees only its own rule, though numbers and blocks are used again; *)
(* and what is open or allocated has its userdata.                             *)
OwnDescriptorsOnly ==
    /\ touched = {}
    /\ \A f \in Fds : table[f] \notin {"free", "other"} => fdud[table[f]].fd = f
    /\ \A b \in Blocks : blocks[b] # "free" => fdud[blocks[b]].rule = {b}
=============================================================================
