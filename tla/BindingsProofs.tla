--------------------------- MODULE BindingsProofs ---------------------------
(* Proofs about the bindings, each for every size of its sets: userdata that    *)
(* own a descriptor or a rule (Descriptors), archives that libarchive calls     *)
(* back (ArchiveBinding), and capability sets (CapabilityBinding).              *)
EXTENDS Descriptors, ArchiveBinding, CapabilityBinding, TLAPS

Userdata == [kind : {"none", "audit", "fanotify", "rule"}, fd : Fds \cup {-1}, rule : SUBSET Blocks]

FdTypeOK ==
    /\ table \in [Fds -> FdSlots \cup {"free", "other"}]
    /\ fdud \in [FdSlots -> Userdata]
    /\ blocks \in [Blocks -> FdSlots \cup {"free"}]

(* A number that a userdata holds is the number of its own file, and a file    *)
(* that belongs to a userdata is the one it holds.                             *)
FdsOwned ==
    /\ \A u \in FdSlots : fdud[u].fd \in Fds => table[fdud[u].fd] = u
    /\ \A f \in Fds : table[f] \in FdSlots => fdud[table[f]].fd = f

(* The same for the rules. *)
RulesOwned ==
    /\ \A u \in FdSlots : \A b \in fdud[u].rule : blocks[b] = u
    /\ \A b \in Blocks : blocks[b] \in FdSlots => fdud[blocks[b]].rule = {b}

FdInv == FdTypeOK /\ FdsOwned /\ RulesOwned /\ touched = {}

(* While both sides agree, a call on a userdata reaches no file of another. *)
LEMMA ReachesOwnFile ==
    ASSUME FdInv, NEW u \in FdSlots PROVE Reaches(u) = {}
BY FdAssumption DEF FdInv, FdTypeOK, Userdata, FdsOwned, Reaches

(* And no rule of another. *)
LEMMA OwnRuleOnly ==
    ASSUME FdInv, NEW u \in FdSlots PROVE Foreign(u, fdud[u].rule) = {}
BY FdAssumption DEF FdInv, FdTypeOK, Userdata, RulesOwned, Foreign

(* A new descriptor goes to a number that nobody holds. *)
LEMMA OpenKeepsInv ==
    ASSUME FdInv, NEW u \in FdSlots, l_open(u) \/ l_fanotify_init(u) PROVE FdInv'
<1> USE FdAssumption DEF FdInv, FdTypeOK, Userdata
<1>1. ASSUME NEW f \in Lowest, NEW kd \in {"audit", "fanotify"}, fdud[u] = NoUserdata,
             table' = [table EXCEPT ![f] = u],
             fdud' = [fdud EXCEPT ![u] = [NoUserdata EXCEPT !.kind = kd, !.fd = f]],
             UNCHANGED <<blocks, touched>>
      PROVE  FdInv'
  <2>1. f \in Fds /\ table[f] = "free"
    BY DEF Lowest
  <2>2. fdud'[u] = [kind |-> kd, fd |-> f, rule |-> {}]
    BY <1>1 DEF NoUserdata
  <2>3. FdTypeOK'
    BY <1>1, <2>1, <2>2
  <2>4. FdsOwned'
    BY <1>1, <2>1, <2>2 DEF FdsOwned, NoUserdata
  <2>5. RulesOwned'
    BY <1>1, <2>2 DEF RulesOwned, NoUserdata
  <2> QED
    BY <1>1, <2>3, <2>4, <2>5
<1>2. ASSUME fdud[u] = NoUserdata, fdud' = [fdud EXCEPT ![u].kind = "audit"],
             UNCHANGED <<table, blocks, touched>>
      PROVE  FdInv'
  <2>1. FdTypeOK'
    BY <1>2
  <2>2. FdsOwned' /\ RulesOwned'
    BY <1>2 DEF FdsOwned, RulesOwned
  <2> QED
    BY <1>2, <2>1, <2>2
<1> QED
  BY <1>1, <1>2 DEF l_open, l_fanotify_init

(* A close by hand gives the number back and forgets it. *)
LEMMA CloseKeepsInv ==
    ASSUME FdInv, NEW u \in FdSlots, NEW kd, Close(u, kd) PROVE FdInv'
<1> USE FdAssumption DEF FdInv, FdTypeOK, Userdata
<1>1. CASE fdud[u].fd = -1
  BY <1>1 DEF Close, FdsOwned, RulesOwned
<1>2. CASE fdud[u].fd # -1
  <2>1. touched' = {}
    BY <1>2, ReachesOwnFile DEF Close
  <2>2. FdTypeOK'
    BY <1>2 DEF Close
  <2>3. FdsOwned'
    BY <1>2 DEF Close, FdsOwned
  <2>4. RulesOwned'
    BY <1>2 DEF Close, RulesOwned
  <2> QED
    BY <2>1, <2>2, <2>3, <2>4
<1> QED
  BY <1>1, <1>2

(* The rest of the process takes free numbers and gives back its own. *)
LEMMA OthersKeepInv == FdInv /\ other_files => FdInv'
<1> SUFFICES ASSUME FdInv, other_files PROVE FdInv'
  OBVIOUS
<1> USE FdAssumption DEF FdInv, FdTypeOK, Userdata
<1>1. PICK f \in Fds, v \in {"free", "other"} :
          table[f] \in {"free", "other"} /\ table' = [table EXCEPT ![f] = v]
  BY DEF other_files, Lowest
<1>2. FdTypeOK' /\ RulesOwned'
  BY <1>1 DEF other_files, RulesOwned
<1>3. FdsOwned'
  BY <1>1 DEF other_files, FdsOwned
<1> QED
  BY <1>2, <1>3 DEF other_files

(* Requests, messages, marks and the reading of a rule change no owner. *)
LEMMA RequestKeepsInv ==
    ASSUME FdInv, NEW u \in FdSlots, NEW v \in FdSlots, NEW kd,
           Request(u, kd) \/ afd_rule(u, v)
    PROVE  FdInv'
<1>1. touched' = {} /\ UNCHANGED <<table, fdud, blocks>>
  BY ReachesOwnFile, OwnRuleOnly DEF FdInv, Request, afd_rule
<1> QED
  BY <1>1 DEF FdInv, FdTypeOK, FdsOwned, RulesOwned

(* A new rule goes to a free block, or to none. *)
LEMMA CreateKeepsInv == ASSUME FdInv, NEW u \in FdSlots, l_rule_create(u) PROVE FdInv'
<1> USE FdAssumption DEF FdInv, FdTypeOK, Userdata
<1>1. ASSUME NEW b \in Blocks, blocks[b] = "free", fdud[u] = NoUserdata,
             fdud' = [fdud EXCEPT ![u] = [NoUserdata EXCEPT !.kind = "rule", !.rule = {b}]],
             blocks' = [blocks EXCEPT ![b] = u], UNCHANGED <<table, touched>>
      PROVE  FdInv'
  <2>1. fdud'[u] = [kind |-> "rule", fd |-> -1, rule |-> {b}]
    BY <1>1 DEF NoUserdata
  <2>2. FdTypeOK'
    BY <1>1, <2>1
  <2>3. FdsOwned'
    BY <1>1, <2>1 DEF FdsOwned, NoUserdata
  <2>4. RulesOwned'
    <3>1. fdud'[u].rule = {b} /\ \A v \in FdSlots \ {u} : fdud'[v] = fdud[v]
      BY <1>1, <2>1
    <3>2. blocks'[b] = u /\ \A c \in Blocks \ {b} : blocks'[c] = blocks[c]
      BY <1>1
    <3>3. \A c \in Blocks : blocks[c] # u
      <4>1. fdud[u].rule = {}
        BY <1>1 DEF NoUserdata
      <4>2. \A c \in Blocks : blocks[c] = u => fdud[u].rule = {c}
        BY DEF RulesOwned
      <4> QED
        BY <4>1, <4>2
    <3>4. \A v \in FdSlots : fdud[v].rule \subseteq Blocks \ {b}
      BY <1>1 DEF RulesOwned
    <3>5. \A v \in FdSlots : \A c \in fdud'[v].rule : blocks'[c] = v
      BY <3>1, <3>2, <3>4 DEF RulesOwned
    <3>6. \A c \in Blocks : blocks'[c] \in FdSlots => fdud'[blocks'[c]].rule = {c}
      BY <3>1, <3>2, <3>3 DEF RulesOwned
    <3> QED
      BY <3>5, <3>6 DEF RulesOwned
  <2> QED
    BY <1>1, <2>2, <2>3, <2>4
<1>2. ASSUME New(u, "rule"), UNCHANGED <<blocks, table, touched>> PROVE FdInv'
  <2>1. FdTypeOK'
    BY <1>2 DEF New
  <2>2. FdsOwned' /\ RulesOwned'
    BY <1>2 DEF New, FdsOwned, RulesOwned
  <2> QED
    BY <1>2, <2>1, <2>2
<1> QED
  BY <1>1, <1>2 DEF l_rule_create

(* libaudit moves the rule, and the userdata follows it. *)
LEMMA GrowKeepsInv == ASSUME FdInv, NEW u \in FdSlots, rule_fieldpair(u) PROVE FdInv'
<1> USE FdAssumption DEF FdInv, FdTypeOK, Userdata
<1>1. PICK b \in Blocks :
          /\ blocks[b] = "free"
          /\ blocks' = [x \in Blocks |-> IF x = b THEN u
                                        ELSE IF x \in fdud[u].rule THEN "free" ELSE blocks[x]]
          /\ fdud' = [fdud EXCEPT ![u].rule = {b}]
  BY DEF rule_fieldpair
<1>2. touched' = {}
  BY OwnRuleOnly DEF rule_fieldpair
<1>3. FdTypeOK'
  BY <1>1 DEF rule_fieldpair
<1>4. FdsOwned'
  BY <1>1 DEF rule_fieldpair, FdsOwned
<1>5. RulesOwned'
  BY <1>1 DEF RulesOwned
<1> QED
  BY <1>2, <1>3, <1>4, <1>5

(* A rule that is freed by hand is forgotten. *)
LEMMA FreeKeepsInv == ASSUME FdInv, NEW u \in FdSlots, rule_free(u) PROVE FdInv'
<1> USE FdAssumption DEF FdInv, FdTypeOK, Userdata
<1>1. touched' = {}
  BY OwnRuleOnly DEF rule_free
<1>2. FdTypeOK'
  BY DEF rule_free
<1>3. FdsOwned'
  BY DEF rule_free, FdsOwned
<1>4. RulesOwned'
  BY DEF rule_free, RulesOwned
<1> QED
  BY <1>1, <1>2, <1>3, <1>4

(* The collector finds either what the userdata still owns, or nothing. *)
LEMMA CollectKeepsInv == ASSUME FdInv, NEW u \in FdSlots, fd_collected(u) PROVE FdInv'
<1> USE FdAssumption DEF FdInv, FdTypeOK, Userdata
<1>1. touched' = {}
  BY ReachesOwnFile, OwnRuleOnly DEF fd_collected
<1>2. FdTypeOK'
  BY DEF fd_collected, NoUserdata
<1>3. FdsOwned'
  BY DEF fd_collected, FdsOwned, NoUserdata
<1>4. RulesOwned'
  BY DEF fd_collected, RulesOwned, NoUserdata
<1> QED
  BY <1>1, <1>2, <1>3, <1>4

(* Whatever the order of opens, closes, collections and the reuse of numbers   *)
(* and blocks, a userdata of lua_audit.c and lua_fanotify.c uses, closes and   *)
(* frees only what is its own, and nothing open or allocated is without owner. *)
THEOREM DescriptorsCorrect == FdSpec => []OwnDescriptorsOnly
<1>1. FdInit => FdInv
  BY FdAssumption DEF FdInit, FdInv, FdTypeOK, Userdata, NoUserdata, FdsOwned, RulesOwned
<1>2. FdInv /\ [FdNext]_fdVars => FdInv'
  <2> SUFFICES ASSUME FdInv, [FdNext]_fdVars PROVE FdInv'
    OBVIOUS
  <2>1. CASE UNCHANGED fdVars
    BY <2>1 DEF fdVars, FdInv, FdTypeOK, FdsOwned, RulesOwned
  <2>2. ASSUME NEW u \in FdSlots, auditfd_free(u) \/ l_fanotify_close(u) PROVE FdInv'
    BY <2>2, CloseKeepsInv DEF auditfd_free, l_fanotify_close
  <2>3. ASSUME NEW u \in FdSlots, afd_request(u) \/ l_fanotify_mark(u) PROVE FdInv'
    BY <2>3, RequestKeepsInv DEF afd_request, l_fanotify_mark
  <2>4. ASSUME NEW u \in FdSlots, NEW fields \in BOOLEAN, log_message(u, fields) PROVE FdInv'
    BY <2>4, RequestKeepsInv DEF log_message
  <2>5. ASSUME NEW u \in FdSlots, NEW v \in FdSlots, afd_rule(u, v) PROVE FdInv'
    BY <2>5, RequestKeepsInv
  <2> QED
    BY <2>1, <2>2, <2>3, <2>4, <2>5, OthersKeepInv, OpenKeepsInv, CreateKeepsInv, FreeKeepsInv,
       CollectKeepsInv, GrowKeepsInv DEF FdNext
<1>3. FdInv => OwnDescriptorsOnly
  BY DEF FdInv, FdTypeOK, FdsOwned, RulesOwned, OwnDescriptorsOnly
<1> QED
  BY <1>1, <1>2, <1>3, PTL DEF FdSpec

-----------------------------------------------------------------------------
(* Archives. *)
Live == {"new", "open", "closing", "closed"}

ArchiveTypeOK ==
    /\ phase \in [Uds -> Live \cup {"none", "done"}]
    /\ ptr \in [Uds -> Addrs \cup {"NULL"}]
    /\ \A u \in Uds : phase[u] \in Live => ptr[u] \in Addrs
    /\ garbage \subseteq Uds
    /\ weak \in [Addrs -> Uds \cup {"nil"}]
    /\ buffer \in [Uds -> Buffers \cup {"nil"}]
    /\ inuse \in [Addrs -> Buffers \cup {"nil"}]
    /\ owner \in [Addrs -> Uds \cup {"nil"}]

(* Userdata whose archive has an address that no failure left behind.  The    *)
(* archive at it is theirs, the registry finds them when a callback can come, *)
(* and a string is in use only where it is kept.                              *)
Safe == {u \in Uds : phase[u] \in Live /\ ptr[u] \notin doubted}
Owned == \A u \in Safe : owner[ptr[u]] = u
Registered == \A u \in Safe : phase[u] = "closing" \/ u \notin garbage => weak[ptr[u]] = u
Kept ==
    /\ \A a \in Addrs : owner[a] = "nil" => inuse[a] = "nil"
    /\ \A u \in Uds : phase[u] = "none" => buffer[u] = "nil"
    /\ \A u \in Safe : phase[u] = "new" => inuse[ptr[u]] = "nil" /\ buffer[u] = "nil"
    /\ \A u \in Safe : u \in Readers /\ phase[u] = "open" => inuse[ptr[u]] = buffer[u]

(* At any address, also at one left behind, the registry has a userdata that    *)
(* points there, or that is freed and not yet swept: this keeps a callback for  *)
(* it from replacing the string of an archive elsewhere.                        *)
Weakly ==
    \A a \in Addrs : weak[a] # "nil" =>
        phase[weak[a]] = "done" \/ (phase[weak[a]] \in Live /\ ptr[weak[a]] = a)

Sound == ArchiveTypeOK /\ Owned /\ Registered /\ Weakly /\ Kept
Answered == found # <<>> => found[2] = owner[found[1]] \/ found[1] \in doubted
Aborted == dead => doubted # {}
ArchiveInv == Sound /\ Answered /\ Aborted

(* A new archive gets an address at which there is none, and no string. *)
LEMMA NewStep == ASSUME Sound, NEW u \in Uds, archive_new(u) PROVE Sound'
  <1>1. ArchiveTypeOK'
    BY DEF Sound, ArchiveTypeOK, Weakly, Owned, Uds, Safe, Live, archive_new, registry_set
  <1>2. Owned'
    BY ArchiveAssumption DEF Sound, ArchiveTypeOK, Owned, Safe, Uds, Live, archive_new, registry_set
  <1>3. Registered'
    BY ArchiveAssumption DEF Sound, ArchiveTypeOK, Owned, Registered, Safe, Uds, Live, archive_new, registry_set
  <1>4. Weakly'
    BY ArchiveAssumption DEF Sound, ArchiveTypeOK, Owned, Weakly, Safe, Uds, Live, archive_new, registry_set
  <1>5. Kept'
    BY ArchiveAssumption DEF Sound, ArchiveTypeOK, Owned, Registered, Weakly, Kept, Safe, Uds, Live, archive_new, registry_set
  <1> QED BY <1>1, <1>2, <1>3, <1>4, <1>5 DEF Sound

(* Opening changes nothing of it. *)
LEMMA OpenStep == ASSUME Sound, NEW u \in Uds, archive_open(u) PROVE Sound'
  <1>1. ArchiveTypeOK'
    BY DEF Sound, ArchiveTypeOK, Weakly, Owned, Uds, Safe, Live, archive_open
  <1>2. Owned'
    BY ArchiveAssumption DEF Sound, ArchiveTypeOK, Owned, Safe, Uds, Live, archive_open
  <1>3. Registered'
    BY ArchiveAssumption DEF Sound, ArchiveTypeOK, Owned, Registered, Safe, Uds, Live, archive_open
  <1>4. Weakly'
    BY ArchiveAssumption DEF Sound, ArchiveTypeOK, Owned, Weakly, Safe, Uds, Live, archive_open
  <1>5. Kept'
    BY ArchiveAssumption DEF Sound, ArchiveTypeOK, Owned, Registered, Weakly, Kept, Safe, Uds, Live, archive_open
  <1> QED BY <1>1, <1>2, <1>3, <1>4, <1>5 DEF Sound

(* The string a reader returns is kept in the userdata the registry has. *)
LEMMA ReaderStep == ASSUME Sound, NEW u \in Uds, callback_read(u) PROVE Sound'
  <1>1. ArchiveTypeOK'
    BY DEF Sound, ArchiveTypeOK, Weakly, Owned, Uds, Safe, Live, callback_read, Usable, Magic
  <1>2. Owned'
    BY ArchiveAssumption DEF Sound, ArchiveTypeOK, Owned, Safe, Uds, Live, callback_read, Usable, Magic
  <1>3. Registered'
    BY ArchiveAssumption DEF Sound, ArchiveTypeOK, Owned, Registered, Safe, Uds, Live, callback_read, Usable, Magic
  <1>4. Weakly'
    BY ArchiveAssumption DEF Sound, ArchiveTypeOK, Owned, Weakly, Safe, Uds, Live, callback_read, Usable, Magic
  <1>5. Kept'
    BY ArchiveAssumption DEF Sound, ArchiveTypeOK, Owned, Registered, Weakly, Kept, Safe, Uds, Live, callback_read, Usable, Magic
  <1> QED BY <1>1, <1>2, <1>3, <1>4, <1>5 DEF Sound

(* A writer's callback changes nothing. *)
LEMMA WriterStep == ASSUME Sound, NEW u \in Uds, callback_write(u) PROVE Sound'
  <1>1. ArchiveTypeOK'
    BY DEF Sound, ArchiveTypeOK, Weakly, Owned, Uds, Safe, Live, callback_write
  <1>2. Owned'
    BY ArchiveAssumption DEF Sound, ArchiveTypeOK, Owned, Safe, Uds, Live, callback_write
  <1>3. Registered'
    BY ArchiveAssumption DEF Sound, ArchiveTypeOK, Owned, Registered, Safe, Uds, Live, callback_write
  <1>4. Weakly'
    BY ArchiveAssumption DEF Sound, ArchiveTypeOK, Owned, Weakly, Safe, Uds, Live, callback_write
  <1>5. Kept'
    BY ArchiveAssumption DEF Sound, ArchiveTypeOK, Owned, Registered, Weakly, Kept, Safe, Uds, Live, callback_write
  <1> QED BY <1>1, <1>2, <1>3, <1>4, <1>5 DEF Sound

(* Nor does the use of an archive that is not there. *)
LEMMA UsedStep == ASSUME Sound, NEW u \in Uds, freed_used(u) PROVE Sound'
  <1>1. ArchiveTypeOK'
    BY DEF Sound, ArchiveTypeOK, Weakly, Owned, Uds, Safe, Live, freed_used
  <1>2. Owned'
    BY ArchiveAssumption DEF Sound, ArchiveTypeOK, Owned, Safe, Uds, Live, freed_used
  <1>3. Registered'
    BY ArchiveAssumption DEF Sound, ArchiveTypeOK, Owned, Registered, Safe, Uds, Live, freed_used
  <1>4. Weakly'
    BY ArchiveAssumption DEF Sound, ArchiveTypeOK, Owned, Weakly, Safe, Uds, Live, freed_used
  <1>5. Kept'
    BY ArchiveAssumption DEF Sound, ArchiveTypeOK, Owned, Registered, Weakly, Kept, Safe, Uds, Live, freed_used
  <1> QED BY <1>1, <1>2, <1>3, <1>4, <1>5 DEF Sound

(* The registry forgets what the collector found, and nothing else. *)
LEMMA CondemnedStep == ASSUME Sound, NEW u \in Uds, condemned(u) PROVE Sound'
  <1>1. ArchiveTypeOK'
    BY DEF Sound, ArchiveTypeOK, Weakly, Owned, Uds, Safe, Live, condemned
  <1>2. Owned'
    BY ArchiveAssumption DEF Sound, ArchiveTypeOK, Owned, Safe, Uds, Live, condemned
  <1>3. Registered'
    BY ArchiveAssumption DEF Sound, ArchiveTypeOK, Owned, Registered, Safe, Uds, Live, condemned
  <1>4. Weakly'
    BY ArchiveAssumption DEF Sound, ArchiveTypeOK, Owned, Weakly, Safe, Uds, Live, condemned
  <1>5. Kept'
    BY ArchiveAssumption DEF Sound, ArchiveTypeOK, Owned, Registered, Weakly, Kept, Safe, Uds, Live, condemned
  <1> QED BY <1>1, <1>2, <1>3, <1>4, <1>5 DEF Sound

(* free registers the archive again before it is closed. *)
LEMMA FreeStep == ASSUME Sound, NEW u \in Uds, archive_free(u) PROVE Sound'
  <1>1. ArchiveTypeOK'
    BY DEF Sound, ArchiveTypeOK, Weakly, Owned, Uds, Safe, Live, archive_free, registry_set
  <1>2. Owned'
    BY ArchiveAssumption DEF Sound, ArchiveTypeOK, Owned, Safe, Uds, Live, archive_free, registry_set
  <1>3. Registered'
    BY ArchiveAssumption DEF Sound, ArchiveTypeOK, Owned, Registered, Safe, Uds, Live, archive_free, registry_set
  <1>4. Weakly'
    BY ArchiveAssumption DEF Sound, ArchiveTypeOK, Owned, Weakly, Safe, Uds, Live, archive_free, registry_set
  <1>5. Kept'
    BY ArchiveAssumption DEF Sound, ArchiveTypeOK, Owned, Registered, Weakly, Kept, Safe, Uds, Live, archive_free, registry_set
  <1> QED BY <1>1, <1>2, <1>3, <1>4, <1>5 DEF Sound

(* An address whose userdata keeps it is doubted from then on. *)
LEMMA FailStep == ASSUME Sound, NEW u \in Uds, close_fails(u) PROVE Sound'
  <1>1. ArchiveTypeOK'
    BY DEF Sound, ArchiveTypeOK, Weakly, Owned, Uds, Safe, Live, close_fails, Released, Interrupted
  <1>2. Owned'
    BY ArchiveAssumption DEF Sound, ArchiveTypeOK, Owned, Safe, Uds, Live, close_fails, Released, Interrupted
  <1>3. Registered'
    BY ArchiveAssumption DEF Sound, ArchiveTypeOK, Owned, Registered, Safe, Uds, Live, close_fails, Released, Interrupted
  <1>4. Weakly'
    BY ArchiveAssumption DEF Sound, ArchiveTypeOK, Owned, Weakly, Safe, Uds, Live, close_fails, Released, Interrupted
  <1>5. Kept'
    BY ArchiveAssumption DEF Sound, ArchiveTypeOK, Owned, Registered, Weakly, Kept, Safe, Uds, Live, close_fails, Released, Interrupted
  <1> QED BY <1>1, <1>2, <1>3, <1>4, <1>5 DEF Sound

(* A closed archive gives its address back or stays as it is. *)
LEMMA NilStep == ASSUME Sound, NEW u \in Uds, callback_nil(u) PROVE Sound'
  <1>1. ArchiveTypeOK'
    BY DEF Sound, ArchiveTypeOK, Weakly, Owned, Uds, Safe, Live, callback_nil, Released, Interrupted
  <1>2. Owned'
    BY ArchiveAssumption DEF Sound, ArchiveTypeOK, Owned, Safe, Uds, Live, callback_nil, Released, Interrupted
  <1>3. Registered'
    BY ArchiveAssumption DEF Sound, ArchiveTypeOK, Owned, Registered, Safe, Uds, Live, callback_nil, Released, Interrupted
  <1>4. Weakly'
    BY ArchiveAssumption DEF Sound, ArchiveTypeOK, Owned, Weakly, Safe, Uds, Live, callback_nil, Released, Interrupted
  <1>5. Kept'
    BY ArchiveAssumption DEF Sound, ArchiveTypeOK, Owned, Registered, Weakly, Kept, Safe, Uds, Live, callback_nil, Released, Interrupted
  <1> QED BY <1>1, <1>2, <1>3, <1>4, <1>5 DEF Sound

(* A userdata that is gone takes its registration with it. *)
LEMMA SweptStep == ASSUME Sound, NEW u \in Uds, swept(u) PROVE Sound'
  <1>1. ArchiveTypeOK'
    BY DEF Sound, ArchiveTypeOK, Weakly, Owned, Uds, Safe, Live, swept
  <1>2. Owned'
    BY ArchiveAssumption DEF Sound, ArchiveTypeOK, Owned, Safe, Uds, Live, swept
  <1>3. Registered'
    BY ArchiveAssumption DEF Sound, ArchiveTypeOK, Owned, Registered, Safe, Uds, Live, swept
  <1>4. Weakly'
    BY ArchiveAssumption DEF Sound, ArchiveTypeOK, Owned, Weakly, Safe, Uds, Live, swept
  <1>5. Kept'
    BY ArchiveAssumption DEF Sound, ArchiveTypeOK, Owned, Registered, Weakly, Kept, Safe, Uds, Live, swept
  <1> QED BY <1>1, <1>2, <1>3, <1>4, <1>5 DEF Sound

(* libarchive accepts an address that no failure left behind. *)
LEMMA SafeIsMagic == ASSUME Sound, NEW u \in Safe PROVE Magic(u)
BY DEF Sound, Owned, Safe, Magic, Uds

(* Only callbacks leave an answer, and it is right where it is not doubted. *)
LEMMA AnsweredStep == ASSUME Sound, ArchiveNext PROVE Answered'
  <1>1. ASSUME NEW u \in Uds, callback_read(u) \/ callback_write(u) PROVE Answered'
    <2>1. found' = <<ptr[u], weak[ptr[u]]>> /\ owner' = owner /\ doubted' = doubted
      BY <1>1 DEF callback_read, callback_write
    <2>2. phase[u] \in Live /\ (phase[u] = "closing" \/ u \notin garbage)
      BY <1>1 DEF callback_read, callback_write, Usable, Live
    <2>3. u \in Safe => weak[ptr[u]] = u /\ owner[ptr[u]] = u
      BY <2>2 DEF Sound, Owned, Registered
    <2>4. u \in Safe \/ ptr[u] \in doubted
      BY <2>2 DEF Safe
    <2> QED BY <2>1, <2>3, <2>4 DEF Answered
  <1>2. ASSUME found' = <<>> PROVE Answered'
    BY <1>2, Zenon DEF Answered
  <1>3. ASSUME NEW u \in Uds,
               \/ archive_new(u) \/ archive_open(u) \/ freed_used(u) \/ condemned(u)
               \/ archive_free(u) \/ close_fails(u) \/ callback_nil(u) \/ swept(u)
        PROVE  found' = <<>>
    BY <1>3, Zenon DEF archive_new, archive_open, freed_used, condemned, archive_free, close_fails,
       callback_nil, swept
  <1> QED BY <1>1, <1>2, <1>3, Zenon DEF ArchiveNext

(* An archive that is not there is used only after a failure. *)
LEMMA AbortedStep == ASSUME Sound, Aborted, ArchiveNext PROVE Aborted'
  <1>1. ASSUME NEW u \in Uds, freed_used(u) \/ archive_free(u) PROVE Aborted'
    <2>1. phase[u] \in Live /\ doubted' = doubted
      BY <1>1 DEF freed_used, archive_free, Usable, Live
    <2>2. ~Magic(u) => doubted # {}
      BY <2>1, SafeIsMagic DEF Safe
    <2>3. dead' => ~Magic(u)
      BY <1>1, Zenon DEF freed_used, archive_free
    <2> QED BY <2>1, <2>2, <2>3, Zenon DEF Aborted
  <1>2. ASSUME NEW u \in Uds, close_fails(u) PROVE Aborted'
    <2>1. doubted' # {}
      BY <1>2 DEF close_fails
    <2> QED BY <2>1, Zenon DEF Aborted
  <1>3. ASSUME NEW u \in Uds,
               \/ archive_new(u) \/ archive_open(u) \/ callback_read(u) \/ callback_write(u)
               \/ condemned(u) \/ callback_nil(u) \/ swept(u)
        PROVE  dead' = dead /\ doubted' = doubted
    BY <1>3, Zenon DEF archive_new, archive_open, callback_read, callback_write, condemned,
       callback_nil, swept
  <1>4. ASSUME dead' = dead, doubted' = doubted PROVE Aborted'
    BY <1>4, Zenon DEF Aborted
  <1> QED BY <1>1, <1>2, <1>3, <1>4, Zenon DEF ArchiveNext

(* Every callback of libarchive for an address that no failed close or free    *)
(* left behind finds the userdata its archive was made for, the string         *)
(* libarchive reads in place is kept there, and libarchive is given no freed   *)
(* archive before such a failure: for any number of archives, failures and any *)
(* reuse of addresses.                                                         *)
THEOREM ArchivesCorrect == ArchiveSpec => []CallbacksFindTheirArchive
  <1>1. ArchiveInit => ArchiveInv
    <2> SUFFICES ASSUME ArchiveInit PROVE ArchiveInv
      OBVIOUS
    <2>1. ArchiveTypeOK
      BY DEF ArchiveInit, ArchiveTypeOK, Live
    <2>2. Owned /\ Registered /\ Weakly
      BY DEF ArchiveInit, Owned, Registered, Weakly, Safe, Live
    <2>3. Kept
      BY DEF ArchiveInit, Kept, Safe, Uds
    <2>4. Answered /\ Aborted
      BY Zenon DEF ArchiveInit, Answered, Aborted
    <2> QED BY <2>1, <2>2, <2>3, <2>4 DEF ArchiveInv, Sound
  <1>2. ArchiveInv /\ [ArchiveNext]_arVars => ArchiveInv'
    <2> SUFFICES ASSUME ArchiveInv, [ArchiveNext]_arVars PROVE ArchiveInv'
      OBVIOUS
    <2>1. CASE UNCHANGED arVars
      <3>1. Sound'
        BY <2>1 DEF arVars, ArchiveInv, Sound, ArchiveTypeOK, Owned, Registered, Weakly, Kept, Safe
      <3>2. found' = found /\ owner' = owner /\ doubted' = doubted /\ dead' = dead
        BY <2>1 DEF arVars
      <3> QED BY <3>1, <3>2, Zenon DEF ArchiveInv, Answered, Aborted
    <2>2. CASE ArchiveNext
      <3>1. Sound'
        BY <2>2, NewStep, OpenStep, ReaderStep, WriterStep, UsedStep, CondemnedStep, FreeStep,
           FailStep, NilStep, SweptStep, Zenon DEF ArchiveNext, ArchiveInv
      <3> QED BY <2>2, <3>1, AnsweredStep, AbortedStep DEF ArchiveInv
    <2> QED BY <2>1, <2>2
  <1>3. ArchiveInv => CallbacksFindTheirArchive
    <2> SUFFICES ASSUME ArchiveInv PROVE CallbacksFindTheirArchive
      OBVIOUS
    <2>1. \A u \in Readers : phase[u] = "open" => inuse[ptr[u]] = buffer[u] \/ ptr[u] \in doubted
      BY DEF ArchiveInv, Sound, Kept, Safe, Live, Uds
    <2> QED BY <2>1, Zenon DEF ArchiveInv, Answered, Aborted, CallbacksFindTheirArchive
  <1> QED BY <1>1, <1>2, <1>3, PTL DEF ArchiveSpec

-----------------------------------------------------------------------------
(* Capability sets. *)
CapTypeOK ==
    /\ DOMAIN cap = CapSets
    /\ idx \in Nat /\ n \in Nat

(* The loop of lcap_flag: what the array holds was named; as long as no table  *)
(* was met, all that was named is in it; an empty array holds nothing; and it  *)
(* is never overrun.                                                           *)
Looped ==
    /\ n <= MAX_CAPABILITIES
    /\ n = 0 => values = {}
    /\ values \subseteq listed
    /\ form = "strings" => values = listed

(* What a call that has returned did. *)
Returned ==
    /\ \A s \in CapSets :
           /\ cap[s] \ last.before[s] \subseteq (IF last.on THEN last.listed ELSE {})
           /\ last.before[s] \ cap[s] \subseteq (IF last.on THEN {} ELSE last.listed)
           /\ SetAsked(last.x) # {} /\ s \notin SetAsked(last.x) => cap[s] = last.before[s]
    /\ last.form = "strings" /\ last.more = {} => DoneAsAsked

CapInv == CapTypeOK /\ Looped /\ (last # NoCall => Returned)

(* A set that is named selects itself and no other. *)
LEMMA SelectsNamed ==
    ASSUME NEW x \in FlagArguments, SetAsked(x) # {}
    PROVE  Selected(x, cap_set_opts, "effective") = SetAsked(x)
  <1> DEFINE opts == cap_set_opts
  <1>1. DOMAIN opts = CapSets
    BY DEF cap_set_opts, CapSets
  <1>2. opts["effective"] = {} /\ opts["permitted"] = {0} /\ opts["inheritable"] = {1}
    BY DEF cap_set_opts
  <1>3. ASSUME x = <<>> PROVE Selected(x, opts, "effective") = SetAsked(x)
    <2>1. tocflags(x, opts, "effective") = {} /\ SetAsked(x) = {"effective"}
      BY <1>2, <1>3 DEF tocflags, SetAsked
    <2> HIDE DEF opts
    <2> QED BY <1>1, <1>2, <2>1 DEF Selected, CapSets
  <1>4. ASSUME NEW s \in CapSets, x = <<s>> PROVE Selected(x, opts, "effective") = SetAsked(x)
    <2>1. x # <<>> /\ DOMAIN x = {1} /\ x[1] = s /\ Len(x) = 1
      BY <1>4
    <2>2. SetAsked(x) = {s}
      BY <2>1 DEF SetAsked
    <2>3. tocflags(x, opts, "effective") = OptionBits(s, opts)
      BY <2>1 DEF tocflags
    <2>4. OptionBits(s, opts) = opts[s]
      BY <1>1 DEF OptionBits
    <2> HIDE DEF opts
    <2> QED BY <1>1, <1>2, <2>2, <2>3, <2>4 DEF Selected, CapSets
  <1>5. ASSUME x \in {<<"misspelt">>, <<"effective", "permitted">>, <<"permitted", "inheritable">>}
        PROVE  SetAsked(x) = {}
    BY <1>5 DEF SetAsked, CapSets
  <1> QED BY <1>3, <1>4, <1>5 DEF FlagArguments

(* The steps of the loop. *)
LEMMA CapLoops ==
    ASSUME CapInv,
           \/ lcap_flag
           \/ \E name \in Names : flag_string(name)
           \/ \E t \in Tables : flag_table(t)
    PROVE  CapInv'
  <1>1. CASE lcap_flag
    <2>1. CapTypeOK' /\ Looped'
      BY <1>1 DEF CapInv, CapTypeOK, Looped, lcap_flag
    <2> QED BY <1>1, <2>1 DEF CapInv, lcap_flag
  <1>2. ASSUME CapTypeOK', Looped', UNCHANGED <<cap, last>> PROVE CapInv'
    BY <1>2 DEF CapInv, Returned, DoneAsAsked
  <1>3. ASSUME NEW name \in Names, flag_string(name) PROVE CapInv'
    <2>1. CapTypeOK' /\ Looped'
      BY <1>3, CapAssumption DEF CapInv, CapTypeOK, Looped, flag_string, Looking, Taken
    <2> QED BY <1>2, <1>3, <2>1 DEF flag_string
  <1>4. ASSUME NEW t \in Tables, flag_table(t) PROVE CapInv'
    <2>1. CapTypeOK'
      BY <1>4, CapAssumption DEF CapInv, CapTypeOK, flag_table, Looking
    <2>2. CASE t = <<>> \/ t[1] \notin Caps
      BY <1>2, <1>4, <2>1, <2>2 DEF CapInv, CapTypeOK, Looped, flag_table
    <2>3. CASE t # <<>> /\ t[1] \in Caps
      <3>1. Looped'
        BY <1>4, <2>3, CapAssumption DEF CapInv, CapTypeOK, Looped, flag_table, Looking
      <3> QED BY <1>2, <1>4, <2>1, <3>1 DEF flag_table
    <2> QED BY <2>2, <2>3
  <1> QED BY <1>1, <1>3, <1>4

(* The call: it does what its array says to the set that was asked for. *)
LEMMA FlagSetStep ==
    ASSUME CapInv, NEW x \in FlagArguments, NEW on \in BOOLEAN, NEW more \in {{}, Caps},
           flag_set(x, on, more)
    PROVE  CapInv'
  <1> DEFINE sets == IF n = 0 THEN {} ELSE Selected(x, cap_set_opts, "effective")
  <1>1. CapTypeOK' /\ Looped'
    BY CapAssumption DEF flag_set, CapTypeOK, Looped
  <1>2. /\ last'.before = cap /\ last'.on = on /\ last'.x = x /\ last'.form = form
        /\ last'.more = more /\ last'.listed = listed \cup more
    BY DEF flag_set
  <1>3. \A s \in CapSets : cap'[s] = IF s \in sets THEN Changed(cap[s], values, on) ELSE cap[s]
    BY DEF flag_set
  <1>4. values \subseteq listed /\ (form = "strings" => values = listed) /\ (n = 0 => values = {})
    BY DEF CapInv, Looped
  <1>5. SetAsked(x) # {} => sets = SetAsked(x) \/ (sets = {} /\ values = {})
    BY <1>4, SelectsNamed
  <1> HIDE DEF sets
  <1>6. \A s \in CapSets :
           /\ cap'[s] \ cap[s] \subseteq (IF on THEN listed \cup more ELSE {})
           /\ cap[s] \ cap'[s] \subseteq (IF on THEN {} ELSE listed \cup more)
    BY <1>3, <1>4 DEF Changed
  <1>7. \A s \in CapSets : SetAsked(x) # {} /\ s \notin SetAsked(x) => cap'[s] = cap[s]
    BY <1>3, <1>5
  <1>8. ASSUME form = "strings", more = {}, NEW s \in SetAsked(x)
        PROVE  cap'[s] = IF on THEN cap[s] \cup listed ELSE cap[s] \ listed
    <2>1. s \in CapSets
      BY <1>8 DEF SetAsked, CapSets
    <2> QED BY <1>3, <1>4, <1>5, <1>8, <2>1 DEF Changed
  <1>9. Returned'
    <2>1. form = "strings" /\ more = {} => DoneAsAsked'
      BY <1>2, <1>8 DEF DoneAsAsked
    <2> QED BY <1>2, <1>6, <1>7, <2>1 DEF Returned
  <1> QED BY <1>1, <1>9 DEF CapInv

(* clear, fill and the ways to get a new set come between two calls. *)
LEMMA CapOthers ==
    ASSUME CapInv,
           \/ \E x \in FlagArguments : lcap_clear(x, FALSE)
           \/ lcap_clear(<<>>, TRUE)
           \/ fill_any
           \/ \E caps \in {{}, Caps} : lcap_get(caps)
    PROVE  CapInv'
  <1>1. DOMAIN cap' = CapSets /\ last' = NoCall /\ UNCHANGED flagVars
    BY DEF CapInv, CapTypeOK, lcap_clear, lcap_fill, fill_any, lcap_get
  <1> QED BY <1>1 DEF CapInv, CapTypeOK, Looped, flagVars

(* For any capabilities, any array size, any arguments and sequence of calls. *)
THEOREM CapabilitiesCorrect == CapSpec => []FlagsAreAsAsked
  <1>1. CapInit => CapInv
    BY CapAssumption DEF CapInit, CapInv, CapTypeOK, Looped, Idle
  <1>2. CapInv /\ [CapNext]_capVars => CapInv'
    <2>1. ASSUME CapInv, UNCHANGED capVars PROVE CapInv'
      BY <2>1 DEF capVars, flagVars, CapInv, CapTypeOK, Looped, Returned, DoneAsAsked
    <2>2. ASSUME CapInv, flag_spins PROVE CapInv'
      BY <2>1, <2>2 DEF flag_spins
    <2>3. ASSUME CapInv, CapNext PROVE CapInv'
      BY <2>2, <2>3, CapLoops, FlagSetStep, CapOthers, Zenon DEF CapNext
    <2> QED BY <2>1, <2>3
  <1>3. CapInv => FlagsAreAsAsked
    BY DEF CapInv, Looped, Returned, FlagsAreAsAsked
  <1> QED BY <1>1, <1>2, <1>3, PTL DEF CapSpec
=============================================================================
