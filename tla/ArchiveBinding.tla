--------------------------- MODULE ArchiveBinding ---------------------------
(* The archives of daemon/lua_archive.c: libarchive calls back with the        *)
(* address of an archive, and a weak table of the registry finds the userdata  *)
(* whose environment holds the script's function.                              *)
EXTENDS Integers, FiniteSets

CONSTANTS
    Readers, Writers,   \* userdata
    Addrs,              \* addresses of libarchive's objects, which are used again
    Buffers,            \* strings a reader returns
    MaxFailures

ASSUME ArchiveAssumption == "nil" \notin Readers \cup Writers

VARIABLES
    phase,     \* userdata -> "none", "new", "open", "closing", "closed", "done"
    ptr,       \* userdata -> the address it has, "NULL" after it is freed
    garbage,   \* userdata that nothing reaches; their finalizer runs once
    weak,      \* the registry: address -> userdata or "nil"
    buffer,    \* userdata -> fenv["read_buffer"]
    inuse,     \* address -> the string libarchive reads from, while it is allocated
    owner,     \* address -> the userdata its archive was made for, "nil" when it is free
    found,     \* <<address, userdata>> of the last callback, or <<>>
    doubted,   \* history: addresses a userdata kept although their archive was freed
    dead       \* libarchive was given an archive without its magic number and aborted

arVars == <<phase, ptr, garbage, weak, buffer, inuse, owner, found, doubted, dead>>
Uds == Readers \cup Writers

ArchiveInit ==
    /\ phase = [u \in Uds |-> "none"] /\ ptr = [u \in Uds |-> "NULL"]
    /\ garbage = {} /\ weak = [a \in Addrs |-> "nil"]
    /\ buffer = [u \in Uds |-> "nil"] /\ inuse = [a \in Addrs |-> "nil"]
    /\ owner = [a \in Addrs |-> "nil"] /\ found = <<>>
    /\ doubted = {} /\ dead = FALSE

registry_set(u) == weak' = [weak EXCEPT ![ptr'[u]] = u]

(* archive.read and archive.write: the archive is registered before the     *)
(* parameters are looked at, any of which may raise an error.               *)
archive_new(u) ==
    /\ phase[u] = "none"
    /\ \E a \in Addrs :
           /\ owner[a] = "nil" /\ owner' = [owner EXCEPT ![a] = u]
           /\ ptr' = [ptr EXCEPT ![u] = a]
           /\ registry_set(u)
    /\ phase' = [phase EXCEPT ![u] = "new"] /\ found' = <<>>
    /\ UNCHANGED <<garbage, buffer, inuse, doubted, dead>>

archive_open(u) ==
    /\ phase[u] = "new" /\ u \notin garbage
    /\ phase' = [phase EXCEPT ![u] = "open"] /\ found' = <<>>
    /\ UNCHANGED <<ptr, garbage, weak, buffer, inuse, owner, doubted, dead>>

(* libarchive accepts an address at which it has an archive of the same kind; *)
(* a userdata that kept one may get at the archive of another.                *)
Magic(u) ==
    \/ u \in Readers /\ owner[ptr[u]] \in Readers
    \/ u \in Writers /\ owner[ptr[u]] \in Writers

Usable(u) == phase[u] \in {"open", "closed"} /\ u \notin garbage

(* libarchive wants data.  The reader may return nil or fail; a string is kept *)
(* in the environment of the userdata that was found, for libarchive reads it  *)
(* in place until it asks again.                                               *)
callback_read(u) ==
    /\ u \in Readers /\ Usable(u) /\ Magic(u) /\ phase[owner[ptr[u]]] = "open"
    /\ found' = <<ptr[u], weak[ptr[u]]>>
    /\ \/ \E b \in Buffers : weak[ptr[u]] # "nil" /\
              /\ inuse' = [inuse EXCEPT ![ptr[u]] = b]
              /\ buffer' = [buffer EXCEPT ![weak[ptr[u]]] = b]
       \/ UNCHANGED <<inuse, buffer>>
    /\ UNCHANGED <<phase, ptr, garbage, weak, owner, doubted, dead>>

(* libarchive has data: while the script writes, and when the archive is closed. *)
callback_write(u) ==
    /\ u \in Writers
    /\ \/ phase[u] = "closing"
       \/ Usable(u) /\ Magic(u) /\ phase[owner[ptr[u]]] = "open"
    /\ found' = <<ptr[u], weak[ptr[u]]>>
    /\ UNCHANGED <<phase, ptr, garbage, weak, buffer, inuse, owner, doubted, dead>>

(* Any method on an archive that is no longer there. *)
freed_used(u) ==
    /\ Usable(u) /\ ~Magic(u)
    /\ dead' = TRUE /\ found' = <<>>
    /\ UNCHANGED <<phase, ptr, garbage, weak, buffer, inuse, owner, doubted>>

(* The collector finds u unreachable: weak tables forget it before __gc runs. *)
condemned(u) ==
    /\ phase[u] \in {"new", "open", "closed", "done"} /\ u \notin garbage
    /\ garbage' = garbage \cup {u}
    /\ weak' = [a \in Addrs |-> IF weak[a] = u THEN "nil" ELSE weak[a]]
    /\ found' = <<>>
    /\ UNCHANGED <<phase, ptr, buffer, inuse, owner, doubted, dead>>

(* Mutant: the archive is closed without being registered again. *)
archive_free_unregistered(u) ==
    /\ phase[u] \in {"new", "open", "closed"}
    /\ phase' = [phase EXCEPT ![u] = "closing"] /\ found' = <<>>
    /\ UNCHANGED <<ptr, garbage, weak, buffer, inuse, owner, doubted, dead>>

(* free and __gc: registered again, the archive is closed, whosever it is. *)
archive_free(u) ==
    /\ phase[u] \in {"new", "open", "closed"} /\ UNCHANGED ptr
    /\ registry_set(u)
    /\ phase' = [phase EXCEPT ![u] = "closing"] /\ found' = <<>>
    /\ dead' = ~Magic(u)
    /\ UNCHANGED <<garbage, buffer, inuse, owner, doubted>>

Released(u) ==
    /\ owner' = [owner EXCEPT ![ptr[u]] = "nil"]
    /\ inuse' = [inuse EXCEPT ![ptr[u]] = "nil"]

(* An error of free: __gc does not run a second time. *)
Interrupted(u) == phase' = [phase EXCEPT ![u] = IF u \in garbage THEN "done" ELSE "closed"]

(* When it cannot be closed, or libarchive reports an error as it frees it, it *)
(* is freed and the userdata keeps the pointer, for the next free to use.      *)
(* Bound: MaxFailures addresses are left behind so.                            *)
close_fails(u) ==
    /\ Cardinality(doubted \cup {ptr[u]}) <= MaxFailures
    /\ phase[u] = "closing" /\ Released(u) /\ Interrupted(u)
    /\ doubted' = doubted \cup {ptr[u]} /\ found' = <<>>
    /\ UNCHANGED <<ptr, garbage, weak, buffer, dead>>

(* Else the function is called with nil; an error in it leaves the archive, *)
(* closed, to the next free, if there is one.                               *)
callback_nil(u) ==
    /\ phase[u] = "closing" /\ found' = <<>>
    /\ \/ /\ Released(u) /\ ptr' = [ptr EXCEPT ![u] = "NULL"]
          /\ phase' = [phase EXCEPT ![u] = "done"]
       \/ Interrupted(u) /\ UNCHANGED <<ptr, inuse, owner>>
    /\ UNCHANGED <<garbage, weak, buffer, doubted, dead>>

(* The storage of the userdata is released; it stands for a new one.  An archive *)
(* that an error of its function left allocated stays so.  Bound: MaxFailures    *)
(* failures are the last thing of interest.                                      *)
swept(u) ==
    /\ Cardinality(doubted) < MaxFailures
    /\ phase[u] = "done" /\ u \in garbage
    /\ phase' = [phase EXCEPT ![u] = "none"] /\ ptr' = [ptr EXCEPT ![u] = "NULL"]
    /\ garbage' = garbage \ {u} /\ buffer' = [buffer EXCEPT ![u] = "nil"]
    /\ weak' = [a \in Addrs |-> IF weak[a] = u THEN "nil" ELSE weak[a]]
    /\ found' = <<>>
    /\ UNCHANGED <<inuse, owner, doubted, dead>>

ArchiveNext ==
    ~dead /\ \E u \in Uds :
        \/ archive_new(u) \/ archive_open(u) \/ callback_read(u) \/ callback_write(u) \/ freed_used(u)
        \/ condemned(u) \/ archive_free(u) \/ close_fails(u) \/ callback_nil(u) \/ swept(u)

ArchiveSpec == ArchiveInit /\ [][ArchiveNext]_arVars

(* Although the registry does not keep the archives alive, although addresses *)
(* are used again, and also when the collector is the one that frees, every   *)
(* callback finds the userdata its archive was made for; the string           *)
(* libarchive reads in place is one the collector finds in that userdata; and *)
(* no archive is used after it was freed.  The exception is the address of an *)
(* archive that failed to close or to be freed: its userdata keeps the        *)
(* pointer (lua_archive.c:662, 678) and the next free, by the script or by    *)
(* the collector, closes what is there by then.  Other addresses are safe     *)
(* from it.                                                                   *)
CallbacksFindTheirArchive ==
    /\ found # <<>> => found[2] = owner[found[1]] \/ found[1] \in doubted
    /\ \A u \in Readers : phase[u] = "open" => inuse[ptr[u]] = buffer[u] \/ ptr[u] \in doubted
    /\ dead => doubted # {}
=============================================================================
