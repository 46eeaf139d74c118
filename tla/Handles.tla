------------------------------ MODULE Handles -------------------------------
(* What the C bindings of the daemon have in common: userdata that own        *)
(* references to the counted objects of a C library, and Lua's collector,     *)
(* which runs __gc on a userdata some time after nothing reaches it.          *)
EXTENDS Integers, FiniteSets, FiniteSetsExt

CONSTANTS
    Objs,     \* the objects of the library
    Slots     \* the userdata

VARIABLES
    heap,     \* refs: the count of each object, 0 when it is not allocated; type: what
              \* it is; holds: the objects it has a reference on itself
    uds,      \* the userdata: its kind, the objects it owns a reference on, the
              \* objects it points at without one, and the userdata it keeps alive
    dangling, \* history: objects of which a reference was given up that a handle still has
    leaked    \* history: objects of which the binding lost a reference

handleVars == <<heap, uds, dangling, leaked>>
lapses == <<dangling, leaked>>

NoHandle == [kind |-> "none", own |-> {}, raw |-> {}, up |-> {}]
Handle(kind, own) == [kind |-> kind, own |-> own, raw |-> {}, up |-> {}]

(* NULL: what an operation that fails leaves on the stack. *)
Empty == Handle("empty", {})

Alive(o) == heap.refs[o] > 0
Of(kind) == {u \in Slots : uds[u].kind = kind}

(* toXXX: the pointer in a userdata of a kind, unless it is NULL.  What a      *)
(* library does with an object that was freed is undefined and not followed.   *)
The(u, kind) == IF u \in Of(kind) THEN {o \in uds[u].own : Alive(o)} ELSE {}
Held(p, type) == {o \in heap.holds[p] : heap.type[o] = type}

HandlesInit ==
    /\ heap = [refs |-> [o \in Objs |-> 0], type |-> [o \in Objs |-> ""], holds |-> [o \in Objs |-> {}]]
    /\ uds = [u \in Slots |-> NoHandle]
    /\ dangling = {} /\ leaked = {}

(* newcptr pushes a userdata whose pointer is NULL until the caller sets it. *)
newcptr(u, handle) ==
    /\ uds[u] = NoHandle
    /\ uds' = [uds EXCEPT ![u] = handle]

(* Storage that nothing points at any more may be allocated again. *)
Unused == {o \in Objs \ dangling : ~Alive(o) /\ \A u \in Slots : o \notin uds[u].own \cup uds[u].raw}

Ref(h, os) == [h EXCEPT !.refs = [o \in Objs |-> @[o] + (IF o \in os THEN 1 ELSE 0)]]

Allocate(h, o, type, held) == [Ref(h, held \cup {o}) EXCEPT !.type[o] = type, !.holds[o] = held]

(* The last reference frees the object, and with it those it holds. *)
RECURSIVE Unref(_, _)
Unref(h, o) ==
    IF h.refs[o] # 1
    THEN [h EXCEPT !.refs[o] = IF @ = 0 THEN 0 ELSE @ - 1]
    ELSE FoldSet(LAMBDA x, acc : Unref(acc, x), 
                 [h EXCEPT !.refs[o] = 0, !.type[o] = "", !.holds[o] = {}], h.holds[o])

(* The destructors that free the object whoever still refers to it. *)
Free(h, o) == Unref([h EXCEPT !.refs[o] = 1], o)

UnrefAll(h, os) == FoldSet(LAMBDA o, acc : Unref(acc, o), h, os)

(* No other userdata has u as an upvalue or in its environment. *)
Unreachable(u) == uds[u] # NoHandle /\ \A v \in Slots : u \notin uds[v].up

(* The collector may run __gc on u, which is defined unless its object is gone. *)
Collectable(u) == Unreachable(u) /\ \A o \in uds[u].own : Alive(o)

(* Bound: a behaviour gives up a reference that a handle still has once. *)
FirstLapse == dangling = {}

(* Pointers that nothing of the binding keeps alive. *)
BorrowedKinds == {"config", "header"}

Holders(o) ==
    Cardinality({u \in Slots : o \in uds[u].own}) + Cardinality({p \in Objs : o \in heap.holds[p]})

(* Whatever the script does with the values it gets and whenever the collector *)
(* runs, every object is counted once for each userdata and each object that   *)
(* refers to it, so that none is freed under a userdata and none is left       *)
(* behind by the last; and a loop that keeps its table or its list has no      *)
(* pointer to a freed entry.  The exceptions, per object:                      *)
(* - dangling: the script called unref of a libkmod object (lua_kmod.c:86,     *)
(*   317), freed a libmount object that others refer to (lua_mount.c:60), took *)
(*   an entry out of a table under a loop, ran over_fs from a filesystem of no *)
(*   table or borrowed a message (lua_dbus.c:429); or get_table of a context   *)
(*   failed and left the table libmount had freed in its userdata              *)
(*   (lua_mount.c:643);                                                        *)
(* - leaked: a table of get_table, which is counted twice (lua_mount.c:649), a *)
(*   bus that was closed (lua_systemd.c:513) and a pending call whose function *)
(*   raised an error (lua_dbus.c:332);                                         *)
(* - nothing is claimed of what configuration iterators (lua_kmod.c:131) and   *)
(*   package headers (lua_rpm.c:252) point at.                                 *)
CountsAreHolders ==
    \A o \in Objs \ dangling :
        /\ heap.refs[o] >= Holders(o)
        /\ o \notin leaked => heap.refs[o] = Holders(o)
        /\ (\E u \in Slots : uds[u].kind \notin BorrowedKinds /\ o \in uds[u].raw) => Alive(o)
=============================================================================
