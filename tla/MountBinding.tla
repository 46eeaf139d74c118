---------------------------- MODULE MountBinding ----------------------------
(* The filesystems, tables, contexts, caches and loops of daemon/lua_mount.c.  *)
EXTENDS Handles

(* new_fs, new_table, new_context and new_cache. *)
mnt_new(u) ==
    \E type \in {"fs", "table", "context", "cache"} :
        /\ \/ \E o \in Unused : heap' = Allocate(heap, o, type, {}) /\ newcptr(u, Handle(type, {o}))
           \/ newcptr(u, Empty) /\ UNCHANGED heap
        /\ UNCHANGED lapses

(* new_table_from_dir and new_table_from_file: a table with a filesystem. *)
mnttable_new_from(u) ==
    /\ \E f, t \in Unused : f # t /\
           /\ heap' = Unref(Allocate(Allocate(heap, f, "fs", {}), t, "table", {f}), f)
           /\ newcptr(u, Handle("table", {t}))
    /\ UNCHANGED lapses

(* Mutant: the userdata takes no reference of its own. *)
mnttable_find_borrows(u, v) ==
    /\ \E t \in The(v, "table") : \E f \in Held(t, "fs") : newcptr(u, Handle("fs", {f}))
    /\ UNCHANGED <<heap, lapses>>

(* find_devno, find_* and first_fs, last_fs, get_root_fs: what the library      *)
(* returns belongs to the table, so the userdata takes a reference of its own.  *)
mnttable_find(u, v) ==
    /\ \E t \in The(v, "table") :
           \/ \E f \in Held(t, "fs") : heap' = Ref(heap, {f}) /\ newcptr(u, Handle("fs", {f}))
           \/ newcptr(u, Empty) /\ UNCHANGED heap
    /\ UNCHANGED lapses

(* p takes a reference on o in the place of those it had on old. *)
Holding(p, old, o) ==
    IF o \in heap.holds[p] THEN heap
    ELSE UnrefAll([Ref(heap, {o}) EXCEPT !.holds[p] = (@ \ old) \cup {o}], old)

(* table:cache() and table:cache(cache). *)
mnttable_cache_get(u, v) ==
    /\ \E t \in The(v, "table") :
           \/ \E c \in Held(t, "cache") : heap' = Ref(heap, {c}) /\ newcptr(u, Handle("cache", {c}))
           \/ Held(t, "cache") = {} /\ newcptr(u, Empty) /\ UNCHANGED heap
    /\ UNCHANGED lapses

mnttable_cache_set(u, v) ==
    /\ \E t \in The(u, "table"), c \in The(v, "cache") : heap' = Holding(t, Held(t, "cache"), c)
    /\ UNCHANGED <<uds, lapses>>

mntcache_set_targets(u, v) ==
    /\ \E c \in The(u, "cache"), t \in The(v, "table") : heap' = Holding(c, Held(c, "table"), t)
    /\ UNCHANGED <<uds, lapses>>

(* Some loop over table t may point at the entry it returns next. *)
Looping(t) == \E l \in Slots : \E v \in uds[l].up : t \in The(v, "table")

InTable(f) == \E t \in Objs : heap.type[t] = "table" /\ f \in heap.holds[t]

(* add_fs and insert_fs *)
mnttable_add_fs(u, v) ==
    /\ \E t \in The(u, "table"), f \in The(v, "fs") : ~InTable(f) /\ heap' = Holding(t, {}, f)
    /\ UNCHANGED <<uds, lapses>>

mnttable_remove_fs(u, v) ==
    /\ \E t \in The(u, "table"), f \in The(v, "fs") :
           /\ f \in heap.holds[t]
           /\ heap' = Unref([heap EXCEPT !.holds[t] = @ \ {f}], f)
           /\ dangling' = dangling \cup (IF Looping(t) THEN {f} ELSE {})
    /\ UNCHANGED <<uds, leaked>>

(* move_fs: the reference moves along. *)
mnttable_move_fs(u, v) ==
    /\ \E s \in The(u, "table"), d \in The(v, "table") : \E f \in Held(s, "fs") :
           /\ heap' = [heap EXCEPT !.holds = [@ EXCEPT ![s] = @ \ {f}, ![d] = @ \cup {f}]]
           /\ dangling' = dangling \cup (IF Looping(s) THEN {f} ELSE {})
    /\ UNCHANGED <<uds, leaked>>

(* fs and child_fs push closures that have the table, the parent and the      *)
(* iterator as upvalues; the iterator points at the entry it returns next.    *)
mnttable_fs(u, v) ==
    /\ The(v, "table") # {}
    /\ newcptr(u, [Handle("fs_next", {}) EXCEPT !.up = {v}])
    /\ UNCHANGED <<heap, lapses>>

mnttable_child_fs(u, v, w) ==
    /\ The(v, "table") # {} /\ The(w, "fs") # {}
    /\ newcptr(u, [Handle("fs_next", {}) EXCEPT !.up = {v, w}])
    /\ UNCHANGED <<heap, lapses>>

(* over_fs keeps the table and the bare pointer to the filesystem. *)
mnttable_over_fs(u, v, w) ==
    /\ \E t \in The(v, "table"), f \in The(w, "fs") :
           dangling' = dangling \cup ({f} \ heap.holds[t])
    /\ newcptr(u, [Handle("over_fs_next", {}) EXCEPT !.raw = uds[w].own, !.up = {v}])
    /\ UNCHANGED <<heap, leaked>>

(* A step of either loop: the filesystem it returns, or nil. *)
mnttable_fs_next(u, l) ==
    /\ uds[u] = NoHandle /\ l \in Of("fs_next")
    /\ \E t \in UNION {The(v, "table") : v \in uds[l].up} :
           \/ \E f \in IF uds[l].raw = {} THEN Held(t, "fs") ELSE {g \in uds[l].raw : Alive(g)} :
              \E ahead \in {{}} \cup {{g} : g \in Held(t, "fs") \ {f}} :
                  /\ heap' = Ref(heap, {f})
                  /\ uds' = [uds EXCEPT ![u] = Handle("fs", {f}), ![l].raw = ahead]
           \/ newcptr(u, Empty) /\ UNCHANGED heap
    /\ UNCHANGED lapses

mnttable_over_fs_next(u, l) ==
    /\ uds[u] = NoHandle /\ l \in Of("over_fs_next")
    /\ \A f \in uds[l].raw : Alive(f)
    /\ \E t \in UNION {The(v, "table") : v \in uds[l].up} :
           \/ \E f \in Held(t, "fs") \ uds[l].raw :
                  /\ heap' = Ref(heap, {f})
                  /\ uds' = [uds EXCEPT ![u] = Handle("fs", {f}), ![l].raw = {f}]
           \/ newcptr(u, Empty) /\ UNCHANGED heap
    /\ UNCHANGED lapses

(* get_mtab: the context keeps the table it has read, and the userdata takes a *)
(* reference of its own.                                                       *)
mntcontext_get_mtab(u, v) ==
    /\ \E c \in The(v, "context") :
           \/ \E t \in Held(c, "table") : heap' = Ref(heap, {t}) /\ newcptr(u, Handle("table", {t}))
           \/ \E t \in Unused : /\ heap' = [Ref(Allocate(heap, t, "table", {}), {t}) EXCEPT !.holds[c] = @ \cup {t}]
                                /\ newcptr(u, Handle("table", {t}))
           \/ newcptr(u, Empty) /\ UNCHANGED heap
    /\ UNCHANGED lapses

(* get_table: the table is new and the caller's, with the cache of the context, *)
(* and the userdata takes a second reference on it.  When the file cannot be    *)
(* read libmount frees the table and leaves its address in the userdata.        *)
mntcontext_get_table(u, v) ==
    /\ \E c \in The(v, "context"), t \in Unused :
           \/ /\ heap' = Ref(Allocate(heap, t, "table", Held(c, "cache")), {t})
              /\ leaked' = leaked \cup {t} /\ UNCHANGED dangling
              /\ newcptr(u, Handle("table", {t}))
           \/ /\ FirstLapse /\ dangling' = dangling \cup {t} /\ UNCHANGED <<heap, leaked>>
              /\ newcptr(u, Handle("table", {t}))
           \/ newcptr(u, Empty) /\ UNCHANGED <<heap, lapses>>

(* set_cache, set_fs and set_fstab. *)
mntcontext_set(u, v) ==
    /\ \E c \in The(u, "context") : \E type \in {"cache", "fs", "table"} : \E o \in The(v, type) :
           \/ heap' = Holding(c, Held(c, type), o)
           \/ type = "table" /\ heap' = Holding(c, {}, o)
    /\ UNCHANGED <<uds, lapses>>

(* The method free deallocates the object, whatever its count, and forgets it. *)
mnt_free(u) ==
    /\ \E o \in {x \in uds[u].own : Alive(x)} :
           /\ heap' = Free(heap, o)
           /\ dangling' = dangling \cup (IF heap.refs[o] > 1 THEN {o} ELSE {})
                                   \cup (IF Unreachable(u) THEN {} ELSE heap.holds[o])
           /\ dangling' # dangling => FirstLapse
    /\ uds' = [uds EXCEPT ![u].own = {}]
    /\ UNCHANGED leaked

(* __gc of filesystems, tables and caches; that of contexts is free. *)
mnt_unref(u) == heap' = UnrefAll(heap, uds[u].own)
mntcontext_free(u) == heap' = FoldSet(LAMBDA o, h : Free(h, o), heap, uds[u].own)

mnt_gc(u) ==
    /\ Collectable(u) /\ uds' = [uds EXCEPT ![u] = NoHandle] /\ UNCHANGED lapses
    /\ IF u \in Of("context") THEN mntcontext_free(u) ELSE mnt_unref(u)

MountNext ==
    \E u \in Slots :
        \/ mnt_new(u) \/ mnttable_new_from(u) \/ mnt_free(u) \/ mnt_gc(u)
        \/ \E v \in Slots :
               \/ mnttable_find(u, v) \/ mnttable_cache_get(u, v) \/ mnttable_cache_set(u, v)
               \/ mntcache_set_targets(u, v) \/ mnttable_add_fs(u, v) \/ mnttable_remove_fs(u, v)
               \/ mnttable_move_fs(u, v) \/ mnttable_fs(u, v) \/ mnttable_fs_next(u, v)
               \/ mnttable_over_fs_next(u, v)
               \/ mntcontext_get_mtab(u, v) \/ mntcontext_get_table(u, v) \/ mntcontext_set(u, v)
               \/ \E w \in Slots : mnttable_child_fs(u, v, w) \/ mnttable_over_fs(u, v, w)

MountSpec == HandlesInit /\ [][MountNext]_handleVars
=============================================================================
