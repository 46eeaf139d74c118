---------------------------- MODULE KmodBinding -----------------------------
(* The contexts, modules, lists and configuration iterators of daemon/lua_kmod.c. *)
EXTENDS Handles

(* kmod_new *)
ctx_new(u) ==
    /\ \/ \E o \in Unused : heap' = Allocate(heap, o, "ctx", {}) /\ newcptr(u, Handle("ctx", {o}))
       \/ newcptr(u, Empty) /\ UNCHANGED heap
    /\ UNCHANGED lapses

(* libkmod keeps one object for each module of a context, which refers to it. *)
ModulesOf(c) == {o \in Objs : Alive(o) /\ heap.holds[o] = {c}}

(* module_from_name, module_from_path and module_from_name_lookup: the userdata *)
(* is pushed before libkmod is asked, and stays behind empty when it fails.     *)
ctx_module_from(u, v) ==
    /\ v \in Of("ctx")
    /\ \/ \E c \in The(v, "ctx") :
             \/ \E o \in ModulesOf(c) : heap' = Ref(heap, {o}) /\ newcptr(u, Handle("module", {o}))
             \/ \E o \in Unused : heap' = Allocate(heap, o, "module", {c}) /\ newcptr(u, Handle("module", {o}))
       \/ newcptr(u, Empty) /\ UNCHANGED heap
    /\ UNCHANGED lapses

(* The list owns its modules; list->list runs over those not yet returned. *)
newlist(u, mods) == newcptr(u, [Handle("list", mods) EXCEPT !.raw = mods])

(* The start of a loop over modules_from_loaded. *)
ctx_modules_from_loaded(u, v) ==
    /\ v \in Of("ctx")
    /\ \E c \in The(v, "ctx") : \E new \in {{}} \cup {{o} : o \in Unused}, old \in SUBSET ModulesOf(c) :
           /\ heap' = Ref(FoldSet(LAMBDA o, h : Allocate(h, o, "module", {c}), heap, new), old)
           /\ newlist(u, new \cup old)
    /\ UNCHANGED lapses

(* modules_from_lookup starts with one argument and then asks for a second, so *)
(* it raises an error before it makes a list.                                  *)
ctx_modules_from_lookup(u, v) == v \in Of("ctx") /\ uds[u] = NoHandle /\ UNCHANGED handleVars

(* The start of a loop over dependencies or holders of a module. *)
module_modules(u, v) ==
    /\ v \in Of("module")
    /\ \E m \in The(v, "module") : \E old \in SUBSET UNION {ModulesOf(c) : c \in heap.holds[m]} :
           heap' = Ref(heap, old) /\ newlist(u, old)
    /\ UNCHANGED lapses

(* sections, infos, versions, symbols and dep_symbols are lists of copies. *)
module_copies(u, v) ==
    /\ v \in Of("module") /\ newlist(u, {})
    /\ UNCHANGED <<heap, lapses>>

(* A step of a loop over modules. *)
list_step(u, v) ==
    /\ v \in Of("list") /\ uds[u] = NoHandle
    /\ \E o \in uds[v].raw :
           /\ heap' = Ref(heap, {o})
           /\ uds' = [uds EXCEPT ![u] = Handle("module", {o}), ![v].raw = @ \ {o}]
    /\ UNCHANGED lapses

(* A loop over a configuration list.  libkmod's iterator points into the     *)
(* context without a reference, and the userdata has neither the context nor *)
(* its userdata: only the variable of the script keeps it.                   *)
ctx_config(u, v) ==
    /\ The(v, "ctx") # {}
    /\ newcptr(u, [Handle("config", {}) EXCEPT !.raw = The(v, "ctx")])
    /\ UNCHANGED <<heap, lapses>>

(* __gc of each kind. *)
ctx_unref(u) == u \in Of("ctx") /\ heap' = UnrefAll(heap, uds[u].own)
module_unref(u) == u \in Of("module") /\ heap' = UnrefAll(heap, uds[u].own)
list_free(u) == u \in Of("list") /\ heap' = UnrefAll(heap, uds[u].own)
config_iter_free(u) == u \in Of("config") /\ UNCHANGED heap

kmod_gc(u) ==
    /\ Collectable(u) /\ uds' = [uds EXCEPT ![u] = NoHandle] /\ UNCHANGED lapses
    /\ \/ ctx_unref(u) \/ module_unref(u) \/ list_free(u) \/ config_iter_free(u)
       \/ uds[u] = Empty /\ UNCHANGED heap

(* The method unref is the same function: the pointer stays, for __gc to unref again. *)
kmod_unref_by_hand(u) ==
    /\ FirstLapse /\ The(u, "ctx") \cup The(u, "module") # {}
    /\ ctx_unref(u) \/ module_unref(u)
    /\ dangling' = dangling \cup uds[u].own
    /\ UNCHANGED <<uds, leaked>>

KmodNext ==
    \E u \in Slots :
        \/ ctx_new(u) \/ kmod_gc(u) \/ kmod_unref_by_hand(u)
        \/ \E v \in Slots :
               \/ ctx_module_from(u, v) \/ ctx_modules_from_loaded(u, v) \/ ctx_modules_from_lookup(u, v)
               \/ module_modules(u, v) \/ module_copies(u, v) \/ list_step(u, v) \/ ctx_config(u, v)

KmodSpec == HandlesInit /\ [][KmodNext]_handleVars
=============================================================================
