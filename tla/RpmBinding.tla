----------------------------- MODULE RpmBinding -----------------------------
(* The transaction sets, package loops, headers and file lists of             *)
(* daemon/lua_rpm.c.                                                          *)
EXTENDS Handles

rpm_tscreate(u) ==
    /\ \/ \E o \in Unused : heap' = Allocate(heap, o, "ts", {}) /\ newcptr(u, Handle("ts", {o}))
       \/ newcptr(u, Empty) /\ UNCHANGED heap
    /\ UNCHANGED lapses

(* The closure has the iterator as its upvalue.  It keeps the database open, *)
(* and the transaction set that opened it.                                   *)
ts_packages(u, v) ==
    /\ \E t \in The(v, "ts"), o \in Unused :
           heap' = Allocate(heap, o, "mi", {t}) /\ newcptr(u, Handle("mi", {o}))
    /\ UNCHANGED lapses

(* The header belongs to the iterator: the userdata has no reference on it, and *)
(* its pointer stays behind when rpmdbNextIterator or the end of the loop gives *)
(* the header up.                                                               *)
ts_packages_next(u, v) ==
    /\ uds[u] = NoHandle
    /\ \E m \in The(v, "mi") :
           LET old == Held(m, "header")
               rest == UnrefAll([heap EXCEPT !.holds[m] = @ \ old], old)
           IN \/ \E h \in Unused :
                     /\ heap' = [Allocate(rest, h, "header", {}) EXCEPT !.holds[m] = @ \cup {h}]
                     /\ uds' = [uds EXCEPT ![u] = [Handle("header", {}) EXCEPT !.raw = {h}]]
              \/ /\ heap' = Unref(rest, m)
                 /\ uds' = [uds EXCEPT ![v].own = {}]
    /\ UNCHANGED lapses

(* RPMFI_KEEPHEADER: the file list refers to the header. Of a header that was *)
(* given up it is undefined.                                                  *)
header_files(u, v) ==
    /\ v \in Of("header")
    /\ \E h \in uds[v].raw, o \in Unused :
           /\ Alive(h)
           /\ heap' = Allocate(heap, o, "fi", {h})
           /\ newcptr(u, Handle("fi", {o}))
    /\ UNCHANGED lapses

(* __gc of each kind; an iterator takes the header it has last returned along. *)
ts_free(u) == u \in Of("ts") /\ heap' = UnrefAll(heap, uds[u].own)
fi_free(u) == u \in Of("fi") /\ heap' = UnrefAll(heap, uds[u].own)
header_free(u) == u \in Of("header") /\ UNCHANGED heap
mi_free(u) == u \in Of("mi") /\ heap' = UnrefAll(heap, uds[u].own)

(* A loop that is left early may be collected while its header is in use. *)
rpm_gc(u) ==
    /\ \/ ts_free(u) \/ fi_free(u) \/ header_free(u) \/ mi_free(u)
       \/ uds[u] = Empty /\ UNCHANGED heap
    /\ uds' = [uds EXCEPT ![u] = NoHandle]
    /\ UNCHANGED lapses

RpmNext ==
    \E u \in Slots :
        \/ rpm_tscreate(u) \/ rpm_gc(u)
        \/ \E v \in Slots : ts_packages(u, v) \/ ts_packages_next(u, v) \/ header_files(u, v)
=============================================================================
