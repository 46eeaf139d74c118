-------------------------- MODULE SystemdBinding ----------------------------
(* The buses and messages of daemon/lua_systemd.c.  libsystemd is external:   *)
(* it keeps one default bus for the thread, which bus_default, ..._user and   *)
(* ..._system hand out again as long as it is allocated, even when closed.    *)
EXTENDS Handles

VARIABLES
    default,    \* {} or the default bus
    closed      \* buses that were closed

systemdVars == <<handleVars, default, closed>>

SystemdInit == HandlesInit /\ default = {} /\ closed = {}

Buses == {o \in Objs : heap.type[o] = "bus"}

(* bus_open, bus_new and those with a description, of a host or of a machine. *)
bus_open(u) ==
    /\ \/ \E o \in Unused :
              /\ heap' = Allocate(heap, o, "bus", {}) /\ newcptr(u, Handle("bus", {o}))
              /\ closed' = closed \ {o}
       \/ newcptr(u, Empty) /\ UNCHANGED <<heap, closed>>
    /\ UNCHANGED <<lapses, default>>

(* The count of a default bus only grows: LeakBound ends that. *)
LeakBound == Cardinality(Slots) + 2

bus_default(u) ==
    /\ \A o \in default : heap.refs[o] < LeakBound
    /\ IF default = {}
       THEN \/ \E o \in Unused :
                   /\ heap' = Allocate(heap, o, "bus", {}) /\ newcptr(u, Handle("bus", {o}))
                   /\ closed' = closed \ {o} /\ default' = {o}
            \/ newcptr(u, Empty) /\ UNCHANGED <<heap, closed, default>>
       ELSE /\ heap' = Ref(heap, default) /\ newcptr(u, Handle("bus", default))
            /\ UNCHANGED <<closed, default>>
    /\ UNCHANGED lapses

(* message_new, message_new_signal and message_new_method_call: a message keeps *)
(* its bus.                                                                     *)
bus_message_new(u, v) ==
    /\ \E b \in The(v, "bus") :
           \/ \E o \in Unused : heap' = Allocate(heap, o, "message", {b}) /\ newcptr(u, Handle("message", {o}))
           \/ newcptr(u, Empty) /\ UNCHANGED heap
    /\ UNCHANGED <<lapses, default, closed>>

(* bus_call and bus_unit_filestate: the reply is a message of the bus; a bus  *)
(* that is closed, an error and a timeout leave the userdata empty.           *)
bus_call(u, v) ==
    /\ \E b \in The(v, "bus") :
           \/ \E o \in Unused : /\ b \notin closed
                                /\ heap' = Allocate(heap, o, "message", {b})
                                /\ newcptr(u, Handle("message", {o}))
           \/ newcptr(u, Empty) /\ UNCHANGED heap
    /\ UNCHANGED <<lapses, default, closed>>

message_unref(u) ==
    /\ u \in Of("message")
    /\ heap' = UnrefAll(heap, uds[u].own)
    /\ UNCHANGED <<closed, leaked>>

(* Mutant: the connection is given up while messages of it are in use. *)
bus_freed(u) ==
    /\ u \in Of("bus")
    /\ heap' = FoldSet(LAMBDA b, h : Free(h, b), heap, uds[u].own)
    /\ closed' = closed \cup uds[u].own /\ UNCHANGED leaked

(* The bus is closed for every userdata that has it and its reference is kept. *)
bus_close(u) ==
    /\ u \in Of("bus")
    /\ closed' = closed \cup uds[u].own
    /\ leaked' = leaked \cup uds[u].own
    /\ UNCHANGED heap

systemd_gc(u) ==
    /\ \/ message_unref(u) \/ bus_close(u)
       \/ uds[u] = Empty /\ UNCHANGED <<heap, closed, leaked>>
    /\ uds' = [uds EXCEPT ![u] = NoHandle]
    /\ UNCHANGED <<dangling, default>>

SystemdNext ==
    \E u \in Slots :
        \/ bus_open(u) \/ bus_default(u) \/ systemd_gc(u)
        \/ \E v \in Slots : bus_message_new(u, v) \/ bus_call(u, v)

-----------------------------------------------------------------------------
(* The bus of a userdata is open, unless it is the default one: that one is   *)
(* closed for all when __gc runs on the userdata of one, and stays the default *)
(* because its reference is lost.                                             *)
BusStaysOpen == \A u \in Of("bus") : \A o \in uds[u].own : o \in closed => o \in default
=============================================================================
