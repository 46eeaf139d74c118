---------------------------- MODULE DBusBinding -----------------------------
(* The connections, messages and pending calls of daemon/lua_dbus.c, and the  *)
(* functions its pending calls notify, which the registry of Lua keeps under   *)
(* numbers that are used again.                                               *)
EXTENDS Handles, Sequences

CONSTANTS
    Callbacks,   \* functions of the script
    Refs         \* numbers of luaL_ref

VARIABLES
    registry,    \* ref -> the function it stands for, or "nil"
    ud,          \* pending call -> its notify_userdata: the function set last, for the
                 \* record, its ref and whether the coroutine L is there, or NoNotify
    notifying,   \* the calls whose callbacks run, innermost last: the function set, the
                 \* one called, the ref and whether the ud it is in is still allocated
    corrupt      \* history: a ud was read after it was freed, or a collected coroutine used

notifyVars == <<registry, ud, notifying, corrupt>>
dbusVars == <<handleVars, notifyVars>>

NoNotify == [f |-> "nil", ref |-> 0, L |-> TRUE]

DBusInit ==
    /\ HandlesInit
    /\ registry = [r \in Refs |-> "nil"]
    /\ ud = [o \in Objs |-> NoNotify]
    /\ notifying = <<>> /\ corrupt = FALSE

Moved(o, from) == [heap EXCEPT !.holds[from] = @ \ {o}, !.type[o] = "message"]

(* connection_open, connection_open_private, bus_get and bus_get_private: a *)
(* connection may be shared.                                                *)
bus_get(u) ==
    /\ \/ \E o \in Unused : heap' = Allocate(heap, o, "connection", {}) /\ newcptr(u, Handle("connection", {o}))
       \/ \E o \in Objs : /\ heap.type[o] = "connection"
                          /\ heap' = Ref(heap, {o}) /\ newcptr(u, Handle("connection", {o}))
       \/ newcptr(u, Empty) /\ UNCHANGED heap
    /\ UNCHANGED <<lapses, notifyVars>>

(* message_new, message_new_method_call, message_new_signal, message_demarshal, *)
(* and new_method_return and new_error of a message.                            *)
message_new(u) ==
    /\ \/ \E o \in Unused : heap' = Allocate(heap, o, "message", {}) /\ newcptr(u, Handle("message", {o}))
       \/ newcptr(u, Empty) /\ UNCHANGED heap
    /\ UNCHANGED <<lapses, notifyVars>>

(* The bus delivers a message, which the connection owns until it is popped. *)
arrives(c) ==
    /\ heap.type[c] = "connection"
    /\ \E o \in Unused :
           heap' = [Allocate(heap, o, "incoming", {}) EXCEPT !.holds[c] = @ \cup {o}]
    /\ UNCHANGED <<uds, lapses, notifyVars>>

connection_pop_message(u, v) ==
    /\ \E c \in The(v, "connection") :
           \/ \E m \in Held(c, "incoming") : heap' = Moved(m, c) /\ newcptr(u, Handle("message", {m}))
           \/ newcptr(u, Empty) /\ UNCHANGED heap
    /\ UNCHANGED <<lapses, notifyVars>>

(* borrow_message leaves the message to the connection, and its userdata will *)
(* give up a reference it does not have: no script can call it safely.        *)
connection_borrow_message(u, v) ==
    /\ FirstLapse
    /\ \E c \in The(v, "connection") : \E m \in Held(c, "incoming") :
           newcptr(u, Handle("message", {m})) /\ dangling' = dangling \cup {m}
    /\ UNCHANGED <<heap, leaked, notifyVars>>

(* send queues the message; flush and read_write give it to the bus. *)
connection_send(u, v) ==
    /\ \E c \in The(u, "connection"), m \in The(v, "message") :
           /\ m \notin heap.holds[c]
           /\ heap' = [Ref(heap, {m}) EXCEPT !.holds[c] = @ \cup {m}]
    /\ UNCHANGED <<uds, lapses, notifyVars>>

connection_flush(u) ==
    /\ \E c \in The(u, "connection") :
           /\ Held(c, "message") # {}
           /\ heap' = UnrefAll([heap EXCEPT !.holds[c] = @ \ Held(c, "message")], Held(c, "message"))
    /\ UNCHANGED <<uds, lapses, notifyVars>>

(* The call is the script's and the connection's until it is completed. *)
connection_send_with_reply(u, v) ==
    /\ \E c \in The(v, "connection") :
           \/ \E p \in Unused :
                  /\ heap' = [Ref(Allocate(heap, p, "pending", {c}), {p}) EXCEPT !.holds[c] = @ \cup {p}]
                  /\ newcptr(u, Handle("pending", {p}))
                  /\ ud' = [ud EXCEPT ![p] = NoNotify]
           \/ newcptr(u, Empty) /\ UNCHANGED <<heap, ud>>
    /\ UNCHANGED <<lapses, registry, notifying, corrupt>>

(* luaL_ref hands out a free number, and libdbus frees the ud that was there,   *)
(* also when it is that of a callback which runs.  Bound: each function is set *)
(* for one call only, so that the record tells them apart.                      *)
pending_set_notify(u) ==
    /\ \E p \in The(u, "pending"), f \in Callbacks, r \in Refs :
           /\ registry[r] = "nil" /\ \A q \in Objs : ud[q].f # f
           /\ registry' = [registry EXCEPT ![r] = f]
           /\ ud' = [ud EXCEPT ![p] = [f |-> f, ref |-> r, L |-> TRUE]]
           /\ notifying' = [k \in DOMAIN notifying |->
                               [notifying[k] EXCEPT !.valid = @ /\ notifying[k].call # p]]
    /\ UNCHANGED <<heap, uds, lapses, corrupt>>

(* The coroutine that set the function of a call ends and is collected. *)
coroutine_collected(p) ==
    /\ ud[p] # NoNotify /\ ud' = [ud EXCEPT ![p].L = FALSE]
    /\ UNCHANGED <<handleVars, registry, notifying, corrupt>>

Attached(c, p) == p \in heap.holds[c]
Detached(c, p) == Unref([heap EXCEPT !.holds[c] = @ \ {p}], p)

pending_cancel(u) ==
    /\ \E p \in The(u, "pending") : \E c \in heap.holds[p] \ {p} :
           Attached(c, p) /\ heap' = Detached(c, p)
    /\ UNCHANGED <<uds, lapses, notifyVars>>

(* Bound: the reply is left out when no object is left for it. *)
Replies == IF Unused = {} THEN {{}} ELSE {{m} : m \in Unused}

Replied(p, reply) ==
    [FoldSet(LAMBDA m, h : Allocate(h, m, "incoming", {}), heap, reply) EXCEPT !.holds[p] = @ \cup reply]

(* Bound on callbacks within callbacks. *)
MaxNested == 2

(* Where a call completes: dispatch waits for a dispatch it runs within, so    *)
(* inside a callback only block completes a call, that of a userdata.          *)
Completable(p) == notifying = <<>> \/ \E u \in Slots : p \in The(u, "pending")

(* An answer or the timeout completes a call.  The connection lets it go, it    *)
(* owns the reply, and libdbus has a reference of its own on it (the call holds *)
(* itself) while pending_call_notify runs the function on the stack of the      *)
(* coroutine that the ud names: what it runs there after the coroutine was      *)
(* collected is undefined.                                                      *)
pending_call_notify(c) ==
    /\ heap.type[c] = "connection" /\ Len(notifying) < MaxNested
    /\ \E p \in Held(c, "pending"), reply \in Replies :
           LET replied == Replied(p, reply)
           IN /\ Completable(p)
              /\ IF ud[p].ref = 0
                 THEN /\ heap' = Unref([replied EXCEPT !.holds[c] = @ \ {p}], p)
                      /\ UNCHANGED <<ud, notifying, corrupt>>
                 ELSE /\ corrupt' = (corrupt \/ ~ud[p].L)
                      /\ heap' = [replied EXCEPT !.holds = [@ EXCEPT ![c] = @ \ {p}, ![p] = @ \cup {p}]]
                      /\ \E f \in IF ud[p].L THEN {registry[ud[p].ref]} ELSE Callbacks \cup {"nil"} :
                             notifying' = Append(notifying,
                                 [call |-> p, f |-> ud[p].f, called |-> f, ref |-> ud[p].ref, valid |-> TRUE])
                      /\ ud' = [ud EXCEPT ![p] = NoNotify]
    /\ UNCHANGED <<uds, lapses, registry>>

Innermost == notifying[Len(notifying)]
Outer == SubSeq(notifying, 1, Len(notifying) - 1)

(* The function returns and pending_call_notify reads ud->ref again: of a ud  *)
(* that was freed in the meantime it finds any number.                         *)
notify_returns ==
    /\ notifying # <<>> /\ notifying' = Outer
    /\ LET p == Innermost.call
           read == IF Innermost.valid THEN {Innermost.ref} ELSE Refs \cup {0}
       IN /\ \E r \in read : registry' = [x \in Refs |-> IF x = r THEN "nil" ELSE registry[x]]
          /\ heap' = Unref([heap EXCEPT !.holds[p] = @ \ {p}], p)
          /\ ud' = [o \in Objs |-> IF heap'.refs[o] = 0 THEN NoNotify ELSE ud[o]]
    /\ corrupt' = (corrupt \/ ~Innermost.valid)
    /\ UNCHANGED <<uds, lapses>>

(* The function raises an error, which leaves pending_call_notify and libdbus  *)
(* without the rest of them: the number stays taken and the reference on the   *)
(* call is lost.  The error of a nested call may be caught in the outer one.    *)
notify_raises ==
    /\ notifying # <<>> /\ notifying' = Outer
    /\ LET p == Innermost.call
       IN heap' = [heap EXCEPT !.holds[p] = @ \ {p}] /\ leaked' = leaked \cup {p}
    /\ UNCHANGED <<uds, dangling, registry, ud, corrupt>>

pending_steal_reply(u, v) ==
    /\ \E p \in The(v, "pending") :
           \/ \E m \in Held(p, "incoming") : heap' = Moved(m, p) /\ newcptr(u, Handle("message", {m}))
           \/ newcptr(u, Empty) /\ UNCHANGED heap
    /\ UNCHANGED <<lapses, notifyVars>>

(* Mutant: a collected userdata gives the function of its call back. *)
dbus_free_unrefs(u) ==
    /\ Unreachable(u) /\ heap' = UnrefAll(heap, uds[u].own)
    /\ uds' = [uds EXCEPT ![u] = NoHandle]
    /\ registry' = [r \in Refs |-> IF \E p \in uds[u].own : ud[p].ref = r THEN "nil" ELSE registry[r]]
    /\ UNCHANGED <<lapses, ud, notifying, corrupt>>

(* __gc: message_free, pending_free and connection_free.  libdbus frees the     *)
(* notify_userdata of a call with the call; the registry keeps the function.   *)
dbus_free(u) ==
    /\ Collectable(u) /\ heap' = UnrefAll(heap, uds[u].own)
    /\ uds' = [uds EXCEPT ![u] = NoHandle]
    /\ ud' = [o \in Objs |-> IF heap'.refs[o] = 0 THEN NoNotify ELSE ud[o]]
    /\ UNCHANGED <<lapses, registry, notifying, corrupt>>

DBusNext ==
    \/ notify_returns \/ notify_raises
    \/ \E c \in Objs : arrives(c) \/ coroutine_collected(c) \/ pending_call_notify(c)
    \/ \E u \in Slots :
           \/ bus_get(u) \/ message_new(u) \/ connection_flush(u) \/ pending_set_notify(u)
           \/ pending_cancel(u) \/ dbus_free(u)
           \/ \E v \in Slots :
                  \/ connection_pop_message(u, v) \/ connection_borrow_message(u, v)
                  \/ connection_send(u, v) \/ connection_send_with_reply(u, v)
                  \/ pending_steal_reply(u, v)

DBusSpec == DBusInit /\ [][DBusNext]_dbusVars

(* However calls complete, also within the callbacks of others, are cancelled,  *)
(* get another function or raise errors, and although the registry hands a      *)
(* number out again, a completed call runs the function that was set on it last *)
(* - until a callback has set another function on the call it runs for, when    *)
(* the number that pending_call_notify gives back may be that of any function,  *)
(* or a call completes whose function was set in a collected coroutine.         *)
NotifyCallsItsFunction ==
    ~corrupt => \A k \in DOMAIN notifying : notifying[k].called = notifying[k].f
=============================================================================
