-------------------------------- MODULE Wire --------------------------------
(* The arguments of messages in daemon/lua_dbus.c (append and decode) and     *)
(* daemon/lua_systemd.c (append, read_basic, read, decode, peek_type and      *)
(* rewind): what of a Lua value reaches the message and what of an argument   *)
(* reaches the script.  An integer type has Width bits, a short one half of   *)
(* them.  libdbus and libsystemd are external.                                *)
EXTENDS Integers, SequencesExt

CONSTANTS
    Width,      \* bits of int32_t
    MaxArgs     \* arguments of a message

Unsigned(v, w) == v % 2^w
Signed(v, w) == IF v % 2^w < 2^(w - 1) THEN v % 2^w ELSE (v % 2^w) - 2^w

(* Lua values: booleans, numbers, strings (0 and 1 stand for two of each) and  *)
(* what cannot be appended.  rest is what C does not see of a value: the NUL   *)
(* of a string and what follows it, and the fraction of a number.              *)
LuaValues ==
    [t : {"boolean"}, v : 0..1, rest : {0}] \cup [t : {"other"}, v : {0}, rest : {0}]
        \cup [t : {"string"}, v : 0..1, rest : 0..1]
        \cup [t : {"number"}, v : -2^(Width - 1) .. 2^Width, rest : 0..1]

Value(t, v) == [t |-> t, v |-> v, rest |-> 0]
NilValue == Value("nil", 0)

(* lua_tointeger drops the fraction; a string that C reads or that            *)
(* lua_pushstring copies ends at its first NUL.                               *)
Integral(x) == x.v
CString(x) == x.v

(* Arguments: boolean, int16, uint16, int32, uint32, string, object path, array *)
(* and byte, which no reader here knows.                                        *)
Arguments ==
    [type : {"b", "s", "o"}, v : 0..1] \cup [type : {"a", "y"}, v : {0}]
        \cup [type : {"n"}, v : -2^(Width \div 2 - 1) .. 2^(Width \div 2 - 1) - 1]
        \cup [type : {"q"}, v : 0 .. 2^(Width \div 2) - 1]
        \cup [type : {"i"}, v : -2^(Width - 1) .. 2^(Width - 1) - 1]
        \cup [type : {"u"}, v : 0 .. 2^Width - 1]

VARIABLES
    lib,        \* "dbus" or "systemd"
    body,       \* the arguments of the message
    sealed,     \* the message has been sent or received
    rindex,     \* systemd: arguments already read
    appended,   \* history: the Lua values whose arguments are in the message
    got,        \* history: what the script has been given since the last rewind, as
                \* records of the argument's place, the reader and the value
    dropped     \* history: the places that a call passed which reported an error

wireVars == <<lib, body, sealed, rindex, appended, got, dropped>>

(* A message of the script is empty, one from the bus has any arguments. *)
WireInit ==
    /\ lib \in {"dbus", "systemd"}
    /\ \/ sealed = FALSE /\ body = <<>>
       \/ sealed = TRUE /\ body \in SeqOf(Arguments, MaxArgs)
    /\ rindex = 0 /\ appended = <<>> /\ got = {} /\ dropped = {}

-----------------------------------------------------------------------------
(* append; the empty set stands for a value that is refused. *)
dbus_append_basic(x) ==
    CASE x.t = "boolean" -> {[type |-> "b", v |-> x.v]}
      [] x.t = "number" -> {[type |-> "i", v |-> Signed(Integral(x), Width)]}
      [] x.t = "string" -> {[type |-> "s", v |-> CString(x)]}
      [] OTHER -> {}

systemd_append_basic(x) ==
    CASE x.t = "string" -> {[type |-> "s", v |-> CString(x)]}
      [] x.t = "number" -> {[type |-> "u", v |-> Unsigned(Integral(x), Width)]}
      [] OTHER -> {}

Encoded(x) == IF lib = "dbus" THEN dbus_append_basic(x) ELSE systemd_append_basic(x)

(* Mutant: a value that is refused is passed over. *)
AppendSkips(xs) ==
    /\ ~sealed
    /\ appended' = appended \o xs
    /\ body' = body \o [i \in 1..Len(SelectSeq(xs, LAMBDA x : Encoded(x) # {})) |->
                           CHOOSE a \in Encoded(SelectSeq(xs, LAMBDA x : Encoded(x) # {})[i]) : TRUE]
    /\ UNCHANGED <<lib, sealed, rindex, got, dropped>>

(* The first value that is refused, or for which there is no memory, ends the *)
(* call: the values before it stay in the message.                            *)
message_append(xs) ==
    /\ ~sealed
    /\ \E k \in 0..Len(xs) :
           /\ \A i \in 1..k : Encoded(xs[i]) # {}
           /\ appended' = appended \o SubSeq(xs, 1, k)
           /\ body' = body \o [i \in 1..k |-> CHOOSE a \in Encoded(xs[i]) : TRUE]
    /\ UNCHANGED <<lib, sealed, rindex, got, dropped>>

(* connection_send and bus_call lock the message. *)
message_sent ==
    /\ ~sealed /\ sealed' = TRUE
    /\ UNCHANGED <<lib, body, rindex, appended, got, dropped>>

-----------------------------------------------------------------------------
(* decode of lua_dbus.c: INT32 and UINT32 are both read into a dbus_uint32_t. *)
dbus_get_basic(a) ==
    CASE a.type = "b" -> Value("boolean", a.v)
      [] a.type \in {"i", "u"} -> Value("number", Unsigned(a.v, Width))
      [] a.type \in {"s", "o"} -> Value("string", a.v)
      [] OTHER -> NilValue

dbus_decode ==
    IF \A i \in DOMAIN body : dbus_get_basic(body[i]) # NilValue
    THEN [i \in DOMAIN body |-> dbus_get_basic(body[i])]
    ELSE <<NilValue>>

-----------------------------------------------------------------------------
(* sd_bus_message_read_basic wants the type of the next argument and no      *)
(* container: how many of the types can be read.                             *)
Readable(types) ==
    CHOOSE k \in 0..Len(types) :
        LET at(i) == rindex + i <= Len(body) /\ body[rindex + i].type = types[i] /\ types[i] # "a"
        IN (\A i \in 1..k : at(i)) /\ (k < Len(types) => ~at(k + 1))

Given(places, reader, values) ==
    got \cup {[at |-> p, by |-> reader, value |-> values[p]] : p \in places}

ReadValue(a) ==
    CASE a.type = "b" -> Value("boolean", a.v)
      [] a.type \in {"n", "i"} -> Value("number", Signed(a.v, IF a.type = "n" THEN Width \div 2 ELSE Width))
      [] a.type \in {"q", "u"} -> Value("number", Unsigned(a.v, IF a.type = "q" THEN Width \div 2 ELSE Width))
      [] a.type \in {"s", "o"} -> Value("string", a.v)
      [] OTHER -> NilValue

(* A type that cannot be read takes the values before it along. *)
message_read(types) ==
    LET k == Readable(types)
        places == rindex + 1 .. rindex + k
    IN /\ lib = "systemd" /\ sealed /\ rindex' = rindex + k
       /\ IF k = Len(types)
          THEN /\ got' = Given(places, "read", [p \in places |-> ReadValue(body[p])])
               /\ UNCHANGED dropped
          ELSE dropped' = dropped \cup places /\ UNCHANGED got
       /\ UNCHANGED <<lib, body, sealed, appended>>

BasicValue(a) == IF a.type \in {"s", "u"} THEN ReadValue(a) ELSE NilValue

(* An argument of another type is read and thrown away: the script gets nil. *)
message_read_basic(type) ==
    LET places == rindex + 1 .. rindex + Readable(<<type>>)
    IN /\ lib = "systemd" /\ sealed /\ rindex' = rindex + Readable(<<type>>)
       /\ got' = Given(places, "read_basic", [p \in places |-> BasicValue(body[p])])
       /\ UNCHANGED <<lib, body, sealed, appended, dropped>>

Decodable == {"u", "s", "o"}

(* Mutant: what cannot be decoded is passed over and the table returned. *)
DecodeSkips ==
    /\ lib = "systemd" /\ sealed
    /\ rindex' = Len(body)
    /\ LET places == {p \in rindex + 1 .. Len(body) : body[p].type \in Decodable}
       IN got' = Given(places, "decode", [p \in places |-> ReadValue(body[p])])
    /\ UNCHANGED <<lib, body, sealed, appended, dropped>>

(* The first argument that is not decoded ends the call with an error, and is *)
(* passed unless it is a container: an array is asked for as a basic type     *)
(* before it would be entered, which libsystemd refuses.                      *)
message_decode ==
    /\ lib = "systemd" /\ sealed
    /\ LET bad == {p \in rindex + 1 .. Len(body) : body[p].type \notin Decodable}
           first == Min(bad)
           places == rindex + 1 .. Len(body)
       IN IF bad = {}
          THEN /\ rindex' = Len(body) /\ UNCHANGED dropped
               /\ got' = Given(places, "decode", [p \in places |-> ReadValue(body[p])])
          ELSE /\ rindex' = IF body[first].type = "a" THEN first - 1 ELSE first
               /\ dropped' = dropped \cup (rindex + 1 .. rindex') /\ UNCHANGED got
    /\ UNCHANGED <<lib, body, sealed, appended>>

message_rewind ==
    /\ lib = "systemd" /\ sealed
    /\ rindex' = 0 /\ got' = {} /\ dropped' = {}
    /\ UNCHANGED <<lib, body, sealed, appended>>

(* What a reader may ask for: the types of the message, and two of which the *)
(* one or the other is not the next; all that are not fail alike.            *)
Types == {body[i].type : i \in DOMAIN body} \cup {"a", "o"}

WireNext ==
    \/ \E xs \in SeqOf(LuaValues, MaxArgs - Len(body)) : message_append(xs)
    \/ message_sent \/ message_decode \/ message_rewind
    \/ \E types \in SeqOf(Types, MaxArgs) : message_read(types)
    \/ \E type \in Types : message_read_basic(type)

-----------------------------------------------------------------------------
(* A number that fits comes back as it is. *)
SameValue(x, y) ==
    x.t = y.t /\ (IF x.t = "number" THEN (x.v - y.v) % 2^Width = 0 ELSE x.v = y.v)

(* A message that the script built gives, when decoded, the values appended,   *)
(* in order and nothing else, also after an append that stopped at a value it  *)
(* could not take.  Of a string with a NUL the part before it comes back, and  *)
(* of a number its integral part up to a multiple of 2^32; a string without    *)
(* one and an integer from 0 to 2^32 - 1 come back as they are.                *)
DecodesWhatWasAppended ==
    appended # <<>> =>
        LET back == IF lib = "dbus" THEN dbus_decode ELSE [i \in DOMAIN body |-> ReadValue(body[i])]
        IN /\ Len(back) = Len(appended)
           /\ \A i \in DOMAIN back :
                  /\ SameValue(back[i], appended[i])
                  /\ appended[i].v \in 0 .. 2^Width - 1 /\ appended[i].rest = 0 => back[i] = appended[i]

(* However read, read_basic, decode and rewind follow one another on a message *)
(* of systemd, no argument is given twice or passed in silence: each one up to *)
(* the read position has been given, with its value, or was passed by a call   *)
(* that reported an error.  (read_basic gives nil for what it does not know.)  *)
ArgumentsReadOnce ==
    /\ {g.at : g \in got} \cup dropped = 1..rindex
    /\ {g.at : g \in got} \cap dropped = {}
    /\ \A g, h \in got : g.at = h.at => g = h
    /\ \A g \in got :
           \/ g.value = NilValue /\ (g.by = "read_basic" \/ body[g.at].type \notin {"b", "n", "q", "i", "u", "s", "o"})
           \/ g.value # NilValue /\ g.value.v = body[g.at].v
=============================================================================
