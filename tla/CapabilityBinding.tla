------------------------- MODULE CapabilityBinding --------------------------
(* The capability sets (cap_t) that a script builds with                      *)
(* daemon/lua_capability.c.  libcap is external.                              *)
EXTENDS Integers, Sequences

CONSTANTS
    Caps,           \* the capabilities
    BadName,        \* a name that cap_from_name does not know
    MAX_CAPABILITIES

ASSUME CapAssumption == MAX_CAPABILITIES \in Nat \ {0}

Names == Caps \cup {BadName}
CapSets == {"effective", "permitted", "inheritable"}

VARIABLES
    cap,        \* set -> capabilities raised in it
    idx,        \* lcap_flag: the argument it looks at, 0 while it does not run
    n,          \* how many values its array has, and
    values,     \* which
    listed,      \* history: the capabilities its arguments so far name
    form,       \* history: they are "strings", one "table", or "mixed"; or the call "hangs"
    last        \* history: the call that has just returned, or NoCall

flagVars == <<idx, n, values, listed, form>>
capVars == <<cap, flagVars, last>>

NoCall == [name |-> "none"]
Idle == idx = 0 /\ n = 0 /\ values = {} /\ listed = {} /\ form = "strings"

CapInit == cap = [s \in CapSets |-> {}] /\ Idle /\ last = NoCall

-----------------------------------------------------------------------------
(* tocflags: flags are sets of bits.  A name that is not an option gives none, *)
(* the names of a table are joined, and without a value it is the default.     *)
cap_set_opts == [effective |-> {}, permitted |-> {0}, inheritable |-> {1}]

OptionBits(name, opts) == IF name \in DOMAIN opts THEN opts[name] ELSE {}

tocflags(x, opts, d) ==
    IF x = <<>> THEN opts[d] ELSE UNION {OptionBits(x[i], opts) : i \in DOMAIN x}

(* The option that libcap takes the bits for; none is EINVAL. *)
Selected(x, opts, d) == {name \in DOMAIN opts : opts[name] = tocflags(x, opts, d)}

(* What a script gives for a flag: nothing, a name, or a table of names. *)
FlagArguments == {<<>>, <<"misspelt">>, <<"effective", "permitted">>, <<"permitted", "inheritable">>}
                     \cup {<<s>> : s \in CapSets}

-----------------------------------------------------------------------------
(* Bound on the arguments of cap:flag, each chosen as the call comes to it. *)
MaxArguments == MAX_CAPABILITIES + 1

lcap_flag ==
    /\ idx = 0 /\ idx' = 1
    /\ last' = NoCall /\ UNCHANGED <<cap, n, values, listed, form>>

(* The loop over the arguments is left when the array is full. *)
Looking == idx \in 1..MaxArguments /\ n < MAX_CAPABILITIES /\ form # "hangs"

Taken(name) == n' = n + 1 /\ values' = values \cup {name}

(* Mutant: a name that is not known is taken as well. *)
flag_string_unchecked(name) ==
    /\ Looking /\ idx' = idx + 1
    /\ listed' = listed \cup ({name} \cap Caps)
    /\ Taken(name)
    /\ UNCHANGED <<cap, form, last>>

(* A string: a name that is not known is passed over. *)
flag_string(name) ==
    /\ Looking /\ idx' = idx + 1
    /\ listed' = listed \cup ({name} \cap Caps)
    /\ IF name \in Caps THEN Taken(name) ELSE UNCHANGED <<n, values>>
    /\ UNCHANGED <<cap, form, last>>

(* A table of names: the loop over it asks for the first one again and again,   *)
(* until the array is full, or for ever when that is not known.                 *)
Tables == {<<>>} \cup (Names \X Names)

flag_table(t) ==
    /\ Looking
    /\ \/ t = <<>> /\ idx' = idx + 1 /\ UNCHANGED <<n, values, listed, form>>
       \/ /\ t # <<>> /\ t[1] \in Caps /\ idx' = idx + 1
          /\ n' = MAX_CAPABILITIES /\ values' = values \cup {t[1]}
          /\ listed' = listed \cup ({t[1], t[2]} \cap Caps)
          /\ form' = IF idx = 1 THEN "table" ELSE "mixed"
       \/ t # <<>> /\ t[1] \notin Caps /\ form' = "hangs" /\ UNCHANGED <<idx, n, values, listed>>
    /\ UNCHANGED <<cap, last>>

flag_spins == form = "hangs" /\ UNCHANGED capVars

Changed(caps, names, on) == IF on THEN caps \cup names ELSE caps \ names

(* cap_set_flag, which refuses an empty list.  The arguments are used up, or *)
(* the array is full and there may be more of them.                          *)
flag_set(x, on, more) ==
    LET sets == IF n = 0 THEN {} ELSE Selected(x, cap_set_opts, "effective")
    IN /\ idx > 1 /\ form # "hangs" /\ (n >= MAX_CAPABILITIES \/ more = {})
       /\ cap' = [s \in CapSets |-> IF s \in sets THEN Changed(cap[s], values, on) ELSE cap[s]]
       /\ last' = [name |-> "flag", x |-> x, on |-> on, form |-> form, listed |-> listed \cup more,
                   more |-> more, before |-> cap]
       /\ idx' = 0 /\ n' = 0 /\ values' = {} /\ listed' = {} /\ form' = "strings"

(* clear, of all sets or of one. *)
lcap_clear(x, all) ==
    LET sets == IF all THEN CapSets ELSE Selected(x, cap_set_opts, "effective")
    IN /\ idx = 0 /\ cap' = [s \in CapSets |-> IF s \in sets THEN {} ELSE cap[s]]
       /\ last' = NoCall /\ UNCHANGED flagVars

(* fill: with one argument the permitted set goes to the effective one, with *)
(* three from -> to, with four from a set of another cap; two are refused.   *)
lcap_fill(count, to, from, other) ==
    /\ idx = 0 /\ count \in {1, 3, 4}
    /\ LET t == IF count = 1 THEN "effective" ELSE to
           f == IF count = 1 THEN "permitted" ELSE from
       IN cap' = [cap EXCEPT ![t] = IF count = 4 THEN other ELSE cap[f]]
    /\ last' = NoCall /\ UNCHANGED flagVars

fill_any ==
    \/ lcap_fill(1, "effective", "permitted", {})
    \/ \E to, from \in CapSets : lcap_fill(3, to, from, {})
    \/ \E to \in CapSets, other \in {{}, Caps} : lcap_fill(4, to, "effective", other)

(* init, get_fd, get_file, get_proc, get_pid and from_text replace the cap of  *)
(* the script by a new one; __gc frees the old one.                            *)
lcap_get(caps) ==
    /\ idx = 0 /\ cap' = [s \in CapSets |-> caps]
    /\ last' = NoCall /\ UNCHANGED flagVars

-----------------------------------------------------------------------------
CapNext ==
    \/ lcap_flag
    \/ \E name \in Names : flag_string(name)
    \/ \E t \in Tables : flag_table(t)
    \/ flag_spins
    \/ \E x \in FlagArguments :
           \/ \E on \in BOOLEAN, more \in {{}, Caps} : flag_set(x, on, more)
           \/ lcap_clear(x, FALSE)
    \/ lcap_clear(<<>>, TRUE)
    \/ fill_any
    \/ \E caps \in {{}, Caps} : lcap_get(caps)

CapSpec == CapInit /\ [][CapNext]_capVars
-----------------------------------------------------------------------------
(* What the comment of lcap_flag says of a call: the set that it names, and    *)
(* what it does to the capabilities that it names, wherever they stand.        *)
SetAsked(x) == IF x = <<>> THEN {"effective"} ELSE IF Len(x) = 1 THEN {x[1]} \cap CapSets ELSE {}

DoneAsAsked ==
    \A s \in SetAsked(last.x) :
        cap[s] = IF last.on THEN last.before[s] \cup last.listed ELSE last.before[s] \ last.listed

(* A call of cap:flag changes only capabilities its arguments name, in the       *)
(* direction asked for and, when it names a set, in that set; and it changes     *)
(* all of them when they are strings and no more than the array takes, which is  *)
(* not overrun whatever the arguments are.  Where the code does something else   *)
(* than it was asked to: names after the MAX_CAPABILITIES-th that is known are   *)
(* left out, of a table the first name is taken only or the call does not return *)
(* (TableNamesAreSet), and a name that is no set stands for 'effective'.         *)
FlagsAreAsAsked ==
    /\ n <= MAX_CAPABILITIES
    /\ last # NoCall =>
           /\ \A s \in CapSets :
                  /\ cap[s] \ last.before[s] \subseteq (IF last.on THEN last.listed ELSE {})
                  /\ last.before[s] \ cap[s] \subseteq (IF last.on THEN {} ELSE last.listed)
                  /\ SetAsked(last.x) # {} /\ s \notin SetAsked(last.x) => cap[s] = last.before[s]
           /\ last.form = "strings" /\ last.more = {} => DoneAsAsked

(* "cap:flag('effective', true, { 'cap_chown', 'cap_bpf', ... })", in the       *)
(* comment of lcap_flag, sets the capabilities of the table, as the call with   *)
(* the names as arguments does.  (The tables here fit into the array.)          *)
TableNamesAreSet == last # NoCall /\ last.form = "table" /\ last.more = {} => DoneAsAsked
=============================================================================
