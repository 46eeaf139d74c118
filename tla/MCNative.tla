------------------------------ MODULE MCNative ------------------------------
(* The lists and trees of lib/ and the C bindings of the daemon share no state, *)
(* so that a behaviour uses one of them: focus picks it.                        *)
EXTENDS TLC, Queue, Tree, Wire, Descriptors, ArchiveBinding,
        CapabilityBinding, KmodBinding, MountBinding, RpmBinding, DBusBinding, SystemdBinding

VARIABLE focus

structureVars == <<queueVars, rankVars, splayVars>>
plainVars == <<wireVars, fdVars, arVars, capVars>>
dbusOnly == notifyVars
systemdOnly == <<default, closed>>

nativeVars == <<structureVars, plainVars, handleVars, dbusOnly, systemdOnly, focus>>

Init ==
    /\ focus \in {"queue", "rank", "splay", "wire", "descriptors", "archive",
                  "capability", "kmod", "mount", "rpm", "dbus", "systemd"}
    /\ QueueInit /\ RankInit /\ SplayInit /\ WireInit /\ FdInit /\ ArchiveInit
    /\ CapInit /\ DBusInit /\ SystemdInit
    /\ focus # "queue" => kind = "SLIST"
    /\ focus # "rank" => ~strict /\ ~early
    /\ focus # "wire" => lib = "dbus" /\ ~sealed

Structures ==
    /\ UNCHANGED <<plainVars, handleVars, dbusOnly, systemdOnly>>
    /\ \/ focus = "queue" /\ QueueNext /\ UNCHANGED <<rankVars, splayVars>>
       \/ focus = "rank" /\ RankNext /\ UNCHANGED <<queueVars, splayVars>>
       \/ focus = "splay" /\ SplayNext /\ UNCHANGED <<queueVars, rankVars>>

Plain ==
    /\ UNCHANGED <<structureVars, handleVars, dbusOnly, systemdOnly>>
    /\ \/ focus = "wire" /\ WireNext /\ UNCHANGED <<fdVars, arVars, capVars>>
       \/ focus = "descriptors" /\ FdNext /\ UNCHANGED <<wireVars, arVars, capVars>>
       \/ focus = "capability" /\ CapNext /\ UNCHANGED <<wireVars, fdVars, arVars>>
       \/ focus = "archive" /\ ArchiveNext /\ UNCHANGED <<wireVars, fdVars, capVars>>

(* A loop over packages needs four objects at once.  A connection, a pending   *)
(* call and a message or another call, or two filesystems in a table, are      *)
(* three; and no operation of D-Bus takes more than two userdata.              *)
Fourth == CHOOSE o \in Objs : TRUE
Third == CHOOSE s \in Slots : TRUE

Bindings ==
    /\ UNCHANGED <<structureVars, plainVars>>
    /\ \/ /\ UNCHANGED <<dbusOnly, systemdOnly>>
          /\ \/ focus = "kmod" /\ KmodNext
             \/ focus = "mount" /\ MountNext
             \/ focus = "rpm" /\ RpmNext
       \/ focus = "dbus" /\ DBusNext /\ UNCHANGED systemdOnly
       \/ focus = "systemd" /\ SystemdNext /\ UNCHANGED dbusOnly
    /\ focus \in {"mount", "dbus"} => heap'.refs[Fourth] = 0
    /\ focus = "dbus" => uds'[Third] = NoHandle

Next == UNCHANGED focus /\ (Structures \/ Plain \/ Bindings)

NativeSpec == Init /\ [][Next]_nativeVars

Symmetry == Permutations(Objs \ {Fourth})
-----------------------------------------------------------------------------
(* Every loop over a list visits what it should while its body removes and      *)
(* moves elements, and the macros that look backwards find the neighbour.       *)
TraversalsAgree == [](focus = "queue" => LookupsAgree) /\ TraversalIsComplete

(* The rank-balanced tree keeps its height logarithmic and its augmented data   *)
(* right (under RB_AUGMENT_CHECK as long as no node comes in that already holds *)
(* the data computed for it), answers every question as the set of its keys     *)
(* does, and a sweep that removes elements misses none; the splay tree stays a  *)
(* search tree under every rotation and brings a key that was asked for to its  *)
(* root.                                                                        *)
TreesAreSets ==
    /\ focus = "rank" => StaysBalanced /\ AnswersAsASet /\ SweepsAreComplete
    /\ focus = "splay" => SplayKeepsOrder /\ LookupsMoveToRoot

(* The bindings keep the counts of their libraries, with the exceptions         *)
(* CountsAreHolders names, and the bus of a userdata is open unless it is the   *)
(* default one.                                                                 *)
BindingsCount == CountsAreHolders /\ BusStaysOpen

(* A message reads back as what was appended, and each argument once.           *)
MessagesReadBack == DecodesWhatWasAppended /\ ArgumentsReadOnce
=============================================================================
