----------------------------- MODULE HostProofs -----------------------------
(***************************************************************************)
(* The enforcers of units, mounts, kernel modules and kernel parameters,   *)
(* for every initial content of the files they edit: what they achieve     *)
(* lasts, and doing it again changes nothing.                              *)
(***************************************************************************)
EXTENDS MCHost, TLAPS

(* Units: what each operation that holds has made of the unit file, and that   *)
(* a unit that has been stopped is not running.                                *)
ServicesInv ==
    /\ file \in FileStates /\ active \in ActiveStates
    /\ "enable" \in svClaim => file \in {"enabled", "static"}
    /\ "disable" \in svClaim => file # "enabled"
    /\ "mask" \in svClaim => file = "masked"
    /\ "unmask" \in svClaim => file # "masked"
    /\ "stop" \in svClaim => active \in {"inactive", "failed"}

(* Every step that touches the unit keeps ServicesInv. *)
LEMMA ServicesStep == ServicesInv /\ [ServicesNext]_svVars => ServicesInv'
<1> SUFFICES ASSUME ServicesInv, [ServicesNext]_svVars PROVE ServicesInv'
  OBVIOUS
<1> USE DEF ServicesInv, FileStates, ActiveStates
<1>1. CASE \E s \in {"enable", "disable", "mask", "unmask"} : SetFilestate(s)
  <2>1. PICK s \in {"enable", "disable", "mask", "unmask"} : SetFilestate(s)
    BY <1>1
  <2>2. CASE UNCHANGED svVars
    BY <2>2 DEF svVars
  <2>3. CASE /\ ~FileRefused(s) /\ file' \in FilesAfter(s) /\ active' = active
             /\ svClaim' = (svClaim \ {"enable", "disable", "mask", "unmask"}) \cup {s}
    <3>1. file' \in FileStates
      BY <2>1, <2>3 DEF FilesAfter
    <3>2. /\ s = "enable" => file' \in {"enabled", "static"}
          /\ s = "disable" => file' # "enabled"
          /\ s = "mask" => file' = "masked"
          /\ s = "unmask" => file' # "masked"
      BY <2>1, <2>3 DEF FilesAfter, FileRefused
    <3> QED
      BY <2>1, <2>3, <3>1, <3>2
  <2> QED
    BY <2>1, <2>2, <2>3 DEF SetFilestate, svVars
<1>2. CASE \E s \in {"start", "stop", "restart"} : SetActiveState(s)
  BY <1>2 DEF SetActiveState
<1>3. CASE ServicesOutside
  BY <1>3 DEF ServicesOutside
<1>4. CASE ServicesReboot
  BY <1>4 DEF ServicesReboot
<1>5. CASE UNCHANGED svVars
  BY <1>5 DEF svVars
<1> QED
  BY <1>1, <1>2, <1>3, <1>4, <1>5 DEF ServicesNext

(* What the invariant says about the probe and about a second run. *)
LEMMA ServicesKeep ==
    ASSUME ServicesInv
    PROVE  ServicesLasts /\ NotInUseMeansStopped /\ ServicesQuiet
<1> USE DEF ServicesInv, FileStates, ActiveStates
<1>1. ServicesLasts
  BY DEF ServicesLasts, NotInUse, FileStateSeen, ActiveStateSeen
<1>2. NotInUseMeansStopped
  <2> SUFFICES ASSUME NEW bus \in Buses, NEW tool \in Tools, NotInUse(bus, tool)
               PROVE  /\ file # "enabled" \/ (bus = "no_reply" /\ tool = "none")
                      /\ tool = "ok" => active # "active" \/ file = "not-found"
    BY DEF NotInUseMeansStopped
  <2> QED
    BY DEF NotInUse, FileStateSeen, FallbackFileState, ActiveStateSeen, Buses, Tools
<1>3. ServicesQuiet
  BY DEF ServicesQuiet, SetFilestate, FilesAfter
<1> QED
  BY <1>1, <1>2, <1>3

-----------------------------------------------------------------------------
(* Mounts: once the option is saved, every entry of the path has it; "live" is *)
(* all there is to achieve where the path has no entry.                        *)
HasOption(t) == Here(t) # {} /\ \A i \in Here(t) : "option" \in Range(t[i].opts)

MountsInv ==
    /\ fstab \in Seq([path : {"here", "elsewhere", "comment"}, opts : OptionLists])
    /\ mounted \in BOOLEAN
    /\ mtClaim \in {"none", "live", "saved", "done"}
    /\ mtClaim = "live" => Here(fstab) = {}
    /\ mtClaim \in {"saved", "done"} => HasOption(fstab)
    /\ mtStep = "fstab" /\ ~mtFailed => mounted
    /\ MountsLasts

(* add_fstab_options keeps the lines, gives every entry of the path the option *)
(* and leaves a table alone in which each has it.                              *)
LEMMA AddOptionAdds ==
    ASSUME NEW t \in Seq([path : {"here", "elsewhere", "comment"}, opts : OptionLists])
    PROVE  /\ AddOption(t) \in Seq([path : {"here", "elsewhere", "comment"}, opts : OptionLists])
           /\ Here(AddOption(t)) = Here(t)
           /\ \A i \in Here(t) : "option" \in Range(AddOption(t)[i].opts)
           /\ (\A i \in Here(t) : "option" \in Range(t[i].opts)) => AddOption(t) = t
<1> DEFINE Entry == [path : {"here", "elsewhere", "comment"}, opts : OptionLists]
<1> DEFINE u == AddOption(t)
<1>0. t \in Seq(Entry)
  OBVIOUS
<1> HIDE DEF Entry
<1>1. DOMAIN t = 1..Len(t) /\ Len(t) \in Nat /\ \A i \in 1..Len(t) : t[i] \in Entry
  BY <1>0
<1>2. \A o \in OptionLists : /\ Append(o, "option") \in OptionLists
                             /\ "option" \in Range(Append(o, "option"))
  <2> SUFFICES ASSUME NEW o \in OptionLists
               PROVE  /\ Append(o, "option") \in OptionLists
                      /\ "option" \in Range(Append(o, "option"))
    OBVIOUS
  <2>1. Append(o, "option") \in OptionLists
    BY DEF OptionLists
  <2>2. Len(o) + 1 \in DOMAIN Append(o, "option") /\ Append(o, "option")[Len(o) + 1] = "option"
    BY DEF OptionLists
  <2> QED
    BY <2>1, <2>2 DEF Range
<1>3. /\ DOMAIN u = 1..Len(t)
      /\ \A i \in 1..Len(t) :
           u[i] = IF i \in Here(t) /\ "option" \notin Range(t[i].opts)
                  THEN [t[i] EXCEPT !.opts = Append(t[i].opts, "option")] ELSE t[i]
  BY <1>1 DEF AddOption
<1> HIDE DEF u
<1>4. \A i \in 1..Len(t) : /\ u[i] \in Entry
                           /\ u[i].path = t[i].path
                           /\ i \in Here(t) => "option" \in Range(u[i].opts)
  <2> SUFFICES ASSUME NEW i \in 1..Len(t)
               PROVE  /\ u[i] \in Entry
                      /\ u[i].path = t[i].path
                      /\ i \in Here(t) => "option" \in Range(u[i].opts)
    OBVIOUS
  <2>1. t[i] \in Entry /\ t[i].opts \in OptionLists
    BY <1>1 DEF Entry
  <2>2. CASE i \in Here(t) /\ "option" \notin Range(t[i].opts)
    <3>1. u[i] = [t[i] EXCEPT !.opts = Append(t[i].opts, "option")]
      BY <1>3, <2>2
    <3>2. u[i].path = t[i].path /\ u[i].opts = Append(t[i].opts, "option")
      BY <2>1, <3>1 DEF Entry
    <3>3. u[i] \in Entry
      BY <1>2, <2>1, <3>1, Zenon DEF Entry
    <3> QED
      BY <1>2, <2>1, <3>2, <3>3
  <2>3. CASE ~(i \in Here(t) /\ "option" \notin Range(t[i].opts))
    BY <1>3, <2>1, <2>3
  <2> QED
    BY <2>2, <2>3
<1>5. u \in Seq(Entry)
  <2>1. u = [i \in 1..Len(t) |-> u[i]]
    BY <1>1, <1>3 DEF u, AddOption
  <2> QED
    BY <1>1, <1>4, <2>1
<1>6. Here(u) = Here(t)
  BY <1>1, <1>3, <1>4 DEF Here
<1>7. \A i \in Here(t) : "option" \in Range(u[i].opts)
  BY <1>1, <1>4 DEF Here
<1>8. ASSUME \A i \in Here(t) : "option" \in Range(t[i].opts) PROVE u = t
  BY <1>1, <1>3, <1>8 DEF u, AddOption
<1> QED
  BY <1>5, <1>6, <1>7, <1>8 DEF u, Entry

(* Every step of a remount, of others and of a reboot keeps MountsInv. *)
LEMMA MountsStep == MountsInv /\ [MountsNext]_mtVars => MountsInv'
<1> SUFFICES ASSUME MountsInv, [MountsNext]_mtVars PROVE MountsInv'
  OBVIOUS
<1> DEFINE Entry == [path : {"here", "elsewhere", "comment"}, opts : OptionLists]
<1>0. /\ fstab \in Seq(Entry) /\ mounted \in BOOLEAN
      /\ mtClaim \in {"none", "live", "saved", "done"}
      /\ mtClaim = "live" => Here(fstab) = {}
      /\ mtClaim \in {"saved", "done"} => HasOption(fstab)
      /\ mtStep = "fstab" /\ ~mtFailed => mounted
      /\ mtClaim \in {"live", "done"} => mounted \/ (Cancelled /\ mtClaim = "done")
  BY Zenon DEF MountsInv, MountsLasts
<1> HIDE DEF Entry
<1>1. CASE Remount
  <2>1. fstab' = fstab /\ mtClaim' = mtClaim /\ Cancelled' = Cancelled
    BY <1>1 DEF Remount, Cancelled
  <2>2. mounted' \in BOOLEAN /\ (mounted => mounted') /\ (~mtFailed' => mounted')
    BY <1>0, <1>1, Zenon DEF Remount
  <2> QED
    BY <1>0, <2>1, <2>2, Zenon DEF MountsInv, MountsLasts, Entry
<1>2. CASE AddFstabOptions
  <2>1. mtStep' = "idle" /\ mounted' = mounted
    BY <1>2 DEF AddFstabOptions
  <2>2. CASE UNCHANGED <<fstab, mtClaim>>
    <3>1. Cancelled' = Cancelled
      BY <2>2 DEF Cancelled
    <3> QED
      BY <1>0, <2>1, <2>2, <3>1, Zenon DEF MountsInv, MountsLasts, Entry
  <2>3. CASE fstab' = AddOption(fstab)
             /\ mtClaim' = IF Here(fstab) = {} THEN (IF mtFailed THEN mtClaim ELSE "live")
                           ELSE IF ~mtFailed THEN "done"
                           ELSE IF mtClaim = "none" THEN "saved" ELSE mtClaim
    <3>1. /\ fstab' \in Seq(Entry) /\ Here(fstab') = Here(fstab)
          /\ \A i \in Here(fstab) : "option" \in Range(fstab'[i].opts)
          /\ mtClaim \in {"saved", "done"} => fstab' = fstab
      BY <1>0, <2>3, AddOptionAdds, Zenon DEF HasOption, Entry
    <3>2. Here(fstab) # {} => HasOption(fstab')
      BY <3>1 DEF HasOption
    <3>3. mtClaim = "done" => Cancelled' = Cancelled
      BY <3>1 DEF Cancelled
    <3>4. mtClaim \in {"saved", "done"} => Here(fstab) # {}
      BY <1>0 DEF HasOption
    <3>5. mtStep = "fstab"
      BY <1>2 DEF AddFstabOptions
    <3>6. CASE Here(fstab) = {}
      <4>1. mtClaim' \in {"none", "live"} /\ (mtClaim' = "live" => mtClaim = "live" \/ ~mtFailed)
        BY <1>0, <2>3, <3>4, <3>6
      <4>2. mtClaim' = "live" => mounted
        BY <1>0, <3>5, <4>1
      <4> QED
        BY <1>0, <2>1, <3>1, <3>6, <4>1, <4>2 DEF MountsInv, MountsLasts, Entry
    <3>7. CASE Here(fstab) # {}
      <4>1. mtClaim' \in {"saved", "done"} /\ (mtClaim' = "done" => mtClaim = "done" \/ ~mtFailed)
        BY <1>0, <2>3, <3>7
      <4>2. mtClaim' = "done" => mounted \/ Cancelled'
        BY <1>0, <3>3, <3>5, <4>1
      <4> QED
        BY <1>0, <2>1, <3>1, <3>2, <3>7, <4>1, <4>2 DEF MountsInv, MountsLasts, Entry
    <3> QED
      BY <3>6, <3>7
  <2> QED
    BY <1>2, <2>2, <2>3 DEF AddFstabOptions
<1>3. CASE MountsOutside
  <2>1. /\ mtClaim' = "none" /\ mtStep' # "fstab"
        /\ mounted' \in BOOLEAN
        /\ fstab' = fstab \/ fstab' \in InitialFstab
    BY <1>0, <1>3, Zenon DEF MountsOutside
  <2>2. fstab' \in Seq(Entry)
    BY <1>0, <2>1, FstabAssumption, Zenon DEF Entry
  <2> QED
    BY <2>1, <2>2 DEF MountsInv, MountsLasts, Entry
<1>4. CASE MountsReboot
  <2>1. /\ fstab' = fstab /\ mtStep' = "idle"
        /\ mtClaim' = IF mtClaim \in {"saved", "done"} THEN "done" ELSE "none"
        /\ Cancelled' = Cancelled
    BY <1>4 DEF MountsReboot, Cancelled
  <2>2. mounted' \in BOOLEAN
    BY <1>4, Zenon DEF MountsReboot, Effective
  <2>3. mtClaim' = "done" => mounted' \/ Cancelled
    <3> SUFFICES ASSUME mtClaim' = "done" PROVE mounted' \/ Cancelled
      OBVIOUS
    <3>1. HasOption(fstab)
      BY <1>0, <2>1
    <3>2. PICK i \in Here(fstab) : mounted' = Effective(fstab[i].opts)
      BY <1>4, <3>1 DEF MountsReboot, HasOption
    <3> QED
      BY <3>1, <3>2 DEF HasOption, Cancelled
  <2> QED
    BY <1>0, <2>1, <2>2, <2>3 DEF MountsInv, MountsLasts, Entry
<1>5. CASE UNCHANGED mtVars
  BY <1>5 DEF mtVars, MountsInv, MountsLasts, Cancelled
<1> QED
  BY <1>1, <1>2, <1>3, <1>4, <1>5 DEF MountsNext

(* Where every entry has the option, remount writes fstab as it is. *)
LEMMA MountsKeep == ASSUME MountsInv PROVE MountsLasts /\ MountsQuiet
<1>1. mtClaim = "done" => AddOption(fstab) = fstab
  BY AddOptionAdds, Zenon DEF MountsInv, HasOption
<1> QED
  BY <1>1 DEF MountsInv, MountsQuiet, AddFstabOptions

-----------------------------------------------------------------------------
(* The first and the last of a set of positions. *)
INSTANCE WellFoundedInduction

(* A set of naturals has a least element. *)
LEMMA FirstOf ==
    ASSUME NEW S \in SUBSET Nat, S # {}
    PROVE  \E x \in S : \A y \in S : x <= y
<1>1. PICK x \in S : \A y \in S : ~(<<y, x>> \in OpToRel(<, Nat))
  BY NatLessThanWellFounded, WFMin, Zenon
<1>2. \A y \in S : y < x => <<y, x>> \in OpToRel(<, Nat)
  BY DEF OpToRel
<1>3. \A y \in S : ~(y < x)
  BY <1>1, <1>2, Zenon
<1> QED
  BY <1>3

(* A set of positions has a last one. *)
LEMMA LastOf ==
    ASSUME NEW n \in Nat, NEW S \in SUBSET (1..n), S # {}
    PROVE  \E x \in S : \A y \in S : y <= x
<1> DEFINE T == {n - x : x \in S}
<1>1. T \in SUBSET Nat /\ T # {}
  <2>1. \A x \in S : n - x \in Nat
    OBVIOUS
  <2> QED
    BY <2>1, Zenon
<1>2. PICK t \in T : \A u \in T : t <= u
  <2> HIDE DEF T
  <2> QED
    BY <1>1, FirstOf
<1>3. PICK x \in S : t = n - x
  OBVIOUS
<1>4. \A y \in S : n - x <= n - y
  BY <1>2, <1>3, Zenon
<1> QED
  BY <1>4

-----------------------------------------------------------------------------
(* Kernel modules: a line that was added is there, where the enforcer will     *)
(* find it again, and the module is unloaded if unload can see it.             *)
ModprobeLine == [verb : {"blacklist", "install"}, name : {"dash", "under"},
                 cmd : {"none", "/bin/true", "/bin/false", "other"}]

Commanded(m) ==
    /\ m \in Seq(Seq(ModprobeLine)) /\ Len(m) >= OwnFile
    /\ \A f \in Range(m) : \A l \in Range(f) : l.verb = "install" => l.cmd # "none"

Present(line) == LineExists(line) \/ line \in Range(modprobe[OwnFile])

KmodInv ==
    /\ Commanded(modprobe)
    /\ param \in {"dash", "under"}
    /\ unread \in BOOLEAN
    /\ "blacklist" \in kmClaim /\ ~unread => Present(Line("blacklist", param, "none"))
    /\ "install" \in kmClaim /\ ~unread => Present(Line("install", param, "/bin/true"))
    /\ "unload" \in kmClaim => ~loaded \/ param = "dash"

(* A file that starts anew holds its one line. *)
LEMMA FileStartedAnew ==
    ASSUME Commanded(modprobe), NEW line \in ModprobeLine, line.verb = "install" => line.cmd # "none",
           modprobe' = [modprobe EXCEPT ![OwnFile] = Append(<<>>, line)]
    PROVE  Commanded(modprobe')
<1>1. /\ modprobe \in Seq(Seq(ModprobeLine)) /\ Len(modprobe) >= 2 /\ OwnFile = 2
      /\ \A f \in Range(modprobe) : \A l \in Range(f) : l.verb = "install" => l.cmd # "none"
  BY DEF Commanded, OwnFile
<1>2. Append(<<>>, line) = <<line>> /\ <<line>> \in Seq(ModprobeLine) /\ Range(<<line>>) = {line}
  <2> HIDE DEF ModprobeLine
  <2> QED
    BY DEF Range
<1>3. /\ modprobe' \in Seq(Seq(ModprobeLine)) /\ Len(modprobe') = Len(modprobe)
      /\ DOMAIN modprobe' = DOMAIN modprobe /\ modprobe'[2] = <<line>>
      /\ \A i \in DOMAIN modprobe : i # 2 => modprobe'[i] = modprobe[i]
  <2> HIDE DEF ModprobeLine
  <2> QED
    BY <1>1, <1>2
<1>4. \A f \in Range(modprobe') : \A l \in Range(f) : l.verb = "install" => l.cmd # "none"
  <2> SUFFICES ASSUME NEW f \in Range(modprobe'), NEW l \in Range(f), l.verb = "install"
               PROVE  l.cmd # "none"
    OBVIOUS
  <2>1. PICK i \in DOMAIN modprobe : f = modprobe'[i]
    BY <1>3, Zenon DEF Range
  <2>2. modprobe[i] \in Range(modprobe)
    BY Zenon DEF Range
  <2> QED
    BY <1>1, <1>2, <1>3, <2>1, <2>2
<1> QED
  BY <1>1, <1>3, <1>4, Zenon DEF Commanded

(* Appending a line to the own file adds that line and keeps the others. *)
LEMMA LineAdded ==
    ASSUME Commanded(modprobe), NEW line \in ModprobeLine, line.verb = "install" => line.cmd # "none",
           modprobe' = [modprobe EXCEPT ![OwnFile] = Append(@, line)], param' = param
    PROVE  /\ Commanded(modprobe')
           /\ Present(line)'
           /\ \A l : Present(l) => Present(l)'
<1>1. /\ modprobe \in Seq(Seq(ModprobeLine)) /\ Len(modprobe) >= 2 /\ OwnFile = 2
      /\ \A f \in Range(modprobe) : \A l \in Range(f) : l.verb = "install" => l.cmd # "none"
  BY DEF Commanded, OwnFile
<1>2. modprobe[2] \in Seq(ModprobeLine) /\ 2 \in DOMAIN modprobe /\ Len(modprobe) \in Nat
  BY <1>1
<1>3. /\ Append(modprobe[2], line) \in Seq(ModprobeLine)
      /\ Range(Append(modprobe[2], line)) = Range(modprobe[2]) \cup {line}
  <2>1. Append(modprobe[2], line) \in Seq(ModprobeLine)
    BY <1>2
  <2>2. DOMAIN Append(modprobe[2], line) = DOMAIN modprobe[2] \cup {Len(modprobe[2]) + 1}
    BY <1>2
  <2>3. /\ \A i \in DOMAIN modprobe[2] : Append(modprobe[2], line)[i] = modprobe[2][i]
        /\ Append(modprobe[2], line)[Len(modprobe[2]) + 1] = line
    BY <1>2
  <2> QED
    BY <2>1, <2>2, <2>3 DEF Range
<1>4. /\ modprobe' \in Seq(Seq(ModprobeLine)) /\ Len(modprobe') = Len(modprobe)
      /\ DOMAIN modprobe' = DOMAIN modprobe
      /\ modprobe'[2] = Append(modprobe[2], line)
      /\ \A i \in DOMAIN modprobe : i # 2 => modprobe'[i] = modprobe[i]
  <2> HIDE DEF ModprobeLine
  <2> QED
    BY <1>1, <1>2, <1>3
<1>5. \A i \in DOMAIN modprobe : Range(modprobe[i]) \subseteq Range(modprobe'[i])
  BY <1>2, <1>3, <1>4
<1>6. \A f \in Range(modprobe') : \A l \in Range(f) : l.verb = "install" => l.cmd # "none"
  <2> SUFFICES ASSUME NEW f \in Range(modprobe'), NEW l \in Range(f), l.verb = "install"
               PROVE  l.cmd # "none"
    OBVIOUS
  <2>1. PICK i \in DOMAIN modprobe : f = modprobe'[i]
    BY <1>4, Zenon DEF Range
  <2>2. modprobe[i] \in Range(modprobe)
    BY Zenon DEF Range
  <2> QED
    BY <1>1, <1>2, <1>3, <1>4, <2>1, <2>2
<1>7. \A l : (\E f \in Range(modprobe) : l \in Range(f)) => \E f \in Range(modprobe') : l \in Range(f)
  <2> SUFFICES ASSUME NEW l, NEW i \in DOMAIN modprobe, l \in Range(modprobe[i])
               PROVE  \E f \in Range(modprobe') : l \in Range(f)
    BY DEF Range
  <2>1. modprobe'[i] \in Range(modprobe') /\ l \in Range(modprobe'[i])
    BY <1>4, <1>5, Zenon DEF Range
  <2> QED
    BY <2>1
<1>8. \A l : Present(l) => Present(l)'
  BY <1>1, <1>2, <1>5, <1>7, Zenon DEF Present, LineExists
<1>9. Present(line)'
  BY <1>1, <1>3, <1>4 DEF Present
<1> QED
  BY <1>1, <1>4, <1>6, <1>8, <1>9, Zenon DEF Commanded

(* blacklist and set_install_command leave their line in place. *)
LEMMA AddLineKeeps ==
    ASSUME KmodInv, NEW op \in {"blacklist", "install"}, NEW line \in ModprobeLine,
           line = IF op = "blacklist" THEN Line("blacklist", param, "none")
                  ELSE Line("install", param, "/bin/true"),
           AddLine(line, op)
    PROVE  KmodInv'
<1>1. param' = param /\ loaded' = loaded
  BY DEF AddLine
<1>2. CASE UNCHANGED <<modprobe, kmClaim, unread>>
  BY <1>1, <1>2 DEF KmodInv, Present, LineExists
<1>3. CASE Present(line) /\ kmClaim' = kmClaim \cup {op} /\ UNCHANGED <<modprobe, unread>>
  BY <1>1, <1>3 DEF KmodInv, Present, LineExists
<1>4. CASE /\ modprobe' = [modprobe EXCEPT ![OwnFile] = Append(modprobe[OwnFile], line)]
           /\ kmClaim' = kmClaim \cup {op}
           /\ unread' \in BOOLEAN /\ (unread => unread')
  <2>1. line.verb = "install" => line.cmd # "none"
    BY DEF Line
  <2>2. Commanded(modprobe') /\ Present(line)' /\ \A l : Present(l) => Present(l)'
    BY <1>1, <1>4, <2>1, LineAdded, Zenon DEF KmodInv
  <2> QED
    BY <1>1, <1>4, <2>2 DEF KmodInv
<1>5. CASE /\ modprobe' = [modprobe EXCEPT ![OwnFile] = Append(<<>>, line)]
           /\ kmClaim' = kmClaim \cup {op} /\ unread'
  <2>1. line.verb = "install" => line.cmd # "none"
    BY DEF Line
  <2>2. Commanded(modprobe')
    BY <1>5, <2>1, FileStartedAnew, Zenon DEF KmodInv
  <2> QED
    BY <1>1, <1>5, <2>2 DEF KmodInv
<1>6. CASE \E read \in {modprobe[OwnFile], <<>>} :
              /\ modprobe' = [modprobe EXCEPT ![OwnFile] = Append(read, line)]
              /\ unread' = (unread \/ LineExists(line) \/ read # modprobe[OwnFile])
              /\ kmClaim' = kmClaim \cup {op}
  BY <1>4, <1>5, <1>6 DEF KmodInv
<1> QED
  BY <1>2, <1>3, <1>6 DEF AddLine, Present

(* Every step of the three operations, of others and of a reboot keeps KmodInv. *)
LEMMA KmodStep == KmodInv /\ [KmodNext]_kmVars => KmodInv'
<1> SUFFICES ASSUME KmodInv, [KmodNext]_kmVars PROVE KmodInv'
  OBVIOUS
<1>0. param \in {"dash", "under"}
  BY DEF KmodInv
<1>1. CASE Unload
  BY <1>1 DEF Unload, SeenLoaded, KmodInv, Present, LineExists
<1>2. CASE Blacklist
  <2>1. Line("blacklist", param, "none") \in ModprobeLine
    BY <1>0 DEF Line, ModprobeLine
  <2> QED
    BY <1>2, <2>1, AddLineKeeps DEF Blacklist
<1>3. CASE SetInstallCommand
  <2>1. Line("install", param, "/bin/true") \in ModprobeLine
    BY <1>0 DEF Line, ModprobeLine
  <2> QED
    BY <1>3, <2>1, AddLineKeeps DEF SetInstallCommand
<1>4. CASE KmodOutside
  <2>0. unread' = unread
    BY <1>4 DEF KmodOutside
  <2>1. CASE modprobe' = modprobe /\ kmClaim' = kmClaim \ {"unload"} /\ param' = param
    BY <2>0, <2>1 DEF KmodInv, Present, LineExists
  <2>2. CASE /\ modprobe' \in InitialModprobe /\ kmClaim' = kmClaim \cap {"unload"}
             /\ loaded' = loaded /\ param' = param
    <3>1. Commanded(modprobe')
      BY <2>2, ModprobeAssumption DEF Commanded, ModprobeLine
    <3> QED
      BY <2>0, <2>2, <3>1 DEF KmodInv
  <2> QED
    BY <1>4, <2>1, <2>2 DEF KmodOutside
<1>5. CASE KmodReboot
  <2>1. modprobe' = modprobe /\ param' = param /\ unread' = unread
    BY <1>5 DEF KmodReboot
  <2>2. "unload" \in kmClaim' => ~loaded'
    BY <1>5, Zenon DEF KmodReboot
  <2>3. kmClaim' \ {"unload"} = kmClaim \ {"unload"}
    BY <1>5 DEF KmodReboot
  <2> QED
    BY <2>1, <2>2, <2>3 DEF KmodInv, Present, LineExists
<1>6. CASE UNCHANGED kmVars
  BY <1>6 DEF kmVars, KmodInv, Present, LineExists
<1> QED
  BY <1>1, <1>2, <1>3, <1>4, <1>5, <1>6 DEF KmodNext

(* Where there is an install line, the first of them has a command. *)
LEMMA FirstInstall ==
    ASSUME Commanded(modprobe), NEW f \in Range(modprobe), NEW l \in Range(f), l.verb = "install"
    PROVE  InstallCommand # {}
<1> DEFINE InstallsIn(i) == {j \in 1..Len(modprobe[i]) : modprobe[i][j].verb = "install"}
           Files == {i \in 1..Len(modprobe) : InstallsIn(i) # {}}
<1>1. /\ modprobe \in Seq(Seq(ModprobeLine))
      /\ \A g \in Range(modprobe) : \A k \in Range(g) : k.verb = "install" => k.cmd # "none"
  BY DEF Commanded
<1>2. /\ Len(modprobe) \in Nat /\ DOMAIN modprobe = 1..Len(modprobe)
      /\ \A i \in 1..Len(modprobe) :
            /\ modprobe[i] \in Seq(ModprobeLine) /\ Len(modprobe[i]) \in Nat
            /\ DOMAIN modprobe[i] = 1..Len(modprobe[i])
  <2> HIDE DEF ModprobeLine
  <2> QED
    BY <1>1
<1>3. Files \in SUBSET Nat /\ Files # {}
  <2>1. PICK i \in 1..Len(modprobe) : f = modprobe[i]
    BY <1>2 DEF Range
  <2>2. PICK j \in 1..Len(modprobe[i]) : l = modprobe[i][j]
    BY <1>2, <2>1 DEF Range
  <2>3. j \in InstallsIn(i)
    BY <2>2
  <2> QED
    BY <1>2, <2>1, <2>3
<1>4. PICK i \in Files : \A k \in Files : i <= k
  <2> HIDE DEF Files
  <2> QED
    BY <1>3, FirstOf
<1>5. InstallsIn(i) \in SUBSET Nat /\ InstallsIn(i) # {}
  BY <1>2
<1>6. PICK j \in InstallsIn(i) : \A k \in InstallsIn(i) : j <= k
  <2> HIDE DEF InstallsIn
  <2> QED
    BY <1>5, FirstOf, Zenon
<1>7. \A k \in 1..(i - 1) : NoInstallBefore(modprobe[k], Len(modprobe[k]) + 1)
  <2> SUFFICES ASSUME NEW k \in 1..(i - 1), NEW m \in 1..Len(modprobe[k]),
                      modprobe[k][m].verb = "install"
               PROVE  FALSE
    BY <1>2 DEF NoInstallBefore
  <2>1. k \in 1..Len(modprobe) /\ ~(i <= k)
    BY <1>2, <1>4
  <2>2. k \in Files
    BY <2>1
  <2> QED
    BY <1>4, <2>1, <2>2
<1>8. NoInstallBefore(modprobe[i], j)
  <2> SUFFICES ASSUME NEW m \in 1..(j - 1), modprobe[i][m].verb = "install"
               PROVE  FALSE
    BY DEF NoInstallBefore
  <2>1. m \in 1..Len(modprobe[i]) /\ ~(j <= m)
    BY <1>2, <1>6
  <2> QED
    BY <1>6, <2>1
<1>9. modprobe[i][j].cmd \in {"/bin/true", "/bin/false", "other"}
  <2>1. modprobe[i][j] \in ModprobeLine /\ modprobe[i][j].verb = "install"
    BY <1>2, <1>6
  <2>2. modprobe[i] \in Range(modprobe) /\ modprobe[i][j] \in Range(modprobe[i])
    BY <1>2, <1>6, Zenon DEF Range
  <2> QED
    BY <1>1, <2>1, <2>2 DEF ModprobeLine
<1>10. modprobe[i][j].cmd \in InstallCommand
  BY <1>6, <1>7, <1>8, <1>9 DEF InstallCommand
<1> QED
  BY <1>10

(* What the invariant says about the probe and about a second run. *)
LEMMA KmodKeep == ASSUME KmodInv PROVE KmodLasts /\ KmodQuiet
<1>1. KmodLasts
  <2> SUFFICES ASSUME {"unload", "blacklist", "install"} \subseteq kmClaim, ~Foreign, ~unread
               PROVE  Disabled \/ kind = "builtin" \/ (param = "dash" /\ loaded)
    BY DEF KmodLasts
  <2>1. Commanded(modprobe) /\ (~loaded \/ param = "dash")
    BY DEF KmodInv
  <2>2. modprobe[OwnFile] \in Range(modprobe)
    BY <2>1 DEF Commanded, OwnFile, Range
  <2>3. \E f \in Range(modprobe) : Line("blacklist", param, "none") \in Range(f)
    BY <2>2 DEF KmodInv, Present, LineExists
  <2>4. \E f \in Range(modprobe) : Line("install", param, "/bin/true") \in Range(f)
    BY <2>2 DEF KmodInv, Present, LineExists
  <2>5. IsBlacklisted
    BY <2>3 DEF IsBlacklisted, Line
  <2>6. InstallCommand # {}
    <3>1. PICK f \in Range(modprobe) : Line("install", param, "/bin/true") \in Range(f)
      BY <2>4
    <3>2. Line("install", param, "/bin/true").verb = "install"
      BY DEF Line
    <3> QED
      BY <2>1, <3>1, <3>2, FirstInstall
  <2>7. Blocked
    <3>1. InstallCommand \subseteq {"/bin/true", "/bin/false", "other"}
      BY DEF InstallCommand
    <3>2. InstallCommand \cap {"/bin/true", "/bin/false"} # {}
      BY <2>6, <3>1, Zenon DEF Foreign
    <3> QED
      BY <2>5, <3>2 DEF Blocked
  <2> QED
    BY <2>1, <2>7 DEF Disabled
<1>2. KmodQuiet
  BY DEF KmodInv, KmodQuiet, Blacklist, SetInstallCommand, AddLine, Present
<1> QED
  BY <1>1, <1>2

-----------------------------------------------------------------------------
(* Kernel parameters: once the value is saved, the own file assigns it and     *)
(* nothing else in the spelling that the enforcer knows; and once it is set as *)
(* well, it stays so if nothing overrides it.                                  *)
ConfLine == [key : Spellings \cup {"other"}, val : Values]

Saved ==
    /\ \E j \in 1..Len(conf[Own]) : conf[Own][j].key = "plain"
    /\ \A j \in 1..Len(conf[Own]) : conf[Own][j].key = "plain" => conf[Own][j].val = Wanted

SysctlInv ==
    /\ conf \in Seq(Seq(ConfLine)) /\ Len(conf) >= Own
    /\ scClaim \in {"none", "saved", "done"}
    /\ scClaim \in {"saved", "done"} => Saved
    /\ scStep = "persist" /\ ~scFailed => live = Wanted
    /\ scClaim = "done" /\ ~Overridden => live = Wanted

(* The shape of the files, without the lines. *)
LEMMA ConfShape ==
    ASSUME NEW c \in Seq(Seq(ConfLine))
    PROVE  /\ Len(c) \in Nat
           /\ \A i \in 1..Len(c) : /\ c[i] \in Seq(ConfLine) /\ Len(c[i]) \in Nat
                                   /\ DOMAIN c[i] = 1..Len(c[i])
                                   /\ \A j \in 1..Len(c[i]) : c[i][j] \in ConfLine
<1> HIDE DEF ConfLine
<1> QED
  OBVIOUS

(* A saved value that nothing overrides is the last assignment. *)
LEMMA SavedIsLast ==
    ASSUME conf \in Seq(Seq(ConfLine)), Len(conf) >= Own, Saved, ~Overridden
    PROVE  Persistent(conf) = {Wanted}
<1> DEFINE own == conf[Own]
           Mine == {j \in 1..Len(own) : own[j].key = "plain"}
<1>1. Own \in 1..Len(conf) /\ Own = 2 /\ Len(conf) \in Nat
  BY ConfShape DEF Own
<1>2. /\ own \in Seq(ConfLine) /\ Len(own) \in Nat /\ DOMAIN own = 1..Len(own)
      /\ \A j \in 1..Len(own) : own[j] \in ConfLine
  BY <1>1, ConfShape
<1>3. \A k \in (Own + 1)..Len(conf) : SilentAfter(conf[k], 0)
  <2> SUFFICES ASSUME NEW k \in (Own + 1)..Len(conf), NEW m \in 1..Len(conf[k]),
                      conf[k][m].key \in Spellings
               PROVE  FALSE
    BY DEF SilentAfter
  <2>1. k \in 1..Len(conf)
    BY <1>1
  <2>2. conf[k][m] \in Range(conf[k])
    BY <2>1, ConfShape DEF Range
  <2> QED
    BY <2>2 DEF Overridden
<1>4. \A i \in 1..Len(own) : own[i].key \in {"slash", "minus"} => \E j \in Mine : ~(j < i)
  BY <1>2 DEF Overridden
<1>5. Mine \in SUBSET (1..Len(own)) /\ Mine # {} /\ \A j \in Mine : own[j].val = Wanted
  BY DEF Saved
<1>6. PICK j \in Mine : \A k \in Mine : k <= j
  <2> HIDE DEF Mine
  <2> QED
    BY <1>2, <1>5, LastOf, Zenon
<1>7. SilentAfter(own, j)
  <2> SUFFICES ASSUME NEW k \in (j + 1)..Len(own), own[k].key \in Spellings PROVE FALSE
    BY DEF SilentAfter
  <2>1. k \in 1..Len(own) /\ k > j /\ k \in Nat /\ j \in Nat
    BY <1>2, <1>6
  <2>2. CASE own[k].key = "plain"
    BY <1>6, <2>1, <2>2
  <2>3. CASE own[k].key \in {"slash", "minus"}
    BY <1>2, <1>4, <1>6, <2>1, <2>3
  <2> QED
    BY <2>2, <2>3 DEF Spellings
<1>8. Wanted \in Persistent(conf)
  <2>1. Wanted \in Values
    BY ConfAssumption
  <2>2. own[j].key \in Spellings /\ own[j].val = Wanted /\ j \in 1..Len(own)
    BY <1>5, <1>6 DEF Spellings
  <2> QED
    BY <1>1, <1>3, <1>7, <2>1, <2>2 DEF Persistent
<1>9. ASSUME NEW v \in Persistent(conf) PROVE v = Wanted
  <2>1. PICK i \in 1..Len(conf) :
          /\ \E k \in 1..Len(conf[i]) :
                conf[i][k].key \in Spellings /\ conf[i][k].val = v /\ SilentAfter(conf[i], k)
          /\ \A m \in (i + 1)..Len(conf) : SilentAfter(conf[m], 0)
    BY <1>9 DEF Persistent
  <2>2. PICK k \in 1..Len(conf[i]) :
                conf[i][k].key \in Spellings /\ conf[i][k].val = v /\ SilentAfter(conf[i], k)
    BY <2>1
  <2>3. ~(i > Own)
    <3> SUFFICES ASSUME i > Own PROVE FALSE
      OBVIOUS
    <3>1. SilentAfter(conf[i], 0)
      BY <1>1, <1>3, <2>1
    <3> QED
      BY <2>2, <3>1 DEF SilentAfter
  <2>4. ~(i < Own)
    <3> SUFFICES ASSUME i < Own PROVE FALSE
      OBVIOUS
    <3>1. SilentAfter(own, 0)
      <4>1. Own \in (i + 1)..Len(conf)
        BY <1>1, <2>1
      <4> QED
        BY <2>1, <4>1, Zenon
    <3>2. j \in 1..Len(own) /\ own[j].key = "plain"
      BY <1>6
    <3> QED
      BY <3>1, <3>2 DEF SilentAfter, Spellings
  <2>5. i = Own
    BY <1>1, <2>3, <2>4
  <2>6. ~(j > k)
    <3> SUFFICES ASSUME j > k PROVE FALSE
      OBVIOUS
    <3>1. j \in (k + 1)..Len(own) /\ own[j].key = "plain"
      BY <1>2, <1>6, <2>2, <2>5
    <3> QED
      BY <2>2, <2>5, <3>1 DEF SilentAfter, Spellings
  <2>7. ~(k > j)
    <3> SUFFICES ASSUME k > j PROVE FALSE
      OBVIOUS
    <3>1. k \in (j + 1)..Len(own)
      BY <1>2, <1>6, <2>2, <2>5
    <3> QED
      BY <1>7, <2>2, <2>5, <3>1 DEF SilentAfter
  <2>8. k = j
    BY <1>2, <1>6, <2>2, <2>5, <2>6, <2>7
  <2> QED
    BY <1>5, <1>6, <2>2, <2>5, <2>8
<1> QED
  BY <1>8, <1>9

(* persist_sysctl: the lines it makes assign the wanted value, and lines that  *)
(* did so already are left as they are.                                        *)
LEMMA PersistedSaves ==
    ASSUME NEW lines \in Seq(ConfLine)
    PROVE  /\ Persisted(lines) \in Seq(ConfLine)
           /\ \E j \in 1..Len(Persisted(lines)) : Persisted(lines)[j].key = "plain"
           /\ \A j \in 1..Len(Persisted(lines)) :
                Persisted(lines)[j].key = "plain" => Persisted(lines)[j].val = Wanted
           /\ /\ \E j \in 1..Len(lines) : lines[j].key = "plain"
              /\ \A j \in 1..Len(lines) : lines[j].key = "plain" => lines[j].val = Wanted
              => Persisted(lines) = lines
<1> DEFINE new == KeyLine("plain", Wanted)
           p == Persisted(lines)
<1>1. new \in ConfLine /\ new.key = "plain" /\ new.val = Wanted
  BY ConfAssumption DEF KeyLine, ConfLine, Spellings
<1>2. \A l \in ConfLine : l.key = "plain" /\ l.val = Wanted => l = new
  BY DEF KeyLine, ConfLine
<1>3. /\ Len(lines) \in Nat /\ DOMAIN lines = 1..Len(lines)
      /\ \A j \in 1..Len(lines) : lines[j] \in ConfLine
  <2> HIDE DEF ConfLine
  <2> QED
    OBVIOUS
<1>4. (\E l \in Range(lines) : l.key = "plain") <=> \E j \in 1..Len(lines) : lines[j].key = "plain"
  BY <1>3 DEF Range
<1> HIDE DEF new, ConfLine
<1>5. CASE \E j \in 1..Len(lines) : lines[j].key = "plain"
  <2>1. p = [i \in 1..Len(lines) |-> IF lines[i].key = "plain" THEN new ELSE lines[i]]
    BY <1>3, <1>4, <1>5, Zenon DEF Persisted, new
  <2> HIDE DEF p
  <2>2. p \in Seq(ConfLine) /\ Len(p) = Len(lines)
    BY <1>1, <1>3, <2>1
  <2>3. \A i \in 1..Len(lines) : p[i] = IF lines[i].key = "plain" THEN new ELSE lines[i]
    BY <2>1
  <2>4. /\ \E j \in 1..Len(p) : p[j].key = "plain"
        /\ \A j \in 1..Len(p) : p[j].key = "plain" => p[j].val = Wanted
    BY <1>1, <1>5, <2>2, <2>3
  <2>5. ASSUME \A j \in 1..Len(lines) : lines[j].key = "plain" => lines[j].val = Wanted
        PROVE  p = lines
    <3>1. \A i \in 1..Len(lines) : p[i] = lines[i]
      BY <1>2, <1>3, <2>3, <2>5
    <3> QED
      BY <2>2, <3>1
  <2> QED
    BY <2>2, <2>4, <2>5 DEF p
<1>6. CASE ~ \E j \in 1..Len(lines) : lines[j].key = "plain"
  <2>1. p = Append(lines, new)
    BY <1>4, <1>6, Zenon DEF Persisted, new
  <2> HIDE DEF p
  <2>2. /\ p \in Seq(ConfLine) /\ Len(p) = Len(lines) + 1
        /\ \A j \in 1..Len(lines) : p[j] = lines[j]
        /\ p[Len(lines) + 1] = new
    BY <1>1, <1>3, <2>1
  <2>3. /\ \E j \in 1..Len(p) : p[j].key = "plain"
        /\ \A j \in 1..Len(p) : p[j].key = "plain" => p[j].val = Wanted
    <3>1. Len(p) \in 1..Len(p) /\ \A j \in 1..Len(p) : j \in 1..Len(lines) \/ j = Len(lines) + 1
      BY <1>3, <2>2
    <3> QED
      BY <1>1, <1>6, <2>2, <3>1
  <2> QED
    BY <1>6, <2>2, <2>3 DEF p
<1> QED
  BY <1>5, <1>6

(* What rewriting the own file does to the configuration. *)
LEMMA RewriteOwn ==
    ASSUME conf \in Seq(Seq(ConfLine)), Len(conf) >= Own, NEW lines \in {conf[Own], <<>>},
           conf' = [conf EXCEPT ![Own] = Persisted(lines)]
    PROVE  conf' \in Seq(Seq(ConfLine)) /\ Len(conf') = Len(conf) /\ Saved'
<1>1. lines \in Seq(ConfLine) /\ Own \in DOMAIN conf
  <2>1. Own \in 1..Len(conf)
    BY ConfShape DEF Own
  <2>2. conf[Own] \in Seq(ConfLine)
    BY <2>1, ConfShape
  <2> HIDE DEF ConfLine
  <2>3. DOMAIN conf = 1..Len(conf)
    OBVIOUS
  <2>4. <<>> \in Seq(ConfLine)
    OBVIOUS
  <2> QED
    BY <2>1, <2>2, <2>3, <2>4, Zenon
<1> DEFINE p == Persisted(lines)
<1>2. p \in Seq(ConfLine) /\ \E j \in 1..Len(p) : p[j].key = "plain"
  BY <1>1, PersistedSaves
<1>3. \A j \in 1..Len(p) : p[j].key = "plain" => p[j].val = Wanted
  BY <1>1, PersistedSaves
<1> HIDE DEF p, ConfLine
<1>4. conf' \in Seq(Seq(ConfLine)) /\ Len(conf') = Len(conf) /\ conf'[Own] = p
  BY <1>1, <1>2 DEF p
<1> QED
  BY <1>2, <1>3, <1>4 DEF Saved, Own

(* Every step of set_value, of others and of a reboot keeps SysctlInv. *)
LEMMA SysctlStep == SysctlInv /\ [SysctlNext]_scVars => SysctlInv'
<1> SUFFICES ASSUME SysctlInv, [SysctlNext]_scVars PROVE SysctlInv'
  OBVIOUS
<1>0. /\ conf \in Seq(Seq(ConfLine)) /\ Len(conf) >= Own
      /\ scClaim \in {"none", "saved", "done"}
      /\ scClaim \in {"saved", "done"} => Saved
      /\ scStep = "persist" /\ ~scFailed => live = Wanted
      /\ scClaim = "done" /\ ~Overridden => live = Wanted
  BY Zenon DEF SysctlInv
<1> HIDE DEF ConfLine
<1>k. conf' = conf => Saved' = Saved /\ Overridden' = Overridden
  BY DEF Saved, Overridden
<1>1. CASE SetLive
  <2>1. /\ conf' = conf /\ scClaim' = scClaim
        /\ live' = Wanted \/ live' = live
        /\ ~scFailed' => live' = Wanted
    BY <1>1 DEF SetLive
  <2> QED
    BY <1>0, <1>k, <2>1, Zenon DEF SysctlInv
<1>2. CASE PersistSysctl
  <2>1. scStep = "persist" /\ scStep' = "idle" /\ live' = live
    BY <1>2 DEF PersistSysctl
  <2>2. CASE UNCHANGED <<conf, scClaim>>
    BY <1>0, <1>k, <2>1, <2>2 DEF SysctlInv
  <2>3. CASE /\ \E lines \in {conf[Own], <<>>} : conf' = [conf EXCEPT ![Own] = Persisted(lines)]
             /\ scClaim' = IF ~scFailed \/ (scClaim = "done" /\ conf' = conf) THEN "done" ELSE "saved"
    <3>1. conf' \in Seq(Seq(ConfLine)) /\ Len(conf') = Len(conf) /\ Saved'
      BY <1>0, <2>3, RewriteOwn, Zenon
    <3>2. scClaim' \in {"saved", "done"}
      BY <2>3
    <3>3. scClaim' = "done" /\ ~Overridden' => live' = Wanted
      BY <1>0, <1>k, <2>1, <2>3
    <3> QED
      BY <1>0, <2>1, <3>1, <3>2, <3>3 DEF SysctlInv
  <2> QED
    BY <1>2, <2>2, <2>3 DEF PersistSysctl
<1>3. CASE SysctlOutside
  <2>1. scClaim' = "none" /\ scStep' = "idle"
    BY <1>3 DEF SysctlOutside
  <2>2. conf' \in Seq(Seq(ConfLine)) /\ Len(conf') >= Own
    <3>1. CASE conf' = conf
      BY <1>0, <3>1
    <3>2. CASE \E i \in DOMAIN conf, v \in Values :
                 conf' = [conf EXCEPT ![i] = Append(@, KeyLine("plain", v))]
      <4>1. PICK i \in DOMAIN conf, v \in Values :
                 conf' = [conf EXCEPT ![i] = Append(@, KeyLine("plain", v))]
        BY <3>2, Zenon
      <4>2. KeyLine("plain", v) \in ConfLine
        BY DEF KeyLine, ConfLine, Spellings
      <4>3. conf[i] \in Seq(ConfLine)
        BY <1>0, ConfShape
      <4>4. Append(conf[i], KeyLine("plain", v)) \in Seq(ConfLine)
        BY <4>2, <4>3
      <4> QED
        BY <1>0, <4>1, <4>4
    <3> QED
      BY <1>3, <3>1, <3>2 DEF SysctlOutside
  <2> QED
    BY <2>1, <2>2 DEF SysctlInv
<1>4. CASE SysctlReboot
  <2>1. /\ conf' = conf /\ scStep' = "idle"
        /\ scClaim' = IF scClaim = "saved" THEN "done" ELSE scClaim
    BY <1>4 DEF SysctlReboot
  <2>2. scClaim' = "done" /\ ~Overridden' => live' = Wanted
    <3> SUFFICES ASSUME scClaim' = "done", ~Overridden' PROVE live' = Wanted
      OBVIOUS
    <3>1. Persistent(conf) = {Wanted}
      BY <1>0, <1>k, <2>1, SavedIsLast
    <3> QED
      BY <1>4, <3>1 DEF SysctlReboot
  <2> QED
    BY <1>0, <1>k, <2>1, <2>2 DEF SysctlInv
<1>5. CASE UNCHANGED scVars
  BY <1>0, <1>5, <1>k DEF scVars, SysctlInv
<1> QED
  BY <1>1, <1>2, <1>3, <1>4, <1>5 DEF SysctlNext

(* What the invariant says about the probe and about a second run. *)
LEMMA SysctlKeep == ASSUME SysctlInv PROVE SysctlLasts /\ SysctlQuiet
<1>1. SysctlLasts
  BY SavedIsLast DEF SysctlInv, SysctlLasts, SysctlPasses
<1>2. SysctlQuiet
  <2> SUFFICES ASSUME PersistSysctl, scClaim = "done"
               PROVE  conf' = conf \/ conf'[Own] = Persisted(<<>>)
    BY DEF SysctlQuiet
  <2>1. /\ conf \in Seq(Seq(ConfLine)) /\ Saved /\ Own \in 1..Len(conf)
        /\ conf[Own] \in Seq(ConfLine)
    BY ConfShape DEF SysctlInv, Own
  <2>2. Persisted(conf[Own]) = conf[Own]
    BY <2>1, PersistedSaves, Zenon DEF Saved
  <2> HIDE DEF ConfLine
  <2> QED
    BY <2>1, <2>2 DEF PersistSysctl
<1> QED
  BY <1>1, <1>2

-----------------------------------------------------------------------------
HostInv == ServicesInv /\ MountsInv /\ KmodInv /\ SysctlInv

(* A host starts with nothing claimed. *)
LEMMA HostInitial == Init => HostInv
<1> SUFFICES ASSUME Init PROVE HostInv
  OBVIOUS
<1>1. ServicesInv
  BY DEF Init, ServicesInit, ServicesInv, FileStates, ActiveStates
<1>2. MountsInv
  <2>1. CASE MountsInit
    BY <2>1, FstabAssumption, Zenon DEF MountsInit, MountsInv, MountsLasts
  <2>2. CASE mounted = FALSE /\ fstab = <<>> /\ mtStep = "idle" /\ mtClaim = "none"
    <3>1. fstab \in Seq([path : {"here", "elsewhere", "comment"}, opts : OptionLists])
      BY <2>2
    <3> QED
      BY <2>2, <3>1, Zenon DEF MountsInv, MountsLasts
  <2> QED
    BY <2>1, <2>2, Zenon DEF Init
<1>3. KmodInv
  <2>1. CASE KmodInit
    <3>1. Commanded(modprobe)
      BY <2>1, ModprobeAssumption DEF KmodInit, Commanded, ModprobeLine
    <3> QED
      BY <2>1, <3>1 DEF KmodInit, KmodInv
  <2>2. CASE param = "under" /\ modprobe = << <<>>, <<>>, <<>> >> /\ kmClaim = {} /\ unread = FALSE
    <3>1. \A f \in Range(modprobe) : Range(f) = {}
      BY <2>2 DEF Range
    <3>2. modprobe \in Seq(Seq(ModprobeLine)) /\ Len(modprobe) = 3
      <4> HIDE DEF ModprobeLine
      <4> QED
        BY <2>2
    <3>3. Commanded(modprobe)
      BY <3>1, <3>2 DEF Commanded, OwnFile
    <3> QED
      BY <2>2, <3>3, Zenon DEF KmodInv
  <2> QED
    BY <2>1, <2>2, Zenon DEF Init
<1>4. SysctlInv
  <2>1. CASE SysctlInit
    <3>1. conf \in Seq(Seq(ConfLine)) /\ Len(conf) >= Own
      BY <2>1, ConfAssumption, Zenon DEF SysctlInit, ConfLine
    <3> QED
      BY <2>1, <3>1 DEF SysctlInit, SysctlInv
  <2>2. CASE conf = << <<>>, <<>>, <<>> >> /\ scStep = "idle" /\ scClaim = "none"
    <3>1. conf \in Seq(Seq(ConfLine)) /\ Len(conf) = 3
      <4> HIDE DEF ConfLine
      <4> QED
        BY <2>2
    <3> QED
      BY <2>2, <3>1 DEF SysctlInv, Own
  <2> QED
    BY <2>1, <2>2, Zenon DEF Init
<1> QED
  BY <1>1, <1>2, <1>3, <1>4 DEF HostInv

(* A step of the host is a step of one enforcer's part of it. *)
LEMMA HostStep == HostInv /\ [Next]_vars => HostInv'
<1> SUFFICES ASSUME HostInv, [Next]_vars PROVE HostInv'
  OBVIOUS
<1>1. /\ [ServicesNext]_svVars /\ [MountsNext]_mtVars
      /\ [KmodNext]_kmVars /\ [SysctlNext]_scVars
  BY Zenon DEF Next, vars
<1> QED
  BY <1>1, ServicesStep, MountsStep, KmodStep, SysctlStep, Zenon DEF HostInv

(* What an enforcer returned true for shows in the probe of the rule and still *)
(* does after reboots, whatever the files held at first.                       *)
THEOREM LastingCorrect == Spec => []SuccessLasts
<1>1. HostInv => SuccessLasts
  BY ServicesKeep, MountsKeep, KmodKeep, SysctlKeep, Zenon DEF HostInv, SuccessLasts
<1> QED
  BY <1>1, HostInitial, HostStep, PTL DEF Spec

(* The probe of a unit calls it unused only if it is neither enabled nor active. *)
THEOREM UnusedCorrect == Spec => []NotInUseMeansStopped
<1>1. HostInv => NotInUseMeansStopped
  BY ServicesKeep, Zenon DEF HostInv
<1> QED
  BY <1>1, HostInitial, HostStep, PTL DEF Spec

(* An enforcer that runs where its work is done changes no file and no unit. *)
THEOREM RerunCorrect == Spec => RerunChangesNothing
<1> DEFINE Quiet == SysctlQuiet /\ KmodQuiet /\ MountsQuiet /\ ServicesQuiet
<1>1. HostInv /\ [Next]_vars => [Quiet]_vars
  BY ServicesKeep, MountsKeep, KmodKeep, SysctlKeep, Zenon DEF HostInv
<1> QED
  BY <1>1, HostInitial, HostStep, PTL DEF Spec, RerunChangesNothing
=============================================================================
