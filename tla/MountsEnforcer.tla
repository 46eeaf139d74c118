---------------------------- MODULE MountsEnforcer ----------------------------
(* enforcers/mounts.lua and probes/mounts.lua for one mount point and one option *)
(* (noexec, say): remount changes the mounted file system and then every fstab   *)
(* entry of the path.  In an option list the option may be cancelled by its      *)
(* opposite; the later one counts.                                               *)
EXTENDS Naturals, Sequences, Functions

CONSTANTS InitialFstab      \* sequences of entries [path, opts]

OptionLists == Seq({"option", "opposite", "defaults"})

ASSUME FstabAssumption ==
    \A t \in InitialFstab : t \in Seq([path : {"here", "elsewhere", "comment"}, opts : OptionLists])

VARIABLES
    mounted,    \* the mounted file system has the option
    fstab,
    mtStep,     \* where remount is
    mtFailed,   \* the live remount failed
    mtClaim     \* what remount has achieved and nobody else has touched since

mtVars == <<mounted, fstab, mtStep, mtFailed, mtClaim>>

(* "live": only mounted so; "saved": only in fstab; "done": both. *)
MountsInit ==
    /\ mounted \in BOOLEAN /\ fstab \in InitialFstab
    /\ mtStep = "idle" /\ mtFailed = FALSE /\ mtClaim = "none"

Here(t) == {i \in DOMAIN t : t[i].path = "here"}

(* mount -a, and get_mount_info after it: of the entries of a path the last one *)
(* is on top, and of an option and its opposite the later one holds (external). *)
Effective(opts) ==
    \E i \in 1..Len(opts) :
        opts[i] = "option" /\ \A j \in (i + 1)..Len(opts) : opts[j] # "opposite"

-----------------------------------------------------------------------------
(* remount, the live half: mount -o remount may fail. *)
Remount ==
    /\ mtStep = "idle"
    /\ mtStep' = "fstab"
    /\ \/ mounted' = TRUE /\ mtFailed' = FALSE
       \/ mtFailed' = TRUE /\ UNCHANGED mounted
    /\ UNCHANGED <<fstab, mtClaim>>

(* Mutant: the option is added whether or not it is there. *)
AddOptionAgain(t) ==
    [i \in DOMAIN t |->
        IF i \in Here(t) THEN [t[i] EXCEPT !.opts = Append(@, "option")] ELSE t[i]]

(* add_fstab_options, on the file's lines: an option that an entry has is not   *)
(* added again, wherever in the list it stands.                                 *)
AddOption(t) ==
    [i \in DOMAIN t |->
        IF i \in Here(t) /\ "option" \notin Range(t[i].opts)
        THEN [t[i] EXCEPT !.opts = Append(@, "option")] ELSE t[i]]

(* The fstab half: without an entry there is nothing to write; a file that      *)
(* cannot be read or written fails the step, and so does a failed remount.      *)
AddFstabOptions ==
    /\ mtStep = "fstab"
    /\ mtStep' = "idle" /\ mtFailed' = FALSE
    /\ \/ /\ fstab' = AddOption(fstab)
          /\ mtClaim' = IF Here(fstab) = {} THEN (IF mtFailed THEN mtClaim ELSE "live")
                        ELSE IF ~mtFailed THEN "done"
                        ELSE IF mtClaim = "none" THEN "saved" ELSE mtClaim
       \/ UNCHANGED <<fstab, mtClaim>>
    /\ UNCHANGED mounted

MountsOutside ==
    /\ mtStep = "idle"
    /\ \/ mounted' \in BOOLEAN /\ UNCHANGED fstab
       \/ fstab' \in InitialFstab /\ UNCHANGED mounted
    /\ mtClaim' = "none"
    /\ UNCHANGED <<mtStep, mtFailed>>

MountsReboot ==
    /\ mtStep' = "idle" /\ mtFailed' = FALSE
    /\ IF Here(fstab) = {} THEN mounted' \in BOOLEAN
       ELSE \E i \in Here(fstab) :
              (\A k \in Here(fstab) : k <= i) /\ mounted' = Effective(fstab[i].opts)
    /\ mtClaim' = IF mtClaim \in {"saved", "done"} THEN "done" ELSE "none"
    /\ UNCHANGED fstab

MountsNext == Remount \/ AddFstabOptions \/ MountsOutside \/ MountsReboot

-----------------------------------------------------------------------------
(* An entry of the path has the option and, behind it, its opposite. *)
Cancelled == \E i \in Here(fstab) : "option" \in Range(fstab[i].opts) /\ ~Effective(fstab[i].opts)

(* A remount that returned true shows in the probe until somebody else changes  *)
(* the mount; with an fstab entry it survives reboots, even if the live half    *)
(* had failed, unless the entry cancels the option.                             *)
MountsLasts == mtClaim \in {"live", "done"} => mounted \/ (Cancelled /\ mtClaim = "done")

(* Options are not added twice. *)
MountsQuiet == AddFstabOptions /\ mtClaim = "done" => UNCHANGED fstab
=============================================================================
