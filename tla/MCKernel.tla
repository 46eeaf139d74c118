------------------------------ MODULE MCKernel ------------------------------
(* The lock and the filters of the kernel module share no state, so the model *)
(* checker looks at one of them at a time.                                    *)
EXTENDS RwLock, KmodFilter

VARIABLE focus

vars == <<focus, lockVars, filterVars>>

Init == focus \in {"lock", "filters"} /\ LockInit /\ FilterInit

Next ==
    /\ UNCHANGED focus
    /\ \/ focus = "lock" /\ LockNext /\ UNCHANGED filterVars
       \/ focus = "filters" /\ FilterNext /\ UNCHANGED lockVars

FairSpec ==
    /\ Init /\ [][Next]_vars
    /\ focus = "lock" => LockFairness
    /\ focus = "filters" => FilterFairness

-----------------------------------------------------------------------------
(* A thread that unlocks gets out of the lock, and rmmod returns once the calls *)
(* in progress do, unless a hook got stuck.                                     *)
KernelProgress == UnlockCompletes /\ UnloadCompletes
=============================================================================
