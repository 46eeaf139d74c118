---------------------------- MODULE KernelProofs ----------------------------
(* Proofs about struct rw_lock, for any set of threads, and about the life of *)
(* the kernel module, for any number of filters and any finite set of threads. *)
EXTENDS RwLock, KmodFilter, TLAPS

(* Every step of the functions of rwlock.h keeps the invariant. *)
LEMMA LockInvStep == LockInv /\ [LockNext]_lockVars => LockInv'
<1> SUFFICES ASSUME LockInv, [LockNext]_lockVars PROVE LockInv'
  OBVIOUS
<1> USE DEF LockInv, LockTypeOK, Exclusive, HoldsRead, HoldsWrite, LockState, PC, Goto
<1>1. ASSUME NEW t \in Threads, ReadLock(t) PROVE LockInv'
  BY <1>1 DEF ReadLock
<1>2. ASSUME NEW t \in Threads, WriteLock(t) PROVE LockInv'
  BY <1>2 DEF WriteLock
<1>3. ASSUME NEW t \in Threads, StoreState(t) PROVE LockInv'
  <2>1. CASE pc[t] = "read_locked"
    BY <1>3, <2>1 DEF StoreState
  <2>2. CASE pc[t] = "write_locked"
    BY <1>3, <2>2 DEF StoreState
  <2> QED
    BY <1>3, <2>1, <2>2 DEF StoreState
<1>4. ASSUME NEW t \in Threads, LoadState(t) PROVE LockInv'
  BY <1>4 DEF LoadState
<1>5. ASSUME NEW t \in Threads, ReadUnlock(t) PROVE LockInv'
  BY <1>5 DEF ReadUnlock
<1>6. ASSUME NEW t \in Threads, FreeState(t) PROVE LockInv'
  BY <1>6 DEF FreeState
<1>7. ASSUME NEW t \in Threads, WriteUnlock(t) PROVE LockInv'
  BY <1>7 DEF WriteUnlock
<1>8. CASE UNCHANGED lockVars
  BY <1>8 DEF lockVars
<1> QED
  BY <1>1, <1>2, <1>3, <1>4, <1>5, <1>6, <1>7, <1>8 DEF LockNext, Unlock

(* The holders of the lock and its state field agree, at every moment and for *)
(* any number of threads.                                                     *)
THEOREM LockInvariant == LockSpec => []LockInv
<1>1. LockInit => LockInv
  BY DEF LockInit, LockInv, LockTypeOK, Exclusive, HoldsRead, HoldsWrite, LockState, PC
<1> QED
  BY <1>1, LockInvStep, PTL DEF LockSpec

(* __rwlock_unlock always releases the mode its caller holds. *)
THEOREM UnlockCorrect == LockSpec => []UnlockMatchesLock
<1>1. LockInv => UnlockMatchesLock
  BY DEF LockInv, LockTypeOK, LockState, HoldsRead, HoldsWrite, UnlockMatchesLock
<1> QED
  BY <1>1, LockInvariant, PTL

-----------------------------------------------------------------------------
(* The kernel module: a watchdog counts the threads in its wrapper. *)
INSTANCE FiniteSetTheorems

Inside(f) == {t \in Callers : tpc[t] = "inside" /\ tflt[t] = f}

FilterTypeOK ==
    /\ phase \in {"unloaded", "fs", "misc", "hook", "live", "unhook", "sanity",
                  "grace", "freed_hooked"}
    /\ hooked \subseteq Filters /\ error \subseteq Filters /\ leftover \subseteq Filters
    /\ k \in 1..(NumFilters + 1)
    /\ inuse \in Nat
    /\ watchdog \in [Filters -> Nat]
    /\ tpc \in [Callers -> {"out", "redirected", "inside", "returning"}]
    /\ tflt \in [Callers -> Filters]

(* The watchdog of a filter counts the threads inside its wrapper, and only a *)
(* hooked filter has threads on the way to it.                                *)
CountInv ==
    /\ \A f \in Filters : watchdog[f] = Cardinality(Inside(f))
    /\ \A t \in Callers : tpc[t] = "redirected" => tflt[t] \in hooked

(* Which filters may be hooked while kmain_init and kmain_exit go through them. *)
HookInv ==
    /\ hooked \cap error = {}
    /\ phase \in {"unloaded", "fs", "misc"} => hooked = {} /\ error = {}
    /\ phase \in {"unloaded", "fs", "misc", "hook", "live"} => leftover = {}
    /\ phase = "hook" => \A f \in hooked \cup error : f < k
    /\ phase = "unhook" => \A f \in hooked : f >= k \/ f \in leftover
    /\ phase \in {"sanity", "grace", "freed_hooked"} => hooked \subseteq leftover

(* Nothing is set up before its turn, and the device is closed during the exit. *)
SetUpInv ==
    /\ phase = "unloaded" => ~ctor /\ fs = {}
    /\ phase \in {"unloaded", "fs", "misc"} => ~misc
    /\ phase \notin {"hook", "live"} => ~opens

(* What the sum of the watchdogs so far says, when every hook is gone. *)
SanityInv ==
    /\ phase = "sanity" /\ leftover = {} /\ inuse = 0 =>
          \A t \in Callers : tpc[t] = "inside" => tflt[t] >= k
    /\ phase \in {"grace", "unloaded", "fs", "misc"} /\ leftover = {} =>
          \A t \in Callers : tpc[t] \in {"out", "returning"}

FilterInv == FilterTypeOK /\ CountInv /\ HookInv /\ SetUpInv /\ SanityInv

USE NumFiltersAssumption, CallersAssumption DEF Filters

(* A step of kmain_init or kmain_exit leaves the threads and their counts. *)
LEMMA ModuleKeepsTypes == FilterTypeOK /\ ModuleStep => FilterTypeOK'
<1> SUFFICES ASSUME FilterTypeOK, ModuleStep PROVE FilterTypeOK'
  OBVIOUS
<1> USE DEF FilterTypeOK, threadVars
<1>1. CASE CtorInit
  BY <1>1 DEF CtorInit
<1>2. CASE SecurityfsInit
  BY <1>2 DEF SecurityfsInit
<1>3. CASE MiscRegister
  BY <1>3 DEF MiscRegister
<1>4. CASE SetFtrace
  <2>1. k \in Filters /\ k + 1 \in 1..(NumFilters + 1)
    BY <1>4 DEF SetFtrace
  <2>2. hooked' \subseteq Filters /\ error' \subseteq Filters
    BY <1>4, <2>1 DEF SetFtrace
  <2> QED
    BY <1>4, <2>1, <2>2 DEF SetFtrace
<1>5. CASE HookDone
  BY <1>5 DEF HookDone
<1>6. CASE OpenOrRelease
  BY <1>6 DEF OpenOrRelease
<1>7. CASE BeginExit
  BY <1>7 DEF BeginExit
<1>8. CASE RemoveFtrace
  <2>1. k \in Filters /\ k + 1 \in 1..(NumFilters + 1)
    BY <1>8 DEF RemoveFtrace
  <2>2. hooked' \subseteq Filters /\ leftover' \subseteq Filters
    BY <1>8, <2>1 DEF RemoveFtrace
  <2> QED
    BY <1>8, <2>1, <2>2 DEF RemoveFtrace
<1>9. CASE BeginSanity
  BY <1>9 DEF BeginSanity
<1>10. CASE AddWatchdog
  <2>1. k \in Filters /\ k + 1 \in 1..(NumFilters + 1) /\ watchdog[k] \in Nat
    BY <1>10 DEF AddWatchdog
  <2>2. inuse' \in Nat /\ k' \in 1..(NumFilters + 1)
    BY <1>10, <2>1 DEF AddWatchdog
  <2> QED
    BY <1>10, <2>2 DEF AddWatchdog
<1>11. CASE SanityAgain
  BY <1>11 DEF SanityAgain
<1>12. CASE SanityDone
  BY <1>12 DEF SanityDone
<1>13. CASE ExitTail
  BY <1>13 DEF ExitTail
<1> QED
  BY <1>1, <1>2, <1>3, <1>4, <1>5, <1>6, <1>7, <1>8, <1>9, <1>10, <1>11, <1>12, <1>13
  DEF ModuleStep

(* The steps of a thread keep the types. *)
LEMMA ThreadKeepsTypes ==
    ASSUME FilterTypeOK, CountInv, NEW t \in Callers, Redirect(t) \/ ThreadStep(t)
    PROVE  FilterTypeOK'
<1> USE DEF FilterTypeOK, moduleVars
<1>1. CASE Redirect(t)
  BY <1>1 DEF Redirect
<1>2. CASE EnterWrapper(t)
  BY <1>2 DEF EnterWrapper
<1>3. CASE LeaveWrapper(t)
  <2>1. t \in Inside(tflt[t]) /\ IsFiniteSet(Inside(tflt[t]))
    BY <1>3, FS_Subset DEF LeaveWrapper, Inside
  <2>2. Cardinality(Inside(tflt[t])) \in Nat /\ Cardinality(Inside(tflt[t])) # 0
    BY <2>1, FS_CardinalityType, FS_EmptySet
  <2>3. watchdog[tflt[t]] \in Nat \ {0}
    BY <2>2 DEF CountInv
  <2>4. watchdog' \in [Filters -> Nat]
    BY <1>3, <2>3 DEF LeaveWrapper
  <2>5. tpc' \in [Callers -> {"out", "redirected", "inside", "returning"}]
    BY <1>3 DEF LeaveWrapper
  <2> QED
    BY <1>3, <2>4, <2>5 DEF LeaveWrapper
<1>4. CASE Return(t)
  BY <1>4 DEF Return
<1> QED
  BY <1>1, <1>2, <1>3, <1>4 DEF ThreadStep

(* Entering and leaving a wrapper changes its watchdog with the set of the     *)
(* threads inside.                                                             *)
LEMMA ThreadKeepsCounts ==
    ASSUME FilterTypeOK, CountInv, NEW t \in Callers, Redirect(t) \/ ThreadStep(t)
    PROVE  \A f \in Filters : watchdog'[f] = Cardinality(Inside(f)')
<1> USE DEF FilterTypeOK, CountInv
<1> SUFFICES ASSUME NEW f \in Filters PROVE watchdog'[f] = Cardinality(Inside(f)')
  OBVIOUS
<1>0. IsFiniteSet(Inside(f)) /\ watchdog[f] = Cardinality(Inside(f)) /\ Cardinality(Inside(f)) \in Nat
  <2>1. Inside(f) \subseteq Callers
    BY DEF Inside
  <2> QED
    BY <2>1, FS_Subset, FS_CardinalityType
<1>1. CASE Redirect(t)
  <2>1. Inside(f)' = Inside(f)
    BY <1>1 DEF Redirect, Inside
  <2> QED
    BY <1>0, <1>1, <2>1 DEF Redirect
<1>2. CASE EnterWrapper(t)
  <2>1. CASE f = tflt[t]
    <3>1. Inside(f)' = Inside(f) \cup {t} /\ t \notin Inside(f)
      BY <1>2, <2>1 DEF EnterWrapper, Inside
    <3>2. Cardinality(Inside(f)') = Cardinality(Inside(f)) + 1
      <4>1. Cardinality(Inside(f) \cup {t}) = Cardinality(Inside(f)) + 1
        BY <1>0, <3>1, FS_AddElement
      <4> QED
        BY <3>1, <4>1
    <3> QED
      BY <1>0, <1>2, <2>1, <3>2 DEF EnterWrapper
  <2>2. CASE f # tflt[t]
    <3>1. Inside(f)' = Inside(f)
      BY <1>2, <2>2 DEF EnterWrapper, Inside
    <3> QED
      BY <1>0, <1>2, <2>2, <3>1 DEF EnterWrapper
  <2> QED
    BY <2>1, <2>2
<1>3. CASE LeaveWrapper(t)
  <2>1. CASE f = tflt[t]
    <3>1. Inside(f)' = Inside(f) \ {t} /\ t \in Inside(f)
      BY <1>3, <2>1 DEF LeaveWrapper, Inside
    <3>2. Cardinality(Inside(f)') = Cardinality(Inside(f)) - 1
      <4>1. Cardinality(Inside(f) \ {t}) = Cardinality(Inside(f)) - 1
        BY <1>0, <3>1, FS_RemoveElement
      <4> QED
        BY <3>1, <4>1
    <3> QED
      BY <1>0, <1>3, <2>1, <3>2 DEF LeaveWrapper
  <2>2. CASE f # tflt[t]
    <3>1. Inside(f)' = Inside(f)
      BY <1>3, <2>2 DEF LeaveWrapper, Inside
    <3> QED
      BY <1>0, <1>3, <2>2, <3>1 DEF LeaveWrapper
  <2> QED
    BY <2>1, <2>2
<1>4. CASE Return(t)
  <2>1. Inside(f)' = Inside(f)
    BY <1>4 DEF Return, Inside
  <2> QED
    BY <1>0, <1>4, <2>1 DEF Return
<1> QED
  BY <1>1, <1>2, <1>3, <1>4 DEF ThreadStep

(* The module itself never changes a count; a hook goes only when no thread is *)
(* on the way through it.                                                      *)
LEMMA ModuleKeepsCounts == FilterTypeOK /\ CountInv /\ ModuleStep => CountInv'
<1> SUFFICES ASSUME FilterTypeOK, CountInv, ModuleStep PROVE CountInv'
  OBVIOUS
<1>1. UNCHANGED threadVars
  BY DEF ModuleStep, CtorInit, SecurityfsInit, MiscRegister, SetFtrace, HookDone, OpenOrRelease,
         BeginExit, RemoveFtrace, BeginSanity, AddWatchdog, SanityAgain, SanityDone, ExitTail
<1>2. \A f \in Filters : Inside(f)' = Inside(f)
  BY <1>1 DEF Inside, threadVars
<1>3. \A f \in Filters : watchdog'[f] = Cardinality(Inside(f)')
  BY <1>1, <1>2 DEF CountInv, threadVars
<1>4. ASSUME NEW t \in Callers, tpc[t] = "redirected" PROVE tflt[t] \in hooked'
  <2>1. tflt[t] \in hooked /\ tflt[t] \in Filters
    BY <1>4 DEF CountInv, FilterTypeOK
  <2>2. CASE RemoveFtrace
    BY <1>4, <2>1, <2>2 DEF RemoveFtrace
  <2>3. CASE ~RemoveFtrace
    BY <2>1, <2>3 DEF ModuleStep, CtorInit, SecurityfsInit, MiscRegister, SetFtrace, HookDone,
         OpenOrRelease, BeginExit, BeginSanity, AddWatchdog, SanityAgain, SanityDone, ExitTail
  <2> QED
    BY <2>2, <2>3
<1> QED
  BY <1>1, <1>3, <1>4 DEF CountInv, threadVars

(* kmain_init and kmain_exit go through the filters in order. *)
LEMMA ModuleKeepsHooks == FilterTypeOK /\ HookInv /\ ModuleStep => HookInv'
<1> SUFFICES ASSUME FilterTypeOK, HookInv, ModuleStep PROVE HookInv'
  OBVIOUS
<1> USE DEF FilterTypeOK, HookInv
<1>1. CASE SetFtrace
  <2>1. k \notin hooked \cup error /\ hooked' \cup error' = hooked \cup error \cup {k}
    BY <1>1 DEF SetFtrace
  <2>2. hooked' \cap error' = {}
    <3>1. CASE hooked' = hooked \cup {k} /\ error' = error
      BY <2>1, <3>1
    <3>2. CASE hooked' = hooked /\ error' = error \cup {k}
      BY <2>1, <3>2
    <3> QED
      BY <1>1, <3>1, <3>2 DEF SetFtrace
  <2>3. ASSUME NEW f \in hooked' \cup error' PROVE f < k'
    <3>0. k \in Filters /\ \A g \in hooked \cup error : g \in Filters /\ g < k
      BY <1>1 DEF SetFtrace
    <3>1. f \in Filters /\ (f < k \/ f = k)
      BY <2>1, <3>0, <2>3
    <3> QED
      BY <1>1, <3>1 DEF SetFtrace
  <2> QED
    BY <1>1, <2>2, <2>3 DEF SetFtrace
<1>2. CASE RemoveFtrace
  <2>1. hooked' \subseteq hooked /\ leftover \subseteq leftover'
    BY <1>2 DEF RemoveFtrace
  <2>2. k \in hooked' => k \in leftover'
    BY <1>2 DEF RemoveFtrace
  <2>3. \A f \in hooked' : f >= k' \/ f \in leftover'
    BY <1>2, <2>1, <2>2 DEF RemoveFtrace
  <2> QED
    BY <1>2, <2>1, <2>3 DEF RemoveFtrace
<1>3. CASE CtorInit \/ SecurityfsInit \/ MiscRegister \/ HookDone \/ OpenOrRelease
  BY <1>3 DEF CtorInit, SecurityfsInit, MiscRegister, HookDone, OpenOrRelease
<1>4. CASE BeginExit
  BY <1>4 DEF BeginExit
<1>5. CASE BeginSanity
  BY <1>5 DEF BeginSanity
<1>6. CASE AddWatchdog \/ SanityAgain \/ SanityDone
  BY <1>6 DEF AddWatchdog, SanityAgain, SanityDone
<1>7. CASE ExitTail
  BY <1>7 DEF ExitTail
<1> QED
  BY <1>1, <1>2, <1>3, <1>4, <1>5, <1>6, <1>7 DEF ModuleStep

(* Each part is set up in its turn, and taken down on every way back. *)
LEMMA ModuleKeepsSetUp == SetUpInv /\ ModuleStep => SetUpInv'
<1> SUFFICES ASSUME SetUpInv, ModuleStep PROVE SetUpInv'
  OBVIOUS
<1> USE DEF SetUpInv
<1>1. CASE CtorInit \/ SecurityfsInit \/ MiscRegister
  BY <1>1 DEF CtorInit, SecurityfsInit, MiscRegister
<1>2. CASE SetFtrace \/ HookDone \/ OpenOrRelease
  BY <1>2 DEF SetFtrace, HookDone, OpenOrRelease
<1>3. CASE BeginExit \/ RemoveFtrace \/ BeginSanity
  BY <1>3 DEF BeginExit, RemoveFtrace, BeginSanity
<1>4. CASE AddWatchdog \/ SanityAgain \/ SanityDone \/ ExitTail
  BY <1>4 DEF AddWatchdog, SanityAgain, SanityDone, ExitTail
<1> QED
  BY <1>1, <1>2, <1>3, <1>4 DEF ModuleStep

(* With every hook gone nobody enters a wrapper any more, so that a watchdog  *)
(* that was read as zero stays zero; when the sum is zero the module is empty. *)
LEMMA ModuleKeepsSanity ==
    FilterTypeOK /\ CountInv /\ HookInv /\ SanityInv /\ ModuleStep => SanityInv'
<1> SUFFICES ASSUME FilterTypeOK, CountInv, HookInv, SanityInv, ModuleStep PROVE SanityInv'
  OBVIOUS
<1> USE DEF FilterTypeOK, threadVars, SanityInv
<1>1. CASE AddWatchdog
  <2>1. ASSUME leftover = {}, inuse' = 0, NEW t \in Callers, tpc[t] = "inside"
        PROVE  tflt[t] >= k'
    <3>1. inuse = 0 /\ watchdog[k] = 0 /\ k \in Filters
      BY <1>1, <2>1 DEF AddWatchdog
    <3>2. Inside(k) = {}
      <4>1. Inside(k) \subseteq Callers
        BY DEF Inside
      <4> QED
        BY <3>1, <4>1, FS_Subset, FS_EmptySet DEF CountInv
    <3>3. tflt[t] >= k /\ tflt[t] # k
      BY <1>1, <2>1, <3>1, <3>2 DEF AddWatchdog, Inside
    <3> QED
      BY <1>1, <3>1, <3>3 DEF AddWatchdog
  <2> QED
    BY <1>1, <2>1 DEF AddWatchdog
<1>2. CASE BeginSanity \/ SanityAgain
  BY <1>2 DEF BeginSanity, SanityAgain
<1>3. CASE SanityDone
  <2>1. ASSUME leftover = {}, NEW t \in Callers PROVE tpc[t] \in {"out", "returning"}
    <3>1. tpc[t] # "inside"
      BY <1>3, <2>1 DEF SanityDone
    <3>2. tpc[t] # "redirected"
      BY <1>3, <2>1 DEF SanityDone, CountInv, HookInv
    <3> QED
      BY <2>1, <3>1, <3>2
  <2> QED
    BY <1>3, <2>1 DEF SanityDone
<1>4. CASE ExitTail
  BY <1>4 DEF ExitTail
<1>5. CASE CtorInit \/ SecurityfsInit \/ MiscRegister
  BY <1>5 DEF CtorInit, SecurityfsInit, MiscRegister
<1>6. CASE SetFtrace \/ HookDone \/ OpenOrRelease \/ BeginExit \/ RemoveFtrace
  BY <1>6 DEF SetFtrace, HookDone, OpenOrRelease, BeginExit, RemoveFtrace
<1> QED
  BY <1>1, <1>2, <1>3, <1>4, <1>5, <1>6 DEF ModuleStep

(* A thread is redirected by a hook only, so it enters no wrapper once the     *)
(* hooks are gone.                                                             *)
LEMMA ThreadKeepsSanity ==
    ASSUME FilterTypeOK, CountInv, HookInv, SanityInv,
           NEW t \in Callers, Redirect(t) \/ ThreadStep(t)
    PROVE  SanityInv'
<1> USE DEF FilterTypeOK, moduleVars, SanityInv
<1>1. CASE Redirect(t)
  BY <1>1 DEF Redirect, HookInv
<1>2. CASE EnterWrapper(t)
  BY <1>2 DEF EnterWrapper, CountInv, HookInv
<1>3. CASE LeaveWrapper(t)
  BY <1>3 DEF LeaveWrapper
<1>4. CASE Return(t)
  BY <1>4 DEF Return
<1> QED
  BY <1>1, <1>2, <1>3, <1>4 DEF ThreadStep

(* Every step of the module and of a thread keeps the invariant. *)
LEMMA FilterInvStep == FilterInv /\ [FilterNext]_filterVars => FilterInv'
<1> SUFFICES ASSUME FilterInv, [FilterNext]_filterVars PROVE FilterInv'
  OBVIOUS
<1>1. CASE ModuleStep
  BY <1>1, ModuleKeepsTypes, ModuleKeepsCounts, ModuleKeepsHooks, ModuleKeepsSetUp,
     ModuleKeepsSanity DEF FilterInv
<1>2. ASSUME NEW t \in Callers, Redirect(t) \/ ThreadStep(t) PROVE FilterInv'
  <2>1. UNCHANGED moduleVars
    BY <1>2 DEF Redirect, ThreadStep, EnterWrapper, LeaveWrapper, Return
  <2>2. HookInv' /\ SetUpInv'
    BY <2>1 DEF FilterInv, HookInv, SetUpInv, moduleVars
  <2>3. FilterTypeOK' /\ SanityInv'
    BY <1>2, ThreadKeepsTypes, ThreadKeepsSanity DEF FilterInv
  <2>4. ASSUME NEW s \in Callers, tpc'[s] = "redirected" PROVE tflt'[s] \in hooked'
    BY <1>2, <2>1, <2>4 DEF FilterInv, FilterTypeOK, CountInv, moduleVars, Redirect, ThreadStep,
       EnterWrapper, LeaveWrapper, Return
  <2>5. CountInv'
    BY <1>2, <2>4, ThreadKeepsCounts DEF FilterInv, CountInv
  <2> QED
    BY <2>2, <2>3, <2>5 DEF FilterInv
<1>3. CASE UNCHANGED filterVars
  <2>1. UNCHANGED moduleVars /\ UNCHANGED threadVars
    BY <1>3 DEF filterVars
  <2>2. FilterTypeOK' /\ HookInv' /\ SetUpInv' /\ SanityInv'
    BY <2>1 DEF FilterInv, FilterTypeOK, HookInv, SetUpInv, SanityInv, moduleVars, threadVars
  <2>3. \A f \in Filters : Inside(f)' = Inside(f)
    BY <2>1 DEF Inside, threadVars
  <2>4. CountInv'
    BY <2>1, <2>3 DEF FilterInv, CountInv, moduleVars, threadVars
  <2> QED
    BY <2>2, <2>4 DEF FilterInv
<1> QED
  BY <1>1, <1>2, <1>3 DEF FilterNext

(* The watchdogs count the threads inside the wrappers and the hooks follow    *)
(* the loops of filter_hook and filter_unhook, for any number of filters and   *)
(* threads.                                                                    *)
THEOREM FilterInvariant == FilterSpec => []FilterInv
<1>1. FilterInit => FilterInv
  <2> SUFFICES ASSUME FilterInit PROVE FilterInv
    OBVIOUS
  <2>1. FilterTypeOK /\ HookInv /\ SetUpInv /\ SanityInv
    BY DEF FilterInit, FilterTypeOK, HookInv, SetUpInv, SanityInv
  <2>2. \A f \in Filters : Inside(f) = {}
    BY DEF FilterInit, Inside
  <2>3. CountInv
    BY <2>2, FS_EmptySet DEF FilterInit, CountInv
  <2> QED
    BY <2>1, <2>3 DEF FilterInv
<1> QED
  BY <1>1, FilterInvStep, PTL DEF FilterSpec

(* The code that kmain_exit or a failed kmain_init gives back is run at most by *)
(* threads that are past atomic_dec, which filter_sanity does not wait for.     *)
THEOREM FreedCodeCorrect == FilterSpec => []OnlyReturnsInFreedCode
<1>1. FilterInv => OnlyReturnsInFreedCode
  BY DEF FilterInv, SanityInv, OnlyReturnsInFreedCode
<1> QED
  BY <1>1, FilterInvariant, PTL

(* A failed kmain_init and a finished kmain_exit leave nothing behind. *)
THEOREM UnloadCorrect == FilterSpec => []UnloadedLeavesNothing
<1>1. FilterInv => UnloadedLeavesNothing
  BY DEF FilterInv, HookInv, SetUpInv, UnloadedLeavesNothing
<1> QED
  BY <1>1, FilterInvariant, PTL
=============================================================================
