------------------------------- MODULE RwLock -------------------------------
(***************************************************************************)
(* struct rw_lock of the kernel module: a kernel rwlock_t and a `state`    *)
(* field from which __rwlock_unlock, which is not told how the caller took *)
(* the lock, finds out whether to release a read or a write lock.  The     *)
(* field is shared by all readers and is written outside any other lock.   *)
(***************************************************************************)
EXTENDS FiniteSets

CONSTANT Threads

LockState == {"LS_free", "LS_read", "LS_write"}
PC == {"idle", "read_locked", "reading", "write_locked", "writing", "loaded", "freed"}

VARIABLES
    readers,    \* threads that hold `lock` for reading
    writers,    \* threads that hold `lock` for writing
    state,      \* the state field
    pc,         \* where each thread is in the functions of rwlock.h
    local       \* the copy of `state` that __rwlock_unlock made

lockVars == <<readers, writers, state, pc, local>>

LockInit ==
    /\ readers = {}
    /\ writers = {}
    /\ state = "LS_free"
    /\ pc = [t \in Threads |-> "idle"]
    /\ local = [t \in Threads |-> "LS_free"]

Goto(t, l) == pc' = [pc EXCEPT ![t] = l]

(* read_lock and write_lock of the kernel. *)
ReadLock(t) ==
    /\ pc[t] = "idle"
    /\ writers = {}
    /\ readers' = readers \cup {t}
    /\ Goto(t, "read_locked")
    /\ UNCHANGED <<writers, state, local>>

WriteLock(t) ==
    /\ pc[t] = "idle"
    /\ writers = {}
    /\ readers = {}
    /\ writers' = {t}
    /\ Goto(t, "write_locked")
    /\ UNCHANGED <<readers, state, local>>
(* Mutant: a writer leaves the state of the last reader. *)
StoreStateOfReaders(t) ==
    /\ \/ /\ pc[t] = "read_locked"
          /\ state' = "LS_read"
          /\ Goto(t, "reading")
       \/ /\ pc[t] = "write_locked"
          /\ state' = state
          /\ Goto(t, "writing")
    /\ UNCHANGED <<readers, writers, local>>

(* The store that follows it in __rwlock_lock_read and __rwlock_lock_write. *)
StoreState(t) ==
    /\ \/ /\ pc[t] = "read_locked"
          /\ state' = "LS_read"
          /\ Goto(t, "reading")
       \/ /\ pc[t] = "write_locked"
          /\ state' = "LS_write"
          /\ Goto(t, "writing")
    /\ UNCHANGED <<readers, writers, local>>

(* __rwlock_unlock: load the state, then release what it says is held. *)
LoadState(t) ==
    /\ pc[t] \in {"reading", "writing"}
    /\ local' = [local EXCEPT ![t] = state]
    /\ Goto(t, "loaded")
    /\ UNCHANGED <<readers, writers, state>>
(* Mutant: the branch for readers returns without read_unlock. *)
ReadUnlockForgotten(t) ==
    /\ pc[t] = "loaded"
    /\ local[t] = "LS_read"
    /\ Goto(t, "idle")
    /\ UNCHANGED <<readers, writers, state, local>>

ReadUnlock(t) ==
    /\ pc[t] = "loaded"
    /\ local[t] = "LS_read"
    /\ readers' = readers \ {t}
    /\ Goto(t, "idle")
    /\ UNCHANGED <<writers, state, local>>

FreeState(t) ==
    /\ pc[t] = "loaded"
    /\ local[t] = "LS_write"
    /\ state' = "LS_free"
    /\ Goto(t, "freed")
    /\ UNCHANGED <<readers, writers, local>>

WriteUnlock(t) ==
    /\ pc[t] = "freed"
    /\ writers' = writers \ {t}
    /\ Goto(t, "idle")
    /\ UNCHANGED <<readers, state, local>>

Unlock(t) == LoadState(t) \/ ReadUnlock(t) \/ FreeState(t) \/ WriteUnlock(t)

LockNext == \E t \in Threads : ReadLock(t) \/ WriteLock(t) \/ StoreState(t) \/ Unlock(t)

LockSpec == LockInit /\ [][LockNext]_lockVars

(* A thread inside one of the functions keeps running; whether it ever calls  *)
(* __rwlock_lock_* is its own affair, and rwlock_t may starve a writer.       *)
LockFairness == \A t \in Threads : WF_lockVars(StoreState(t) \/ Unlock(t))

-----------------------------------------------------------------------------
LockTypeOK ==
    /\ readers \subseteq Threads
    /\ writers \subseteq Threads
    /\ state \in LockState
    /\ pc \in [Threads -> PC]
    /\ local \in [Threads -> LockState]

(* A writer is alone in the lock. *)
Exclusive == \A w \in writers : writers = {w} /\ readers = {}

(* __rwlock_unlock releases the mode its caller took: the shared state field  *)
(* always tells it the truth, whatever the other threads do with the lock.    *)
(* A thread that returned from it holds the lock no more.                     *)
(* (The third branch, for LS_free, would return and leave the lock taken.)    *)
UnlockMatchesLock ==
    \A t \in Threads :
        /\ pc[t] = "loaded" => /\ local[t] = "LS_read" <=> t \in readers
                               /\ local[t] = "LS_write" <=> t \in writers
        /\ pc[t] \in {"reading", "writing", "loaded", "freed"} =>
              t \in readers \cup writers
        /\ pc[t] = "idle" => t \notin readers \cup writers

(* A thread that called __rwlock_unlock gets out of the lock. *)
UnlockCompletes ==
    \A t \in Threads : pc[t] = "loaded" ~> t \notin readers \cup writers

-----------------------------------------------------------------------------
(* The inductive invariant: who holds the lock, and what the state is then. *)
HoldsRead(t) == pc[t] \in {"read_locked", "reading"} \/ (pc[t] = "loaded" /\ local[t] = "LS_read")
HoldsWrite(t) == pc[t] \in {"write_locked", "writing", "freed"} \/ (pc[t] = "loaded" /\ local[t] = "LS_write")

LockInv ==
    /\ LockTypeOK
    /\ Exclusive
    /\ \A t \in Threads :
          /\ t \in readers <=> HoldsRead(t)
          /\ t \in writers <=> HoldsWrite(t)
          /\ pc[t] = "reading" => state = "LS_read"
          /\ pc[t] = "writing" => state = "LS_write"
          /\ pc[t] = "loaded" => local[t] # "LS_free"
=============================================================================
