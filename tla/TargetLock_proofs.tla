-------------------------- MODULE TargetLock_proofs --------------------------
(***************************************************************************)
(* Proofs about target_lock, for any number of threads and processes.      *)
(***************************************************************************)
EXTENDS TargetLock, TLAPS

(***************************************************************************)
(* MutualExclusion is not inductive: a thread that has just dropped its    *)
(* held entry still owns the flock until LOCK_UN, and the RLock until the  *)
(* with block ends.  LockInv ties every place to the locks owned there,    *)
(* and every owned lock to a place that will release it.                   *)
(***************************************************************************)
FlockInv ==
    /\ \A t \in Threads : held[t] => flock = t /\ pc[t] \in {"waitRLock", "checkHeld", "body"}
    /\ \A t \in Threads : pc[t] = "body" => held[t]
    /\ \A t \in Threads : pc[t] = "unlocking" => flock = t
    /\ \A t \in Threads : flock = t => held[t] \/ pc[t] = "unlocking"

RLockInv ==
    /\ \A t \in Threads :
         held[t] \/ pc[t] \in {"checkHeld", "waitFlock", "unlocking", "leaving"}
            => RLockOf(t).owner = t
    /\ \A t \in Threads : ~held[t] /\ RLockOf(t).owner = t => RLockOf(t).count = 1
    /\ \A t \in Threads : RLockOf(t).owner = t => RLockOf(t).count >= 1
    /\ \A t \in Threads : RLockOf(t).owner = t => held[t] \/ pc[t] \notin {"out", "waitRLock"}
    /\ \A p \in Processes : rlock[p].owner = NoThread => rlock[p].count = 0

LockInv == TypeOK /\ FlockInv /\ RLockInv

USE ConstantsAssumption

\* What one release of an owned RLock leaves behind.
LEMMA ReleaseTyped ==
    ASSUME TypeOK, NEW t \in Threads, RLockOf(t).owner = t, RLockOf(t).count >= 1
    PROVE  RLockReleased(t) \in [Processes -> [owner : Threads \cup {NoThread}, count : Nat]]
BY DEF TypeOK, RLockReleased, RLockOf, Free

LEMMA InitLockInv == Init => LockInv
BY DEF Init, LockInv, TypeOK, FlockInv, RLockInv, Places, RLockOf, Free

\* Every step of every thread, and the death of a process, keeps LockInv.
LEMMA NextLockInv == LockInv /\ [Next]_vars => LockInv'
<1> SUFFICES ASSUME LockInv, [Next]_vars PROVE LockInv'
    OBVIOUS
<1> USE DEF LockInv, TypeOK, Places, RLockOf, Free
<1>1. ASSUME NEW t \in Threads, Enter(t) PROVE LockInv'
    BY <1>1 DEF Enter, FlockInv, RLockInv
<1>2. ASSUME NEW t \in Threads, AcquireRLock(t) PROVE LockInv'
    BY <1>2 DEF AcquireRLock, CanTakeRLock, RLockTaken, FlockInv, RLockInv
<1>3. ASSUME NEW t \in Threads, EnterNested(t) PROVE LockInv'
    BY <1>3 DEF EnterNested, FlockInv, RLockInv
<1>4. ASSUME NEW t \in Threads, OpenSidecar(t) PROVE LockInv'
    BY <1>4 DEF OpenSidecar, FlockInv, RLockInv
<1>5. ASSUME NEW t \in Threads, AcquireFlock(t) PROVE LockInv'
    BY <1>5 DEF AcquireFlock, FlockInv, RLockInv
<1>6. ASSUME NEW t \in Threads, EntryFails(t) PROVE LockInv'
    BY <1>6 DEF EntryFails, RLockReleased, FlockInv, RLockInv
<1>7. ASSUME NEW t \in Threads, LeaveNested(t) PROVE LockInv'
    BY <1>7 DEF LeaveNested, RLockReleased, FlockInv, RLockInv
<1>8. ASSUME NEW t \in Threads, LeaveOutermost(t) PROVE LockInv'
    BY <1>8 DEF LeaveOutermost, FlockInv, RLockInv
<1>9. ASSUME NEW t \in Threads, ReleaseFlock(t) PROVE LockInv'
    BY <1>9 DEF ReleaseFlock, FlockInv, RLockInv
<1>10. ASSUME NEW t \in Threads, ReleaseRLock(t) PROVE LockInv'
    BY <1>10 DEF ReleaseRLock, RLockReleased, FlockInv, RLockInv
<1>11. ASSUME NEW p \in Processes, Crash(p) PROVE LockInv'
    <2>1. TypeOK'
        BY <1>11 DEF Crash
    <2>2. FlockInv'
        BY <1>11 DEF Crash, FlockInv
    <2>3. RLockInv'
        BY <1>11 DEF Crash, RLockInv
    <2>4. QED
        BY <2>1, <2>2, <2>3
<1>12. CASE UNCHANGED vars
    BY <1>12 DEF vars, FlockInv, RLockInv
<1>13. QED
    BY <1>1, <1>2, <1>3, <1>4, <1>5, <1>6, <1>7, <1>8, <1>9, <1>10, <1>11, <1>12
       DEF Next, Step

LEMMA LockInvariant == Spec => []LockInv
BY InitLockInv, NextLockInv, PTL DEF Spec

(***************************************************************************)
(* At most one thread is inside the target, whoever nests, fails or dies.  *)
(***************************************************************************)
THEOREM TargetLockExcludes == Spec => []MutualExclusion
<1>1. LockInv => MutualExclusion
    BY DEF LockInv, FlockInv, MutualExclusion, Inside
<1>2. QED
    BY <1>1, LockInvariant, PTL

(***************************************************************************)
(* held, the flock and the reentrant locks of target_lock keep their       *)
(* shape; above all no RLock is ever counted below zero: whoever leaves a  *)
(* level has entered it.                                                   *)
(***************************************************************************)
THEOREM TargetLockTyped == Spec => []TypeOK
<1>1. LockInv => TypeOK
    BY DEF LockInv
<1>2. QED
    BY <1>1, LockInvariant, PTL

(***************************************************************************)
(* Whoever is inside target_lock owns both layers, at every nesting level. *)
(***************************************************************************)
THEOREM InsidersOwnBothLocks == Spec => []InsideOwnsLocks
<1>1. LockInv => InsideOwnsLocks
    BY DEF LockInv, FlockInv, RLockInv, InsideOwnsLocks, Inside, RLockOf
<1>2. QED
    BY <1>1, LockInvariant, PTL

(***************************************************************************)
(* No thread waits in target_lock for a flock that is its own: the check   *)
(* of the held entry comes before the second open of the sidecar.          *)
(***************************************************************************)
THEOREM TargetLockNests == Spec => []NoSelfDeadlock
<1>1. LockInv => NoSelfDeadlock
    BY DEF LockInv, FlockInv, RLockInv, NoSelfDeadlock, RLockOf
<1>2. QED
    BY <1>1, LockInvariant, PTL

-----------------------------------------------------------------------------
(* Refinement *)

\* Owner is the one thread inside, when there is one: before and after a step.
LEMMA OwnerInside ==
    ASSUME LockInv, NEW t \in Threads, held[t]
    PROVE  Owner = t
BY DEF LockInv, FlockInv, Owner

LEMMA OwnerInsideNext ==
    ASSUME LockInv', NEW t \in Threads, held'[t]
    PROVE  Owner' = t
BY DEF LockInv, FlockInv, Owner

LEMMA OwnerFree ==
    ASSUME \A t \in Threads : ~held[t]
    PROVE  Owner = NoThread
BY DEF Owner

LEMMA OwnerFreeNext ==
    ASSUME \A t \in Threads : ~held'[t]
    PROVE  Owner' = NoThread
BY DEF Owner

\* A step that leaves held alone does not change the owner.
LEMMA OwnerUnchanged == UNCHANGED held => UNCHANGED Owner
BY DEF Owner

(***************************************************************************)
(* The layered lock implements the single lock of module Mutex: granting   *)
(* the flock is Acquire, leaving the outermost block (or dying inside) is  *)
(* Release, everything else stutters.                                      *)
(***************************************************************************)
THEOREM TargetLockImplementsMutex == Spec => ImplementsMutex
<1>1. Init => Abstract!Init
    BY OwnerFree DEF Init, Abstract!Init
<1>2. LockInv /\ [Next]_vars => [Abstract!Next]_Owner
    <2> SUFFICES ASSUME LockInv, [Next]_vars
                 PROVE  [Abstract!Next]_Owner
        OBVIOUS
    <2>1. LockInv'
        BY NextLockInv
    <2>2. ASSUME NEW t \in Threads, AcquireFlock(t)
          PROVE  [Abstract!Next]_Owner
        <3>1. \A u \in Threads : ~held[u]
            BY <2>2 DEF AcquireFlock, LockInv, FlockInv, TypeOK
        <3>2. held'[t]
            BY <2>2 DEF AcquireFlock, LockInv, TypeOK
        <3>3. Owner = NoThread /\ Owner' = t
            BY <3>1, <3>2, <2>1, OwnerFree, OwnerInsideNext
        <3>4. QED
            BY <3>3 DEF Abstract!Next, Abstract!Acquire
    <2>3. ASSUME NEW t \in Threads, LeaveOutermost(t)
          PROVE  [Abstract!Next]_Owner
        <3>1. held[t] /\ \A u \in Threads : ~held'[u]
            BY <2>3 DEF LeaveOutermost, LockInv, FlockInv, TypeOK
        <3>2. Owner = t /\ Owner' = NoThread
            BY <3>1, OwnerInside, OwnerFreeNext
        <3>3. QED
            BY <3>2 DEF Abstract!Next, Abstract!Release
    <2>4. ASSUME NEW p \in Processes, Crash(p)
          PROVE  [Abstract!Next]_Owner
        <3>1. CASE \E t \in Threads : held[t] /\ ProcessOf[t] = p
            <4>1. PICK t \in Threads : held[t] /\ ProcessOf[t] = p
                BY <3>1
            <4>2. \A u \in Threads : ~held'[u]
                BY <4>1, <2>4 DEF Crash, LockInv, FlockInv, TypeOK
            <4>3. Owner = t /\ Owner' = NoThread
                BY <4>1, <4>2, OwnerInside, OwnerFreeNext
            <4>4. QED
                BY <4>3 DEF Abstract!Next, Abstract!Release
        <3>2. CASE ~\E t \in Threads : held[t] /\ ProcessOf[t] = p
            <4>1. held' = held
                BY <3>2, <2>4 DEF Crash, LockInv, TypeOK
            <4>2. QED
                BY <4>1, OwnerUnchanged
        <3>3. QED
            BY <3>1, <3>2
    <2>5. ASSUME NEW t \in Threads,
                 \/ Enter(t) \/ EntryFails(t) \/ AcquireRLock(t) \/ EnterNested(t)
                 \/ OpenSidecar(t) \/ LeaveNested(t) \/ ReleaseFlock(t) \/ ReleaseRLock(t)
          PROVE  [Abstract!Next]_Owner
        <3>1. UNCHANGED held
            BY <2>5 DEF Enter, EntryFails, AcquireRLock, EnterNested, OpenSidecar,
                        LeaveNested, ReleaseFlock, ReleaseRLock
        <3>2. QED
            BY <3>1, OwnerUnchanged
    <2>6. CASE UNCHANGED vars
        BY <2>6, OwnerUnchanged DEF vars
    <2>7. QED
        BY <2>2, <2>3, <2>4, <2>5, <2>6 DEF Next, Step
<1>3. QED
    BY <1>1, <1>2, LockInvariant, PTL DEF Spec, ImplementsMutex, Abstract!Spec
=============================================================================
