----------------------------- MODULE TargetLock -----------------------------
(***************************************************************************)
(* target_lock (disasm/target_history.py): the lock every writer and every *)
(* revision-bound reader of one target's histories takes.  It is built of  *)
(* three layers: a re-entrant lock per process (threads of one process),   *)
(* a thread-local note that the thread is already inside (nesting), and    *)
(* flock on a sidecar file (processes).  Only the outermost entry of a     *)
(* thread touches the file.                                                *)
(*                                                                         *)
(* The POSIX branch is modelled.  An open file description belongs to one  *)
(* entry, so flock excludes two threads of one process as well.            *)
(***************************************************************************)
EXTENDS Integers

CONSTANTS
    Threads,    \* threads that work on the target, of all processes
    Processes,  \* the processes they belong to
    ProcessOf,  \* the process of each thread
    MaxDepth,   \* bound: how deep one thread nests target_lock
    NoThread    \* nobody

ASSUME ConstantsAssumption ==
    /\ ProcessOf \in [Threads -> Processes]
    /\ MaxDepth \in Nat \ {0}
    /\ NoThread \notin Threads

VARIABLES
    pc,      \* where each thread stands in target_lock
    rlock,   \* per process: the owner of the RLock and its recursion count
    flock,   \* the thread whose open file description holds the flock
    held     \* per thread: _local.held contains this target's key

vars == <<pc, rlock, flock, held>>

(***************************************************************************)
(* "out"       outside every target_lock block                             *)
(* "waitRLock" in `with lock`, the RLock of the process not yet acquired   *)
(* "checkHeld" RLock acquired, `key in held` not yet evaluated             *)
(* "waitFlock" sidecar opened, flock(LOCK_EX) not yet granted              *)
(* "body"      inside the with block of the caller                         *)
(* "unlocking" key removed from held, flock(LOCK_UN) not yet called        *)
(* "leaving"   flock released, RLock not yet released                      *)
(***************************************************************************)
Places == {"out", "waitRLock", "checkHeld", "waitFlock", "body", "unlocking",
           "leaving"}

Free == [owner |-> NoThread, count |-> 0]

RLockOf(t) == rlock[ProcessOf[t]]

\* One more level of the RLock for t: free, or already owned by t.
CanTakeRLock(t) == RLockOf(t).owner \in {NoThread, t}

RLockTaken(t) ==
    [rlock EXCEPT ![ProcessOf[t]] = [owner |-> t, count |-> RLockOf(t).count + 1]]

RLockReleased(t) ==
    [rlock EXCEPT ![ProcessOf[t]] =
        IF RLockOf(t).count = 1 THEN Free
        ELSE [owner |-> RLockOf(t).owner, count |-> RLockOf(t).count - 1]]

TypeOK ==
    /\ pc \in [Threads -> Places]
    /\ rlock \in [Processes -> [owner : Threads \cup {NoThread}, count : Nat]]
    /\ flock \in Threads \cup {NoThread}
    /\ held \in [Threads -> BOOLEAN]

Init ==
    /\ pc = [t \in Threads |-> "out"]
    /\ rlock = [p \in Processes |-> Free]
    /\ flock = NoThread
    /\ held = [t \in Threads |-> FALSE]

-----------------------------------------------------------------------------
(* Entering *)

\* A thread enters target_lock, from outside or from inside a block.
Enter(t) ==
    /\ \/ pc[t] = "out"
       \/ pc[t] = "body" /\ RLockOf(t).count < MaxDepth
    /\ pc' = [pc EXCEPT ![t] = "waitRLock"]
    /\ UNCHANGED <<rlock, flock, held>>

AcquireRLock(t) ==
    /\ pc[t] = "waitRLock"
    /\ CanTakeRLock(t)
    /\ rlock' = RLockTaken(t)
    /\ pc' = [pc EXCEPT ![t] = "checkHeld"]
    /\ UNCHANGED <<flock, held>>

\* `if key in held: yield; return`: the nested entry is inside at once.
EnterNested(t) ==
    /\ pc[t] = "checkHeld"
    /\ held[t]
    /\ pc' = [pc EXCEPT ![t] = "body"]
    /\ UNCHANGED <<rlock, flock, held>>

\* mutated: `key in held` is not consulted
OpenAlways(t) ==
    /\ pc[t] = "checkHeld"
    /\ pc' = [pc EXCEPT ![t] = "waitFlock"]
    /\ UNCHANGED <<rlock, flock, held>>

OpenSidecar(t) ==
    /\ pc[t] = "checkHeld"
    /\ ~held[t]
    /\ pc' = [pc EXCEPT ![t] = "waitFlock"]
    /\ UNCHANGED <<rlock, flock, held>>

\* mutated: flock is granted although somebody has it (LOCK_SH, say)
AcquireShared(t) ==
    /\ pc[t] = "waitFlock"
    /\ flock' = t
    /\ held' = [held EXCEPT ![t] = TRUE]
    /\ pc' = [pc EXCEPT ![t] = "body"]
    /\ UNCHANGED rlock

AcquireFlock(t) ==
    /\ pc[t] = "waitFlock"
    /\ flock = NoThread
    /\ flock' = t
    /\ held' = [held EXCEPT ![t] = TRUE]
    /\ pc' = [pc EXCEPT ![t] = "body"]
    /\ UNCHANGED rlock

\* mkdir, open or flock raises OSError: `with lock` releases the RLock.
EntryFails(t) ==
    /\ pc[t] \in {"checkHeld", "waitFlock"}
    /\ ~held[t]
    /\ rlock' = RLockReleased(t)
    /\ pc' = [pc EXCEPT ![t] = "out"]
    /\ UNCHANGED <<flock, held>>

-----------------------------------------------------------------------------
(* Leaving, by return or by exception alike *)

\* The nested generator has no finally of its own: only the RLock count drops.
LeaveNested(t) ==
    /\ pc[t] = "body"
    /\ RLockOf(t).count > 1
    /\ rlock' = RLockReleased(t)
    /\ UNCHANGED <<pc, flock, held>>

\* mutated: the file is unlocked before the key is removed
UnlockFirst(t) ==
    /\ pc[t] = "body"
    /\ RLockOf(t).count = 1
    /\ flock' = NoThread
    /\ pc' = [pc EXCEPT ![t] = "unlocking"]
    /\ UNCHANGED <<rlock, held>>

LeaveOutermost(t) ==
    /\ pc[t] = "body"
    /\ RLockOf(t).count = 1
    /\ held' = [held EXCEPT ![t] = FALSE]
    /\ pc' = [pc EXCEPT ![t] = "unlocking"]
    /\ UNCHANGED <<rlock, flock>>

\* mutated: LOCK_UN forgotten, the descriptor left open
KeepFlock(t) ==
    /\ pc[t] = "unlocking"
    /\ pc' = [pc EXCEPT ![t] = "leaving"]
    /\ UNCHANGED <<rlock, flock, held>>

ReleaseFlock(t) ==
    /\ pc[t] = "unlocking"
    /\ flock' = NoThread
    /\ pc' = [pc EXCEPT ![t] = "leaving"]
    /\ UNCHANGED <<rlock, held>>

ReleaseRLock(t) ==
    /\ pc[t] = "leaving"
    /\ rlock' = RLockReleased(t)
    /\ pc' = [pc EXCEPT ![t] = "out"]
    /\ UNCHANGED <<flock, held>>

-----------------------------------------------------------------------------
\* A process dies: its threads are gone, the kernel closes its descriptors
\* and with them drops its flock.  The process may start again.
Crash(p) ==
    LET Dead(t) == ProcessOf[t] = p IN
    /\ \E t \in Threads : Dead(t) /\ pc[t] # "out"
    /\ pc' = [t \in Threads |-> IF Dead(t) THEN "out" ELSE pc[t]]
    /\ held' = [t \in Threads |-> IF Dead(t) THEN FALSE ELSE held[t]]
    /\ rlock' = [rlock EXCEPT ![p] = Free]
    /\ flock' = IF \E t \in Threads : flock = t /\ Dead(t) THEN NoThread ELSE flock

Step(t) ==
    \/ AcquireRLock(t) \/ EnterNested(t) \/ OpenSidecar(t) \/ AcquireFlock(t)
    \/ LeaveNested(t) \/ LeaveOutermost(t) \/ ReleaseFlock(t) \/ ReleaseRLock(t)

Next ==
    \/ \E t \in Threads : Enter(t) \/ Step(t) \/ EntryFails(t)
    \/ \E p \in Processes : Crash(p)

Spec == Init /\ [][Next]_vars

(***************************************************************************)
(* Fairness.  A thread that can run runs.  Nobody has to enter, to fail or *)
(* to crash.  Neither threading.RLock nor flock hands the lock over in     *)
(* order, so no thread is promised its own turn: acquisition is weakly     *)
(* fair only.                                                              *)
(***************************************************************************)
FairSpec == Spec /\ \A t \in Threads : WF_vars(Step(t))

-----------------------------------------------------------------------------
(* Properties *)

\* t executes code of a caller that relies on having the target to itself: in
\* the block, or between levels while it enters a nested one.
Inside(t) == held[t]

\* At most one thread of all processes is inside, through nesting, failures
\* and crashes: what "Serialize threads/processes" promises to all writers.
MutualExclusion ==
    \A t, u \in Threads : Inside(t) /\ Inside(u) => t = u

\* Whoever is inside owns the flock and the RLock of its process, at every
\* nesting level: leaving a nested block gives nothing up.
InsideOwnsLocks ==
    \A t \in Threads : Inside(t) => flock = t /\ RLockOf(t).owner = t

\* A nested entry never reaches flock: a second open file description of the
\* same thread would wait for the first one for ever.
NoSelfDeadlock ==
    \A t \in Threads : pc[t] = "waitFlock" => flock # t

\* A thread that waits for the flock does not wait while nobody gets in: either
\* its own wait ends, or somebody is in the block meanwhile.  Failures and deaths
\* of others, however often, cannot leave the flock taken and nobody inside.
WaitersProgress ==
    \A t \in Threads :
        pc[t] = "waitFlock" ~> (pc[t] # "waitFlock" \/ \E u \in Threads : pc[u] = "body")

\* Ownership as the writers see it.
Owner == IF \E t \in Threads : held[t] THEN CHOOSE t \in Threads : held[t] ELSE NoThread

\* What the layers together implement: a single lock with one owner.
Abstract == INSTANCE Mutex WITH owner <- Owner, Clients <- Threads, Nobody <- NoThread
ImplementsMutex == Abstract!Spec
=============================================================================
