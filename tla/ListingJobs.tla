---------------------------- MODULE ListingJobs ----------------------------
(***************************************************************************)
(* The listing of one target in the server: background jobs build a native *)
(* artifact, the projection service keeps the present one, clients open    *)
(* the listing, watch the job, read the artifact and edit the target.      *)
(*                                                                         *)
(*   clients    server threads and the browsers behind them; a request     *)
(*              holds target_lock from its first to its last step          *)
(*   workers    one thread per job; the build runs under no lock           *)
(*   elsewhere  a request on another target that changes the platform      *)
(*              corrections, which concern every target                    *)
(*                                                                         *)
(* A section under _JOB_LOCK is one step.  So is a change of a job and its *)
(* publication: the job's own thread makes both, and only a cancellation,  *)
(* which publishes itself, can come in between.                            *)
(* Reproduction jobs are not modelled; they read the artifact as a request *)
(* does, under target_lock.                                                *)
(***************************************************************************)
EXTENDS Integers, Sequences

CONSTANTS
    Clients,
    Nobody,
    None,
    Invalidated,  \* the key that matches no state of the target
    Changes,      \* the kinds of change that happen to the inputs
    MaxJobs,      \* bound: jobs with a worker
    MaxKey,       \* bound: states of the inputs of the listing
    MaxChanges    \* bound: changes of the inputs, back or to something new

ASSUME ConstantsAssumption ==
    /\ MaxJobs \in Nat /\ MaxKey \in Nat /\ MaxChanges \in Nat
    /\ Changes \subseteq {"command", "presentation", "failure", "rollback", "outside",
                    "corrections"}
    /\ Nobody \notin Clients \cup Nat
    /\ None \notin Nat \cup {Invalidated} /\ Invalidated \notin Nat
    /\ Clients \cap Nat = {}

VARIABLES
    key,        \* the cache key the target has now
    lock,       \* who holds target_lock
    jobs,       \* _ASYNC_JOBS: id -> status and cache key
    service,    \* ListingProjectionService, the part on this target
    closed,     \* closed artifacts; an artifact is named by its job
    worker,     \* the thread of each job
    client,     \* each client with its request, or the stream it listens to
    elsewhere,  \* how far the change of the corrections is
    changes,    \* how often the inputs have changed
    returned    \* jobs that the inputs' return has deceived

\* What has happened; no step depends on returned.
history == <<changes, returned>>
vars == <<key, lock, jobs, service, closed, worker, client, elsewhere, history>>

JobIds == 1..MaxJobs
Cached == 0                      \* "cached-listing-artifact-<project>"
Keys == 0..MaxKey
Running == {"queued", "building"}
Statuses == Running \cup {"ready", "failed"}
Events == Statuses \cup {"artifact_ready"}

IsRunning(j) == j \in DOMAIN jobs /\ jobs[j].status \in Running

WorkerPlaces ==
    {"none", "created", "started", "building", "built", "waiting", "locked",
     "fresh", "installed", "announcing", "announced", "ended"}

ClientPlaces ==
    {"idle", "opening", "hit", "starting", "answering",  \* open the listing
     "watching", "subscribing", "listening",             \* events of a job
     "reading", "displaying",                            \* read the artifact
     "edited", "invalidating"}                           \* edit the target

EmptyService == [artifact |-> None, key |-> None, dirty |-> FALSE]

TypeOK ==
    /\ key \in Keys
    /\ lock \in Clients \cup JobIds \cup {Nobody}
    /\ DOMAIN jobs \subseteq JobIds \cup {Cached}
    /\ \A j \in DOMAIN jobs : jobs[j] \in [status : Statuses, key : Keys]
    /\ service \in [artifact : JobIds \cup {None}, key : Keys \cup {None, Invalidated},
                    dirty : BOOLEAN]
    /\ closed \subseteq JobIds
    /\ worker \in [JobIds -> [at : WorkerPlaces, key : Keys, built : Keys \cup {None}]]
    /\ client \in [Clients -> [at : ClientPlaces, key : Keys, job : JobIds \cup {None},
                               queue : Seq(Events)]]
    /\ elsewhere \in {"idle", "written", "invalidated"}
    /\ changes \in 0..MaxChanges
    /\ returned \subseteq JobIds

AtRest == [at |-> "idle", key |-> 0, job |-> None, queue |-> <<>>]

Init ==
    /\ key = 0
    /\ lock = Nobody
    /\ jobs = <<>>
    /\ service = EmptyService
    /\ closed = {}
    /\ worker = [j \in JobIds |-> [at |-> "none", key |-> 0, built |-> None]]
    /\ client = [c \in Clients |-> AtRest]
    /\ elsewhere = "idle"
    /\ changes = 0
    /\ returned = {}

-----------------------------------------------------------------------------
(* The job table and its event streams *)

\* The table with job j as given.
WithJob(j, job) == [i \in DOMAIN jobs \cup {j} |-> IF i = j THEN job ELSE jobs[i]]

\* Put an event into the queue of every stream on one of the jobs.
Heard(events) ==
    [c \in Clients |->
        IF client[c].at = "listening" /\ client[c].job \in DOMAIN events
        THEN [client[c] EXCEPT !.queue = Append(client[c].queue, events[client[c].job])]
        ELSE client[c]]

\* mutated: a job that is gone is entered again, without its cache key
SetAlways(j, status) ==
    /\ jobs' = WithJob(j, [status |-> status,
                           key |-> IF j \in DOMAIN jobs THEN jobs[j].key ELSE None])
    /\ client' = Heard([i \in {j} |-> status])

\* _set_job_state: false, and without effect, when the job is gone.
SetStatus(j, status) ==
    IF j \in DOMAIN jobs
    THEN jobs' = [jobs EXCEPT ![j].status = status] /\ client' = Heard([i \in {j} |-> status])
    ELSE UNCHANGED <<jobs, client>>

\* mutated: the streams are not told
CancelSilently(self, place) ==
    /\ jobs' = <<>>
    /\ client' = [c \in Clients |-> IF c = self THEN [client[c] EXCEPT !.at = place]
                                    ELSE client[c]]

\* mutated: a job that is being built is left to its thread
CancelQueued(self, place) ==
    LET queued == {j \in DOMAIN jobs : jobs[j].status = "queued"}
        told == Heard([j \in queued |-> "failed"]) IN
    /\ jobs' = [j \in DOMAIN jobs \ queued |-> jobs[j]]
    /\ client' = [c \in Clients |-> IF c = self THEN [client[c] EXCEPT !.at = place]
                                    ELSE told[c]]

\* _cancel_listing_jobs by the client self, who goes on to place (nobody: None).
Cancel(self, place) ==
    LET told == Heard([j \in DOMAIN jobs |-> "failed"]) IN
    /\ jobs' = <<>>
    /\ client' = [c \in Clients |-> IF c = self THEN [client[c] EXCEPT !.at = place]
                                    ELSE told[c]]

-----------------------------------------------------------------------------
(* The projection service *)

\* cache_satisfies_listing
Satisfies(k) == service.key = k /\ service.artifact # None

\* valid_artifact: drop and close an artifact of another key, unless it is
\* still shown while dirty; service and closed afterwards.
Drops(k) ==
    service.key \notin {None, k} /\ ~(service.artifact # None /\ service.dirty)
Lookup(k) ==
    IF Drops(k)
    THEN service' = EmptyService /\ closed' = closed \cup ({service.artifact} \ {None})
    ELSE UNCHANGED <<service, closed>>

ValidArtifact(k) == IF service.key = k THEN service.artifact ELSE None

\* read_artifact: a dirty artifact may be shown although its key is old.
ReadArtifact(k) ==
    IF ValidArtifact(k) = None /\ service.dirty /\ ~Drops(k) THEN service.artifact
    ELSE ValidArtifact(k)

-----------------------------------------------------------------------------
(* Requests *)

Goto(c, place) == client' = [client EXCEPT ![c].at = place]
Leave(c) == client' = [client EXCEPT ![c] = AtRest]
Watch(c, j) == client' = [client EXCEPT ![c] = [AtRest EXCEPT !.at = "watching", !.job = j]]

\* route_request takes target_lock; the snapshot keeps the first key computed.
Enter(c, place, j) ==
    /\ client[c].at = "idle"
    /\ lock = Nobody /\ lock' = c
    /\ client' = [client EXCEPT ![c] = [at |-> place, key |-> key, job |-> j,
                                        queue |-> <<>>]]

OpenBegin(c) ==
    /\ \E j \in JobIds : worker[j].at = "none"
    /\ Enter(c, "opening", None)
    /\ UNCHANGED <<key, jobs, service, closed, worker, elsewhere, history>>

\* The artifact is there: ...
OpenHit(c) ==
    /\ client[c].at = "opening"
    /\ Satisfies(client[c].key)
    /\ Goto(c, "hit")
    /\ UNCHANGED <<key, lock, jobs, service, closed, worker, elsewhere, history>>

\* ... prewarm looks it up again, and the answer is a finished job.
OpenCached(c) ==
    /\ client[c].at = "hit"
    /\ Lookup(client[c].key)
    /\ jobs' = WithJob(Cached, [status |-> "ready", key |-> client[c].key])
    /\ lock' = Nobody
    /\ Leave(c)
    /\ UNCHANGED <<key, worker, elsewhere, history>>

WithKey(k, statuses) ==
    {j \in DOMAIN jobs : jobs[j].key = k /\ jobs[j].status \in statuses}

\* Somebody's job for the same key is on its way.
OpenJoin(c) ==
    /\ client[c].at = "opening"
    /\ ~Satisfies(client[c].key)
    /\ \E j \in WithKey(client[c].key, Running) : Watch(c, j)
    /\ lock' = Nobody
    /\ UNCHANGED <<key, jobs, service, closed, worker, elsewhere, history>>

\* retry_failed=False (the restoration state): the failed job is the answer.
OpenFailed(c) ==
    /\ client[c].at = "opening"
    /\ ~Satisfies(client[c].key)
    /\ WithKey(client[c].key, Running) = {}
    /\ WithKey(client[c].key, {"failed"}) # {}
    /\ lock' = Nobody
    /\ Leave(c)
    /\ UNCHANGED <<key, jobs, service, closed, worker, elsewhere, history>>

\* mutated: a job that is being built is not joined
NoneQueued(c) == WithKey(client[c].key, {"queued"}) = {}
NoneToJoin(c) == WithKey(client[c].key, Running) = {}

OpenCreate(c) ==
    /\ client[c].at = "opening"
    /\ ~Satisfies(client[c].key)
    /\ NoneToJoin(c)
    /\ \E j \in JobIds :
        /\ worker[j].at = "none"
        /\ \A i \in 1..(j - 1) : worker[i].at # "none"
        /\ jobs' = WithJob(j, [status |-> "queued", key |-> client[c].key])
        /\ worker' = [worker EXCEPT ![j].at = "created"]
        /\ client' = [client EXCEPT ![c] = [client[c] EXCEPT !.at = "starting", !.job = j]]
    /\ UNCHANGED <<key, lock, service, closed, elsewhere, history>>

OpenStart(c) ==
    /\ client[c].at = "starting"
    /\ worker' = [worker EXCEPT ![client[c].job].at = "started"]
    /\ Goto(c, "answering")
    /\ UNCHANGED <<key, lock, jobs, service, closed, elsewhere, history>>

\* The job is read again for the answer; a job that is gone is a KeyError.
OpenAnswer(c) ==
    /\ client[c].at = "answering"
    /\ lock' = Nobody
    /\ IF IsRunning(client[c].job) THEN Watch(c, client[c].job) ELSE Leave(c)
    /\ UNCHANGED <<key, jobs, service, closed, worker, elsewhere, history>>

\* Routes that need the exact artifact, and routes that display.
Read(c) ==
    /\ lock = Nobody
    /\ Lookup(key)
    /\ \/ ValidArtifact(key) # None /\ Enter(c, "reading", ValidArtifact(key))
       \/ ReadArtifact(key) # None /\ Enter(c, "displaying", ReadArtifact(key))
       \/ /\ ReadArtifact(key) = None /\ Drops(key)
          /\ client[c].at = "idle"
          /\ UNCHANGED <<lock, client>>
    /\ UNCHANGED <<key, jobs, worker, elsewhere, history>>

ReadEnd(c) ==
    /\ client[c].at \in {"reading", "displaying"}
    /\ lock' = Nobody
    /\ Leave(c)
    /\ UNCHANGED <<key, jobs, service, closed, worker, elsewhere, history>>

\* Jobs that have built from other inputs than those of the key they had computed
\* before, and have not yet compared it with the present key, when that is k again.
Deceived(k) ==
    {j \in JobIds :
        /\ worker[j].at \in {"built", "waiting", "locked"}
        /\ worker[j].key = k
        /\ worker[j].built # k}

\* The key is a digest of the inputs: undoing a change brings the key back.
ChangeKey(kind) ==
    /\ kind \in Changes
    /\ changes < MaxChanges /\ changes' = changes + 1
    /\ \E k \in Keys \ {key} : key' = k /\ returned' = returned \cup Deceived(k)

\* append_manual_actions changes the key; ...
EditBegin(c) ==
    /\ \E kind \in {"command", "presentation", "failure"} : ChangeKey(kind)
    /\ Enter(c, "edited", None)
    /\ UNCHANGED <<jobs, service, closed, worker, elsewhere>>

\* ... actions that only concern presentation mark the artifact, ...
EditPresentation(c) ==
    /\ client[c].at = "edited"
    /\ "presentation" \in Changes
    /\ service' = [service EXCEPT !.dirty = TRUE]
    /\ lock' = Nobody
    /\ Leave(c)
    /\ UNCHANGED <<key, jobs, closed, worker, elsewhere, history>>

\* ... any other cancels the jobs ...
EditCancel(c) ==
    /\ client[c].at = "edited"
    /\ "command" \in Changes
    /\ Cancel(c, "invalidating")
    /\ UNCHANGED <<key, lock, service, closed, worker, elsewhere, history>>

\* ... and invalidates the artifact, which stays on display.
EditInvalidate(c) ==
    /\ client[c].at = "invalidating"
    /\ service' = IF service.artifact # None
                  THEN [service EXCEPT !.key = Invalidated, !.dirty = TRUE]
                  ELSE EmptyService
    /\ lock' = Nobody
    /\ Leave(c)
    /\ UNCHANGED <<key, jobs, closed, worker, elsewhere, history>>

\* An error after the append: nothing is cancelled or invalidated.
EditFails(c) ==
    /\ client[c].at = "edited"
    /\ "failure" \in Changes
    /\ lock' = Nobody
    /\ Leave(c)
    /\ UNCHANGED <<key, jobs, service, closed, worker, elsewhere, history>>

\* The rollback of restoration.py undoes or redoes an action and invalidates
\* the artifact; it leaves the jobs alone.
Rollback(c) ==
    /\ ChangeKey("rollback")
    /\ Enter(c, "invalidating", None)
    /\ UNCHANGED <<jobs, service, closed, worker, elsewhere>>

-----------------------------------------------------------------------------
(* Event streams *)

\* _handle_job_events reads the job; a job that has ended, or is gone, is the
\* whole answer.
WatchBegin(c) ==
    /\ client[c].at = "watching"
    /\ IF IsRunning(client[c].job) THEN Goto(c, "subscribing") ELSE Leave(c)
    /\ UNCHANGED <<key, lock, jobs, service, closed, worker, elsewhere, history>>

Subscribe(c) ==
    /\ client[c].at = "subscribing"
    /\ Goto(c, "listening")
    /\ UNCHANGED <<key, lock, jobs, service, closed, worker, elsewhere, history>>

\* The stream ends with the first event that says that the job has ended.
Hear(c) ==
    /\ client[c].at = "listening"
    /\ client[c].queue # <<>>
    /\ IF Head(client[c].queue) \in {"ready", "failed"} THEN Leave(c)
       ELSE client' = [client EXCEPT ![c].queue = Tail(client[c].queue)]
    /\ UNCHANGED <<key, lock, jobs, service, closed, worker, elsewhere, history>>

\* The browser leaves.
Disconnect(c) ==
    /\ client[c].at \in {"watching", "subscribing", "listening"}
    /\ Leave(c)
    /\ UNCHANGED <<key, lock, jobs, service, closed, worker, elsewhere, history>>

-----------------------------------------------------------------------------
(* The thread of a job: _build_rows_job *)

WorkerGoto(j, place) == worker' = [worker EXCEPT ![j].at = place]
End(j) == WorkerGoto(j, "ended")

\* Wherever the state of the job is set, a job that is gone ends its thread;
\* an artifact that is not yet in the service is closed.
WorkerQuits(j) ==
    /\ worker[j].at \in {"started", "built", "announced"}
    /\ j \notin DOMAIN jobs
    /\ closed' = IF worker[j].at = "built" THEN closed \cup {j} ELSE closed
    /\ End(j)
    /\ UNCHANGED <<key, lock, jobs, service, client, elsewhere, history>>

\* The thread computes the cache key itself.
WorkerStart(j) ==
    /\ worker[j].at = "started"
    /\ j \in DOMAIN jobs
    /\ SetStatus(j, "building")
    /\ worker' = [worker EXCEPT ![j] = [worker[j] EXCEPT !.at = "building", !.key = key]]
    /\ UNCHANGED <<key, lock, service, closed, elsewhere, history>>

\* The native build reads the inputs as they are now.
Build(j) ==
    /\ worker[j].at = "building"
    /\ worker' = [worker EXCEPT ![j] = [worker[j] EXCEPT !.at = "built", !.built = key]]
    /\ UNCHANGED <<key, lock, jobs, service, closed, client, elsewhere, history>>

CacheArtifact(j) ==
    /\ worker[j].at = "built"
    /\ j \in DOMAIN jobs
    /\ SetStatus(j, "building")
    /\ WorkerGoto(j, "waiting")
    /\ UNCHANGED <<key, lock, service, closed, elsewhere, history>>

WorkerLocks(j) ==
    /\ worker[j].at = "waiting"
    /\ lock = Nobody /\ lock' = j
    /\ WorkerGoto(j, "locked")
    /\ UNCHANGED <<key, jobs, service, closed, client, elsewhere, history>>

\* "project changed while listing job was building"
FindStale(j) ==
    /\ worker[j].at = "locked"
    /\ worker[j].key # key
    /\ closed' = closed \cup {j}
    /\ SetStatus(j, "failed")
    /\ lock' = Nobody
    /\ End(j)
    /\ UNCHANGED <<key, service, elsewhere, history>>

FindFresh(j) ==
    /\ worker[j].at = "locked"
    /\ worker[j].key = key
    /\ WorkerGoto(j, "fresh")
    /\ UNCHANGED <<key, lock, jobs, service, closed, client, elsewhere, history>>

\* mutated: the key of the job is not compared
StillThere(j) == j \in DOMAIN jobs

\* The job is there and asks for what was built.
IsWanted(j) == j \in DOMAIN jobs /\ jobs[j].key = worker[j].key

\* Otherwise the artifact is closed and the job left as it is.
Drop(j) ==
    /\ worker[j].at = "fresh"
    /\ ~IsWanted(j)
    /\ closed' = closed \cup {j}
    /\ lock' = Nobody
    /\ End(j)
    /\ UNCHANGED <<key, jobs, service, client, elsewhere, history>>

\* mutated: the artifact is filed under the present key
InstalledNow(j) == [artifact |-> j, key |-> key, dirty |-> FALSE]
Installed(j) == [artifact |-> j, key |-> worker[j].key, dirty |-> FALSE]

\* set_artifact replaces and closes the artifact before.
Install(j) ==
    /\ worker[j].at = "fresh"
    /\ IsWanted(j)
    /\ service' = Installed(j)
    /\ closed' = closed \cup ({service.artifact} \ {None, j})
    /\ WorkerGoto(j, "installed")
    /\ UNCHANGED <<key, lock, jobs, client, elsewhere, history>>

\* _prewarm_analysis_review_items looks the artifact up with the present key.
Prewarm(j) ==
    /\ worker[j].at = "installed"
    /\ Lookup(key)
    /\ lock' = Nobody
    /\ WorkerGoto(j, "announcing")
    /\ UNCHANGED <<key, jobs, client, elsewhere, history>>

Announce(j) ==
    /\ worker[j].at = "announcing"
    /\ client' = Heard([i \in {j} |-> "artifact_ready"])
    /\ WorkerGoto(j, "announced")
    /\ UNCHANGED <<key, lock, jobs, service, closed, elsewhere, history>>

Report(j) ==
    /\ worker[j].at = "announced"
    /\ j \in DOMAIN jobs
    /\ SetStatus(j, "ready")
    /\ End(j)
    /\ UNCHANGED <<key, lock, service, closed, elsewhere, history>>

\* mutated: an error of the build ends the thread and nothing else
DieSilently(j) ==
    /\ worker[j].at \in {"building", "installed"}
    /\ lock' = IF lock = j THEN Nobody ELSE lock
    /\ End(j)
    /\ UNCHANGED <<key, jobs, client, service, closed, elsewhere, history>>

\* An error of the build, or of the prewarming of what was installed.
WorkerFails(j) ==
    /\ worker[j].at \in {"building", "installed"}
    /\ SetStatus(j, "failed")
    /\ lock' = IF lock = j THEN Nobody ELSE lock
    /\ End(j)
    /\ UNCHANGED <<key, service, closed, elsewhere, history>>

-----------------------------------------------------------------------------
(* _write_api_input_type_override, from a request on another target *)

WriteCorrections ==
    /\ elsewhere = "idle"
    /\ "corrections" \in Changes
    /\ elsewhere' = "written"
    /\ UNCHANGED <<key, lock, jobs, service, closed, worker, client, history>>

\* mutated: artifacts are closed and forgotten at once
CloseAll ==
    /\ elsewhere = "written"
    /\ service' = EmptyService
    /\ closed' = closed \cup ({service.artifact} \ {None})
    /\ elsewhere' = "invalidated"
    /\ UNCHANGED <<key, lock, jobs, worker, client, history>>

\* invalidate_all_lazy: the artifact stays open for whoever is reading it.
InvalidateAll ==
    /\ elsewhere = "written"
    /\ service' = [service EXCEPT !.key = IF service.key = None THEN None ELSE Invalidated,
                                  !.dirty = FALSE]
    /\ elsewhere' = "invalidated"
    /\ UNCHANGED <<key, lock, jobs, closed, worker, client, history>>

CancelAll ==
    /\ elsewhere = "invalidated"
    /\ Cancel(None, "idle")
    /\ elsewhere' = "idle"
    /\ UNCHANGED <<key, lock, service, closed, worker, history>>

\* A file of the target is replaced, a tool rebuilt, a review recorded.
InputsChange ==
    /\ ChangeKey("outside")
    /\ UNCHANGED <<lock, jobs, service, closed, worker, client, elsewhere>>

-----------------------------------------------------------------------------
\* A request that has begun runs to its end.
RequestStep(c) ==
    \/ OpenHit(c) \/ OpenCached(c) \/ OpenJoin(c) \/ OpenFailed(c) \/ OpenCreate(c)
    \/ OpenStart(c) \/ OpenAnswer(c) \/ ReadEnd(c)
    \/ EditPresentation(c) \/ EditCancel(c) \/ EditInvalidate(c) \/ EditFails(c)

StreamStep(c) == WatchBegin(c) \/ Subscribe(c) \/ Hear(c)

WorkerStep(j) ==
    \/ WorkerQuits(j) \/ WorkerStart(j) \/ Build(j) \/ CacheArtifact(j)
    \/ WorkerLocks(j) \/ FindStale(j) \/ FindFresh(j) \/ Drop(j) \/ Install(j)
    \/ Prewarm(j) \/ Announce(j) \/ Report(j) \/ WorkerFails(j)

Next ==
    \/ \E c \in Clients : OpenBegin(c) \/ Read(c) \/ EditBegin(c) \/ Rollback(c)
    \/ \E c \in Clients : RequestStep(c) \/ StreamStep(c) \/ Disconnect(c)
    \/ \E j \in JobIds : WorkerStep(j)
    \/ WriteCorrections \/ InvalidateAll \/ CancelAll
    \/ InputsChange

Spec == Init /\ [][Next]_vars

(***************************************************************************)
(* Fairness: threads that have something to do are scheduled.  No request  *)
(* ever has to come, and target_lock need not be granted to a worker while *)
(* requests keep taking it.                                                *)
(***************************************************************************)
FairSpec ==
    /\ Spec
    /\ \A c \in Clients : WF_vars(RequestStep(c)) /\ WF_vars(StreamStep(c))
    /\ \A j \in JobIds : WF_vars(WorkerStep(j))

-----------------------------------------------------------------------------
(* Properties *)

\* However requests and workers interleave, one set of inputs is never being
\* built twice at a time.
OneBuildPerKey ==
    \A i, j \in DOMAIN jobs :
        IsRunning(i) /\ IsRunning(j) /\ jobs[i].key = jobs[j].key => i = j

\* A request that needs the exact artifact reads one that was built from the
\* inputs as the request sees them, although builds run under no lock; the one
\* exception is a build that was still to be compared when the inputs came back.
ExactReadsAreCurrent ==
    \A c \in Clients :
        client[c].at = "reading" =>
            worker[client[c].job].built = client[c].key \/ client[c].job \in returned

\* Nobody closes an artifact while a request is reading it, not even a global
\* invalidation, which does not hold the lock of the reader.
NoReadAfterClose ==
    \A c \in Clients :
        client[c].at \in {"reading", "displaying"} => client[c].job \notin closed

\* A job is reported ready only if what was built is what was asked for, with
\* the same exception.
ReadyMeansAsAsked ==
    \A j \in DOMAIN jobs \ {Cached} :
        jobs[j].status = "ready" => worker[j].built = jobs[j].key \/ j \in returned

\* Every job ends, unless requests on the target never stop.
JobsEnd ==
    \A j \in JobIds : []<>(lock \in Clients) \/ (IsRunning(j) ~> ~IsRunning(j))

\* Whoever listens to a running job is told of its end, be it ready, failed,
\* stale or cancelled.
SubscribersAreTold ==
    \A c \in Clients :
        \/ []<>(lock \in Clients)
        \/ client[c].at = "listening" /\ IsRunning(client[c].job)
                ~> client[c].at # "listening"

-----------------------------------------------------------------------------
(* What the code says and does not do *)

\* A browser that opens the events of a running job, as waitForAsyncJobEvents
\* does, gets to the end of the stream.
WatchersAreTold ==
    \A c \in Clients :
        []<>(lock \in Clients) \/ (client[c].at = "subscribing" ~> client[c].at = "idle")

\* "The stale artifact must not satisfy the current cache key": what the service
\* offers for the present key was built from the present inputs.
StaleDoesNotSatisfy ==
    Satisfies(key) => worker[service.artifact].built = key
=============================================================================
