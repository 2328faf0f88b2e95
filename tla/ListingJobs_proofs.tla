------------------------- MODULE ListingJobs_proofs -------------------------
(***************************************************************************)
(* The target lock, held by readers and by whoever replaces or drops the   *)
(* artifact, keeps artifacts open under their readers; one table of jobs,  *)
(* changed in single steps, keeps builds of the same inputs apart.         *)
(***************************************************************************)
EXTENDS ListingJobs, TLAPS

ClientType == [at : ClientPlaces, key : Keys, job : JobIds \cup {None}, queue : Seq(Events)]
WorkerType == [at : WorkerPlaces, key : Keys, built : Keys \cup {None}]

InRequest ==
    {"opening", "hit", "starting", "answering", "reading", "displaying", "edited",
     "invalidating"}
InLock == {"locked", "fresh", "installed"}
After == {"installed", "announcing", "announced", "ended"}

\* Whoever stands in a place under the lock has it.
Exclusive ==
    /\ \A c \in Clients : client[c].at \in InRequest => lock = c
    /\ \A j \in JobIds : worker[j].at \in InLock => lock = j

\* The artifact in the service is open, and its build is over.
Kept ==
    service.artifact # None =>
        service.artifact \notin closed /\ worker[service.artifact].at \in After

\* So is the artifact of a reader.
ReadersKept ==
    \A c \in Clients : client[c].at \in {"reading", "displaying"} =>
        /\ client[c].job \in JobIds \ closed
        /\ worker[client[c].job].at \in After

\* A thread that has something to install has not closed it.
ClosedAfter == \A j \in closed : worker[j].at \in After

\* A job that has ended stays so: its thread is over.
JobsFollowThreads ==
    \A j \in DOMAIN jobs :
        /\ j = Cached => jobs[j].status = "ready"
        /\ j # Cached => /\ worker[j].at # "none"
                         /\ worker[j].at # "ended" => jobs[j].status \in Running

\* A thread is started once, by the request that has created it.
Starting ==
    \A c \in Clients : client[c].at = "starting" =>
        client[c].job \in JobIds /\ worker[client[c].job].at = "created"

IInv ==
    /\ TypeOK /\ Exclusive /\ Kept /\ ReadersKept /\ ClosedAfter /\ JobsFollowThreads
    /\ Starting
    /\ OneBuildPerKey

-----------------------------------------------------------------------------
(* Names and records *)

LEMMA Names ==
    /\ None \notin JobIds /\ Nobody \notin JobIds /\ Cached \notin JobIds
    /\ Nobody \notin Clients /\ Clients \cap JobIds = {}
    /\ None \notin Keys /\ Invalidated \notin Keys /\ None # Invalidated
    /\ 0 \in Keys
BY ConstantsAssumption DEF JobIds, Keys, Cached

LEMMA InitIInv == Init => IInv
<1> SUFFICES ASSUME Init PROVE IInv
  OBVIOUS
<1>1. TypeOK
  <2>1. \A c \in Clients : AtRest \in ClientType
    BY Names DEF AtRest, ClientType, ClientPlaces
  <2> QED
    BY <2>1, Names, ConstantsAssumption DEF Init, TypeOK, AtRest, ClientType, ClientPlaces,
        WorkerPlaces, EmptyService
<1> QED
  BY <1>1, Names DEF Init, IInv, Exclusive, Kept, ReadersKept, ClosedAfter,
      JobsFollowThreads, Starting, OneBuildPerKey, IsRunning, InRequest, InLock, AtRest,
      EmptyService

\* The clients stand where they stood.
SamePlaces ==
    /\ client' \in [Clients -> ClientType]
    /\ \A c \in Clients : client'[c].at = client[c].at /\ client'[c].job = client[c].job

LEMMA HeardKeepsPlaces ==
    ASSUME client \in [Clients -> ClientType], NEW events,
           \A j \in DOMAIN events : events[j] \in Events
    PROVE  /\ Heard(events) \in [Clients -> ClientType]
           /\ \A c \in Clients :
                /\ Heard(events)[c].at = client[c].at
                /\ Heard(events)[c].job = client[c].job
<1> SUFFICES ASSUME NEW c \in Clients
             PROVE  /\ Heard(events)[c] \in ClientType
                    /\ Heard(events)[c].at = client[c].at
                    /\ Heard(events)[c].job = client[c].job
  BY DEF Heard
<1>1. client[c] \in ClientType
  OBVIOUS
<1>2. CASE client[c].at = "listening" /\ client[c].job \in DOMAIN events
  <2>1. Append(client[c].queue, events[client[c].job]) \in Seq(Events)
    BY <1>1, <1>2 DEF ClientType
  <2>2. Heard(events)[c] =
            [client[c] EXCEPT !.queue = Append(client[c].queue, events[client[c].job])]
    BY <1>2 DEF Heard
  <2> QED
    BY <1>1, <2>1, <2>2 DEF ClientType
<1>3. CASE ~(client[c].at = "listening" /\ client[c].job \in DOMAIN events)
  BY <1>1, <1>3 DEF Heard
<1> QED
  BY <1>2, <1>3

LEMMA SetStatusKeeps ==
    ASSUME TypeOK, NEW j \in JobIds, NEW status \in Statuses, SetStatus(j, status)
    PROVE  /\ SamePlaces
           /\ DOMAIN jobs' = DOMAIN jobs
           /\ \A i \in DOMAIN jobs :
                /\ jobs'[i] \in [status : Statuses, key : Keys]
                /\ jobs'[i].key = jobs[i].key
                /\ jobs'[i].status = IF i = j THEN status ELSE jobs[i].status
<1>1. client \in [Clients -> ClientType]
  BY DEF TypeOK, ClientType
<1>2. CASE j \notin DOMAIN jobs
  BY <1>1, <1>2 DEF SetStatus, SamePlaces, TypeOK
<1>3. CASE j \in DOMAIN jobs
  <2> DEFINE event == [i \in {j} |-> status]
  <2>1. jobs' = [jobs EXCEPT ![j].status = status] /\ client' = Heard(event)
    BY <1>3 DEF SetStatus
  <2>2. \A i \in DOMAIN event : event[i] \in Events
    BY DEF Events
  <2>3. SamePlaces
    <3> HIDE DEF event
    <3> QED
      BY <1>1, <2>1, <2>2, HeardKeepsPlaces DEF SamePlaces
  <2> QED
    BY <1>3, <2>1, <2>3 DEF TypeOK
<1> QED
  BY <1>2, <1>3

LEMMA CancelKeeps ==
    ASSUME TypeOK, NEW self, NEW place \in ClientPlaces, Cancel(self, place)
    PROVE  /\ jobs' = <<>>
           /\ client' \in [Clients -> ClientType]
           /\ \A c \in Clients :
                /\ client'[c].at = IF c = self THEN place ELSE client[c].at
                /\ client'[c].job = client[c].job
<1>1. client \in [Clients -> ClientType]
  BY DEF TypeOK, ClientType
<1> DEFINE events == [j \in DOMAIN jobs |-> "failed"]
           told == Heard(events)
<1>2. /\ told \in [Clients -> ClientType]
      /\ \A c \in Clients : told[c].at = client[c].at /\ told[c].job = client[c].job
  <2>1. \A j \in DOMAIN events : events[j] \in Events
    BY DEF Events, Statuses
  <2> HIDE DEF events
  <2> QED
    BY <1>1, <2>1, HeardKeepsPlaces
<1> HIDE DEF told
<1>3. /\ jobs' = <<>>
      /\ client' = [c \in Clients |-> IF c = self THEN [client[c] EXCEPT !.at = place]
                                      ELSE told[c]]
  BY DEF Cancel, told
<1>4. \A c \in Clients : client[c] \in ClientType
  BY <1>1
<1> QED
  BY <1>2, <1>3, <1>4 DEF ClientType

\* Client c goes on to place, with job j; the others stay.
Moves(c, place, j) ==
    /\ client' \in [Clients -> ClientType]
    /\ \A d \in Clients \ {c} : client'[d] = client[d]
    /\ client'[c].at = place
    /\ client'[c].job = j

LEMMA ClientMoves ==
    ASSUME TypeOK, NEW c \in Clients, NEW place \in ClientPlaces, NEW j \in JobIds \cup {None}
    PROVE  /\ Enter(c, place, j) => Moves(c, place, j) /\ lock = Nobody /\ lock' = c
                                    /\ client[c].at = "idle"
           /\ Goto(c, place) => Moves(c, place, client[c].job)
           /\ Leave(c) => Moves(c, "idle", None)
           /\ Watch(c, j) => Moves(c, "watching", j)
<1>1. client \in [Clients -> ClientType] /\ key \in Keys
  BY DEF TypeOK, ClientType
<1>2. client[c] \in ClientType
  BY <1>1
<1>3. AtRest \in ClientType
  BY Names DEF AtRest, ClientType, ClientPlaces
<1>4. ASSUME Enter(c, place, j)
      PROVE  Moves(c, place, j) /\ lock = Nobody /\ lock' = c /\ client[c].at = "idle"
  <2>1. [at |-> place, key |-> key, job |-> j, queue |-> <<>>] \in ClientType
    BY <1>1 DEF ClientType
  <2> QED
    BY <1>1, <1>4, <2>1 DEF Enter, Moves
<1>5. ASSUME Goto(c, place) PROVE Moves(c, place, client[c].job)
  <2>1. client' = [client EXCEPT ![c] = [client[c] EXCEPT !.at = place]]
    BY <1>5 DEF Goto
  <2>2. [client[c] EXCEPT !.at = place] \in ClientType
    BY <1>2 DEF ClientType
  <2>3. /\ [client[c] EXCEPT !.at = place].at = place
        /\ [client[c] EXCEPT !.at = place].job = client[c].job
    BY <1>2 DEF ClientType
  <2> QED
    BY <1>1, <2>1, <2>2, <2>3 DEF Moves
<1>6. ASSUME Leave(c) PROVE Moves(c, "idle", None)
  BY <1>1, <1>3, <1>6 DEF Leave, Moves, AtRest
<1>7. ASSUME Watch(c, j) PROVE Moves(c, "watching", j)
  <2>1. [AtRest EXCEPT !.at = "watching", !.job = j] \in ClientType
    BY <1>3 DEF ClientType, ClientPlaces
  <2>2. /\ [AtRest EXCEPT !.at = "watching", !.job = j].at = "watching"
        /\ [AtRest EXCEPT !.at = "watching", !.job = j].job = j
    BY DEF AtRest
  <2> QED
    BY <1>1, <1>7, <2>1, <2>2 DEF Watch, Moves
<1> QED
  BY <1>4, <1>5, <1>6, <1>7

\* The thread of job j goes on to place; the others stay.
ThreadMoves(j, place) ==
    /\ worker' \in [JobIds -> WorkerType]
    /\ \A i \in JobIds \ {j} : worker'[i] = worker[i]
    /\ worker'[j].at = place

LEMMA WorkerMoves ==
    ASSUME TypeOK, NEW j \in JobIds, NEW place \in WorkerPlaces
    PROVE  /\ WorkerGoto(j, place) => ThreadMoves(j, place)
           /\ worker' = [worker EXCEPT ![j] = [worker[j] EXCEPT !.at = place, !.key = key]]
                => ThreadMoves(j, place)
           /\ worker' = [worker EXCEPT ![j] = [worker[j] EXCEPT !.at = place, !.built = key]]
                => ThreadMoves(j, place)
<1>1. worker \in [JobIds -> WorkerType] /\ key \in Keys /\ worker[j] \in WorkerType
  BY DEF TypeOK, WorkerType
<1>2. /\ [worker[j] EXCEPT !.at = place] \in WorkerType
      /\ [worker[j] EXCEPT !.at = place].at = place
  BY <1>1 DEF WorkerType
<1>3. /\ [worker[j] EXCEPT !.at = place, !.key = key] \in WorkerType
      /\ [worker[j] EXCEPT !.at = place, !.key = key].at = place
  BY <1>1 DEF WorkerType
<1>4. /\ [worker[j] EXCEPT !.at = place, !.built = key] \in WorkerType
      /\ [worker[j] EXCEPT !.at = place, !.built = key].at = place
  BY <1>1 DEF WorkerType
<1>5. ASSUME WorkerGoto(j, place) PROVE ThreadMoves(j, place)
  <2>1. worker' = [worker EXCEPT ![j] = [worker[j] EXCEPT !.at = place]]
    BY <1>5 DEF WorkerGoto
  <2> QED
    BY <1>1, <1>2, <2>1 DEF ThreadMoves
<1> QED
  BY <1>1, <1>3, <1>4, <1>5 DEF ThreadMoves

LEMMA LookupKeeps ==
    ASSUME TypeOK, Kept, ClosedAfter, NEW k \in Keys, Lookup(k)
    PROVE  /\ service' \in [artifact : JobIds \cup {None}, key : Keys \cup {None, Invalidated},
                            dirty : BOOLEAN]
           /\ closed' \subseteq JobIds
           /\ service'.artifact # None => service'.artifact = service.artifact
                                          /\ service'.artifact \notin closed'
           /\ \A i \in closed' : i \in closed \/ (i = service.artifact /\ i # None)
           /\ ~Drops(k) => service' = service /\ closed' = closed
<1>1. CASE Drops(k)
  <2>1. service' = EmptyService /\ closed' = closed \cup ({service.artifact} \ {None})
    BY <1>1 DEF Lookup
  <2>2. service.artifact \in JobIds \cup {None} /\ closed \subseteq JobIds
    BY DEF TypeOK
  <2>3. closed' \subseteq JobIds
    BY <2>1, <2>2
  <2> QED
    BY <1>1, <2>1, <2>3 DEF EmptyService
<1>2. CASE ~Drops(k)
  BY <1>2 DEF Lookup, TypeOK, Kept
<1> QED
  BY <1>1, <1>2

-----------------------------------------------------------------------------
(* The invariant is inductive *)

HistoryTyped == changes \in 0..MaxChanges /\ returned \subseteq JobIds

LEMMA SameHistory == ASSUME IInv, UNCHANGED history PROVE HistoryTyped'
BY DEF IInv, TypeOK, history, HistoryTyped

LEMMA ChangedHistory == ASSUME IInv, NEW kind, ChangeKey(kind) PROVE HistoryTyped'
BY ConstantsAssumption DEF IInv, TypeOK, ChangeKey, Deceived, HistoryTyped

\* A step of the clients that touches neither threads nor artifacts nor jobs.
LEMMA ClientStep ==
    ASSUME IInv, NEW c \in Clients, NEW place, NEW j, Moves(c, place, j),
           place \notin {"reading", "displaying", "starting"},
           UNCHANGED <<jobs, worker, closed, elsewhere>>, key' \in Keys, HistoryTyped',
           service'.artifact \in {service.artifact, None},
           service' \in [artifact : JobIds \cup {None}, key : Keys \cup {None, Invalidated},
                         dirty : BOOLEAN],
           \/ lock' = lock /\ (place \in InRequest => client[c].at \in InRequest)
           \/ lock' = Nobody /\ client[c].at \in InRequest /\ place \notin InRequest
           \/ lock = Nobody /\ lock' = c /\ client[c].at \notin InRequest
    PROVE  IInv'
<1>1. TypeOK'
  BY DEF IInv, TypeOK, Moves, ClientType, HistoryTyped
<1>2. Exclusive'
  BY Names DEF IInv, Exclusive, Moves
<1>3. Kept' /\ ReadersKept' /\ ClosedAfter' /\ Starting'
  BY DEF IInv, Kept, ReadersKept, ClosedAfter, Starting, Moves
<1>4. JobsFollowThreads' /\ OneBuildPerKey'
  BY DEF IInv, JobsFollowThreads, OneBuildPerKey, IsRunning
<1> QED
  BY <1>1, <1>2, <1>3, <1>4 DEF IInv

\* A step of thread j, alone or with the lock: it closes its own artifact
\* before that is installed, or the one in the service while it has the lock.
LEMMA ThreadStep ==
    ASSUME IInv, NEW j \in JobIds, NEW place \in WorkerPlaces \ {"none"},
           ThreadMoves(j, place), worker[j].at \notin {"none", "created"},
           worker[j].at \in After => place \in After,
           SamePlaces, UNCHANGED <<key, elsewhere, history>>,
           DOMAIN jobs' = DOMAIN jobs,
           \A i \in DOMAIN jobs :
                /\ jobs'[i] \in [status : Statuses, key : Keys]
                /\ jobs'[i].key = jobs[i].key
                /\ i # j => jobs'[i].status = jobs[i].status
                /\ jobs'[i].status \in Running => jobs[i].status \in Running
                /\ place # "ended" => (jobs[i].status \in Running => jobs'[i].status \in Running),
           worker[j].at # "ended" \/ place = "ended",
           service' \in [artifact : JobIds \cup {None}, key : Keys \cup {None, Invalidated},
                         dirty : BOOLEAN],
           service'.artifact # None =>
                /\ service'.artifact \notin closed'
                /\ \/ service'.artifact = service.artifact
                   \/ service'.artifact = j /\ place \in After,
           closed' \subseteq JobIds,
           \A i \in closed' :
                \/ i \in closed
                \/ i = j /\ worker[j].at \notin After /\ place \in After
                \/ i = service.artifact /\ i # None /\ lock = j,
           \/ lock' = lock /\ (place \in InLock => worker[j].at \in InLock)
           \/ lock' = Nobody /\ lock = j /\ place \notin InLock
           \/ lock' = j /\ lock = Nobody
    PROVE  IInv'
<1>1. TypeOK'
  BY DEF IInv, TypeOK, SamePlaces, ThreadMoves, ClientType, WorkerType, history
<1>2. Exclusive'
  BY Names DEF IInv, Exclusive, SamePlaces, ThreadMoves
<1>3. Kept'
  BY DEF IInv, TypeOK, Kept, ThreadMoves
<1>4. ReadersKept'
  <2> SUFFICES ASSUME NEW c \in Clients, client[c].at \in {"reading", "displaying"}
               PROVE  /\ client[c].job \in JobIds \ closed'
                      /\ worker'[client[c].job].at \in After
    BY DEF ReadersKept, SamePlaces
  <2>1. /\ client[c].job \in JobIds \ closed
        /\ worker[client[c].job].at \in After
        /\ lock = c
    BY DEF IInv, ReadersKept, Exclusive, InRequest
  <2>2. lock # j
    BY <2>1, Names
  <2> QED
    BY <2>1, <2>2 DEF ThreadMoves
<1>5. ClosedAfter'
  BY DEF IInv, Kept, ClosedAfter, ThreadMoves, TypeOK
<1>6. JobsFollowThreads'
  <2>1. JobsFollowThreads /\ worker \in [JobIds -> WorkerType] /\ Cached # j
    BY Names DEF IInv, TypeOK, WorkerType
  <2>2. \A i \in JobIds \ {j} : worker'[i] = worker[i]
    BY DEF ThreadMoves
  <2>3. worker'[j].at = place
    BY DEF ThreadMoves
  <2>4. \A i \in DOMAIN jobs \ {j} : i \in JobIds \ {j} \/ i = Cached
    BY DEF IInv, TypeOK
  <2> QED
    BY <2>1, <2>2, <2>3, <2>4 DEF JobsFollowThreads
<1>7. OneBuildPerKey' /\ Starting'
  BY DEF IInv, OneBuildPerKey, IsRunning, Starting, ThreadMoves, SamePlaces
<1> QED
  BY <1>1, <1>2, <1>3, <1>4, <1>5, <1>6, <1>7 DEF IInv

\* Opening a listing that is there.
LEMMA OpenCachedStep == ASSUME IInv, NEW c \in Clients, OpenCached(c) PROVE IInv'
<1>1. /\ TypeOK /\ Kept /\ ClosedAfter /\ client[c].key \in Keys /\ lock = c
      /\ Moves(c, "idle", None) /\ Lookup(client[c].key)
  BY ClientMoves DEF OpenCached, IInv, Exclusive, InRequest, TypeOK, ClientPlaces
<1>2. /\ service' \in [artifact : JobIds \cup {None}, key : Keys \cup {None, Invalidated},
                       dirty : BOOLEAN]
      /\ closed' \subseteq JobIds
      /\ service'.artifact # None => service'.artifact = service.artifact
                                     /\ service'.artifact \notin closed'
      /\ \A i \in closed' : i \in closed \/ (i = service.artifact /\ i # None)
  BY <1>1, LookupKeeps
<1>3. /\ DOMAIN jobs' = DOMAIN jobs \cup {Cached}
      /\ jobs'[Cached] = [status |-> "ready", key |-> client[c].key]
      /\ \A i \in DOMAIN jobs \ {Cached} : jobs'[i] = jobs[i]
  BY DEF OpenCached, WithJob
<1>4. UNCHANGED <<key, worker, elsewhere, history>> /\ lock' = Nobody
  BY DEF OpenCached
<1>5. TypeOK'
  BY <1>1, <1>2, <1>3, <1>4 DEF TypeOK, Moves, ClientType, Statuses, history
<1>6. Exclusive'
  BY <1>1, <1>4, Names DEF IInv, Exclusive, Moves, InRequest
<1>7. Kept' /\ ReadersKept' /\ ClosedAfter' /\ Starting'
  <2>1. \A d \in Clients : client'[d].at \notin {"reading", "displaying"}
    BY <1>1 DEF IInv, Exclusive, Moves, InRequest
  <2> QED
    BY <1>1, <1>2, <1>4, <2>1 DEF IInv, Kept, ReadersKept, ClosedAfter, Starting, Moves
<1>8. JobsFollowThreads' /\ OneBuildPerKey'
  BY <1>3, <1>4, Names DEF IInv, JobsFollowThreads, OneBuildPerKey, IsRunning, Running
<1> QED
  BY <1>5, <1>6, <1>7, <1>8 DEF IInv

\* A new job and its thread.
LEMMA OpenCreateStep == ASSUME IInv, NEW c \in Clients, OpenCreate(c) PROVE IInv'
<1>1. PICK j \in JobIds :
        /\ worker[j].at = "none"
        /\ jobs' = WithJob(j, [status |-> "queued", key |-> client[c].key])
        /\ worker' = [worker EXCEPT ![j].at = "created"]
        /\ client' = [client EXCEPT ![c] = [client[c] EXCEPT !.at = "starting", !.job = j]]
  BY DEF OpenCreate
<1>2. /\ client[c].at = "opening" /\ NoneToJoin(c)
      /\ UNCHANGED <<key, lock, service, closed, elsewhere, history>>
  BY DEF OpenCreate
<1>3. TypeOK /\ client[c] \in ClientType /\ client \in [Clients -> ClientType]
  BY DEF IInv, TypeOK, ClientType
<1>4. Moves(c, "starting", j)
  <2>1. [client[c] EXCEPT !.at = "starting", !.job = j] \in ClientType
    BY <1>3 DEF ClientType, ClientPlaces
  <2>2. /\ [client[c] EXCEPT !.at = "starting", !.job = j].at = "starting"
        /\ [client[c] EXCEPT !.at = "starting", !.job = j].job = j
    BY <1>3 DEF ClientType
  <2> QED
    BY <1>1, <1>3, <2>1, <2>2 DEF Moves
<1>5. ThreadMoves(j, "created")
  <2>1. WorkerGoto(j, "created")
    BY <1>1 DEF WorkerGoto
  <2> QED
    BY <1>3, <2>1, WorkerMoves DEF WorkerPlaces
<1>6. /\ DOMAIN jobs' = DOMAIN jobs \cup {j}
      /\ jobs'[j] = [status |-> "queued", key |-> client[c].key]
      /\ \A i \in DOMAIN jobs \ {j} : jobs'[i] = jobs[i]
  BY <1>1 DEF WithJob
<1>7. j \notin DOMAIN jobs
  BY <1>1, Names DEF IInv, JobsFollowThreads
<1>8. client[c].key \in Keys
  BY <1>3 DEF ClientType
<1>9. TypeOK'
  BY <1>2, <1>3, <1>4, <1>5, <1>6, <1>8 DEF TypeOK, Moves, ThreadMoves, ClientType,
      WorkerType, Statuses, Running, history
<1>10. Exclusive'
  BY <1>1, <1>2, <1>4, <1>5 DEF IInv, Exclusive, Moves, ThreadMoves, InRequest, InLock
<1>11. Kept' /\ ReadersKept' /\ ClosedAfter'
  BY <1>1, <1>2, <1>3, <1>4, <1>5 DEF IInv, Kept, ReadersKept, ClosedAfter, Moves,
      ThreadMoves, After, TypeOK
<1>12. JobsFollowThreads'
  BY <1>3, <1>5, <1>6, <1>7, Names DEF IInv, JobsFollowThreads, ThreadMoves, TypeOK, Running
<1>13. OneBuildPerKey'
  <2>1. \A i \in DOMAIN jobs : jobs[i].key = client[c].key => jobs[i].status \notin Running
    BY <1>2 DEF NoneToJoin, WithKey
  <2> QED
    BY <1>6, <1>7, <2>1 DEF IInv, OneBuildPerKey, IsRunning
<1>14. Starting'
  <2>1. worker'[j].at = "created" /\ client'[c].job = j
    BY <1>4, <1>5 DEF Moves, ThreadMoves
  <2>2. \A d \in Clients \ {c} : client'[d].at # "starting"
    BY <1>2, <1>4 DEF IInv, Exclusive, InRequest, Moves
  <2> QED
    BY <2>1, <2>2 DEF Starting
<1> QED
  BY <1>9, <1>10, <1>11, <1>12, <1>13, <1>14 DEF IInv

\* The thread is started.
LEMMA OpenStartStep == ASSUME IInv, NEW c \in Clients, OpenStart(c) PROVE IInv'
<1> DEFINE j == client[c].job
<1>1. TypeOK /\ j \in JobIds /\ worker[j].at = "created" /\ client[c].at = "starting"
  BY DEF OpenStart, IInv, Starting
<1>2. UNCHANGED <<key, lock, jobs, service, closed, elsewhere, history>>
  BY DEF OpenStart
<1>3. Moves(c, "answering", j)
  BY <1>1, ClientMoves DEF OpenStart, ClientPlaces
<1>4. ThreadMoves(j, "started")
  <2>1. WorkerGoto(j, "started")
    BY DEF OpenStart, WorkerGoto
  <2> QED
    BY <1>1, <2>1, WorkerMoves DEF WorkerPlaces
<1> HIDE DEF j
<1>5. TypeOK'
  BY <1>1, <1>2, <1>3, <1>4 DEF TypeOK, Moves, ThreadMoves, ClientType, WorkerType, history
<1>6. Exclusive'
  BY <1>1, <1>2, <1>3, <1>4 DEF IInv, Exclusive, Moves, ThreadMoves, InRequest, InLock
<1>7. Kept' /\ ReadersKept' /\ ClosedAfter'
  <2>1. \A i \in JobIds : worker[i].at \in After => worker'[i].at \in After
    BY <1>1, <1>4 DEF ThreadMoves, After
  <2>2. Kept'
    BY <1>1, <1>2, <2>1 DEF IInv, Kept, TypeOK
  <2>3. ReadersKept'
    BY <1>2, <1>3, <2>1 DEF IInv, ReadersKept, Moves
  <2>4. ClosedAfter'
    BY <1>1, <1>2, <2>1 DEF IInv, ClosedAfter, TypeOK
  <2> QED
    BY <2>2, <2>3, <2>4
<1>8. JobsFollowThreads' /\ OneBuildPerKey'
  BY <1>1, <1>2, <1>4, Names DEF IInv, JobsFollowThreads, OneBuildPerKey, IsRunning,
      ThreadMoves, TypeOK
<1>9. Starting'
  <2>1. \A d \in Clients : client'[d].at # "starting"
    BY <1>1, <1>3 DEF IInv, Exclusive, InRequest, Moves
  <2> QED
    BY <2>1 DEF Starting
<1> QED
  BY <1>5, <1>6, <1>7, <1>8, <1>9 DEF IInv

\* A read takes the lock and looks the artifact up.
LEMMA ReadStep == ASSUME IInv, NEW c \in Clients, Read(c) PROVE IInv'
<1>1. /\ TypeOK /\ Kept /\ ClosedAfter /\ key \in Keys /\ lock = Nobody /\ Lookup(key)
      /\ UNCHANGED <<key, jobs, worker, elsewhere, history>>
  BY DEF Read, IInv, TypeOK
<1>2. /\ service' \in [artifact : JobIds \cup {None}, key : Keys \cup {None, Invalidated},
                       dirty : BOOLEAN]
      /\ closed' \subseteq JobIds
      /\ service'.artifact # None => service'.artifact = service.artifact
                                     /\ service'.artifact \notin closed'
      /\ \A i \in closed' : i \in closed \/ (i = service.artifact /\ i # None)
      /\ ~Drops(key) => service' = service /\ closed' = closed
  BY <1>1, LookupKeeps
<1>3. \A d \in Clients : client[d].at \notin {"reading", "displaying"}
  BY <1>1, Names DEF IInv, Exclusive, InRequest
<1>4. Kept' /\ ClosedAfter' /\ JobsFollowThreads' /\ OneBuildPerKey'
  BY <1>1, <1>2 DEF IInv, Kept, ClosedAfter, JobsFollowThreads, OneBuildPerKey, IsRunning
<1>5. ASSUME NEW place \in {"reading", "displaying"}, Enter(c, place, service.artifact),
             service.artifact # None, ~Drops(key)
      PROVE  IInv'
  <2>1. service.artifact \in JobIds
    BY <1>1, <1>5 DEF TypeOK
  <2>2. Moves(c, place, service.artifact) /\ lock' = c
    BY <1>1, <1>5, <2>1, ClientMoves DEF ClientPlaces
  <2>3. TypeOK'
    BY <1>1, <1>2, <2>2 DEF TypeOK, Moves, ClientType, history
  <2>4. Exclusive'
    BY <1>1, <2>2, Names DEF IInv, Exclusive, Moves
  <2>5. ReadersKept'
    BY <1>1, <1>2, <1>3, <1>5, <2>1, <2>2 DEF ReadersKept, Kept, Moves
  <2>6. Starting'
    BY <1>1, <2>2 DEF IInv, Starting, Moves
  <2> QED
    BY <1>4, <2>3, <2>4, <2>5, <2>6 DEF IInv
<1>6. ASSUME UNCHANGED <<lock, client>> PROVE IInv'
  <2>1. TypeOK' /\ Exclusive' /\ ReadersKept' /\ Starting'
    BY <1>1, <1>2, <1>3, <1>6 DEF IInv, TypeOK, Exclusive, ReadersKept, Starting, history
  <2> QED
    BY <1>4, <2>1 DEF IInv
<1>7. CASE ValidArtifact(key) # None /\ Enter(c, "reading", ValidArtifact(key))
  <2>1. ValidArtifact(key) = service.artifact /\ service.key = key
    BY <1>7 DEF ValidArtifact
  <2> QED
    BY <1>5, <1>7, <2>1 DEF Drops
<1>8. CASE ReadArtifact(key) # None /\ Enter(c, "displaying", ReadArtifact(key))
  <2>1. ReadArtifact(key) = service.artifact /\ ~Drops(key)
    BY <1>8 DEF ReadArtifact, ValidArtifact, Drops
  <2> QED
    BY <1>5, <1>8, <2>1
<1> QED
  BY <1>6, <1>7, <1>8 DEF Read

\* Without jobs there is nothing to build twice.
LEMMA CancelStep ==
    ASSUME IInv, NEW self, NEW place \in ClientPlaces, Cancel(self, place),
           UNCHANGED <<key, lock, service, closed, worker, history>>,
           elsewhere' \in {"idle", "written", "invalidated"},
           place \notin {"reading", "displaying", "starting"},
           self \in Clients => (place \in InRequest => client[self].at \in InRequest)
    PROVE  IInv'
<1>1. /\ jobs' = <<>>
      /\ client' \in [Clients -> ClientType]
      /\ \A c \in Clients :
           /\ client'[c].at = IF c = self THEN place ELSE client[c].at
           /\ client'[c].job = client[c].job
  BY CancelKeeps DEF IInv
<1>2. DOMAIN jobs' = {}
  BY <1>1
<1>3. TypeOK'
  BY <1>1, <1>2 DEF IInv, TypeOK, ClientType, history
<1>4. Exclusive'
  BY <1>1 DEF IInv, Exclusive
<1>5. Kept' /\ ReadersKept' /\ ClosedAfter' /\ Starting'
  BY <1>1 DEF IInv, Kept, ReadersKept, ClosedAfter, Starting
<1>6. JobsFollowThreads' /\ OneBuildPerKey'
  BY <1>2 DEF JobsFollowThreads, OneBuildPerKey
<1> QED
  BY <1>3, <1>4, <1>5, <1>6 DEF IInv

\* Steps of requests and streams that leave jobs, threads and artifacts alone.
LEMMA RequestIInv == ASSUME IInv, NEW c \in Clients, RequestStep(c) PROVE IInv'
<1> USE DEF ClientPlaces, InRequest
<1>0. TypeOK /\ service \in [artifact : JobIds \cup {None},
                             key : Keys \cup {None, Invalidated}, dirty : BOOLEAN]
      /\ key \in Keys /\ client[c].job \in JobIds \cup {None}
  BY DEF IInv, TypeOK
<1>1. CASE OpenHit(c)
  BY <1>0, <1>1, ClientMoves, ClientStep, SameHistory DEF OpenHit
<1>2. CASE OpenCached(c)
  BY <1>2, OpenCachedStep
<1>3. CASE OpenJoin(c)
  <2>1. PICK j \in DOMAIN jobs : jobs[j].status \in Running /\ Watch(c, j)
    BY <1>3 DEF OpenJoin, WithKey
  <2>2. j \in JobIds
    BY <1>0, <2>1 DEF IInv, JobsFollowThreads, TypeOK, Running
  <2> QED
    BY <1>0, <1>3, <2>1, <2>2, ClientMoves, ClientStep, SameHistory DEF OpenJoin
<1>4. CASE OpenFailed(c)
  BY <1>0, <1>4, ClientMoves, ClientStep, SameHistory DEF OpenFailed
<1>5. CASE OpenCreate(c)
  BY <1>5, OpenCreateStep
<1>6. CASE OpenAnswer(c)
  BY <1>0, <1>6, ClientMoves, ClientStep, SameHistory DEF OpenAnswer, IsRunning
<1>7. CASE ReadEnd(c)
  BY <1>0, <1>7, ClientMoves, ClientStep, SameHistory DEF ReadEnd
<1>8. CASE EditPresentation(c)
  BY <1>0, <1>8, ClientMoves, ClientStep, SameHistory DEF EditPresentation
<1>9. CASE EditCancel(c)
  BY <1>0, <1>9, CancelStep DEF EditCancel, TypeOK
<1>10. CASE EditInvalidate(c)
  BY <1>0, <1>10, ClientMoves, ClientStep, SameHistory DEF EditInvalidate, EmptyService
<1>11. CASE EditFails(c)
  BY <1>0, <1>11, ClientMoves, ClientStep, SameHistory DEF EditFails
<1>12. CASE OpenStart(c)
  BY <1>12, OpenStartStep
<1> QED
  BY <1>1, <1>2, <1>3, <1>4, <1>5, <1>6, <1>7, <1>8, <1>9, <1>10, <1>11, <1>12
  DEF RequestStep

\* Steps of the thread of a job.
LEMMA WorkerIInv == ASSUME IInv, NEW j \in JobIds, WorkerStep(j) PROVE IInv'
<1> USE DEF WorkerPlaces, After, InLock
<1>0. /\ TypeOK /\ Kept /\ ClosedAfter /\ key \in Keys
      /\ service \in [artifact : JobIds \cup {None},
                      key : Keys \cup {None, Invalidated}, dirty : BOOLEAN]
      /\ closed \subseteq JobIds
      /\ \A i \in DOMAIN jobs : jobs[i] \in [status : Statuses, key : Keys]
      /\ client \in [Clients -> ClientType]
      /\ "building" \in Statuses /\ "ready" \in Statuses /\ "failed" \in Statuses
      /\ "artifact_ready" \in Events
  BY DEF IInv, TypeOK, Statuses, Running, Events, ClientType
<1>1. ASSUME UNCHANGED client PROVE SamePlaces
  BY <1>0, <1>1 DEF SamePlaces
<1>2. /\ service.artifact # None => service.artifact \notin closed
                                    /\ worker[service.artifact].at \in After
      /\ j \in closed => worker[j].at \in After
      /\ worker[j].at \in InLock => lock = j
      /\ j \in DOMAIN jobs /\ worker[j].at \notin {"none", "ended"}
            => jobs[j].status \in Running
  BY Names DEF IInv, Kept, ClosedAfter, Exclusive, JobsFollowThreads
<1>3. CASE WorkerQuits(j)
  <2>1. /\ ThreadMoves(j, "ended") /\ worker[j].at \in {"started", "built", "announced"}
        /\ UNCHANGED <<key, elsewhere, lock, jobs, service, history>> /\ SamePlaces
        /\ closed' = IF worker[j].at = "built" THEN closed \cup {j} ELSE closed
    BY <1>0, <1>1, <1>3, WorkerMoves DEF WorkerQuits, End
  <2> QED
    BY <1>0, <1>2, <2>1, ThreadStep
<1>4. CASE WorkerStart(j)
  <2>1. /\ ThreadMoves(j, "building") /\ worker[j].at = "started"
        /\ UNCHANGED <<key, elsewhere, lock, closed, service, history>>
        /\ SetStatus(j, "building")
    BY <1>0, <1>4, WorkerMoves DEF WorkerStart
  <2> QED
    BY <1>0, <1>2, <2>1, SetStatusKeeps, ThreadStep DEF Running
<1>5. CASE Build(j)
  <2>1. /\ ThreadMoves(j, "built") /\ worker[j].at = "building" /\ SamePlaces
        /\ UNCHANGED <<key, elsewhere, lock, jobs, closed, service, history>>
    BY <1>0, <1>1, <1>5, WorkerMoves DEF Build
  <2> QED
    BY <1>0, <1>2, <2>1, ThreadStep
<1>6. CASE CacheArtifact(j)
  <2>1. /\ ThreadMoves(j, "waiting") /\ worker[j].at = "built"
        /\ UNCHANGED <<key, elsewhere, lock, closed, service, history>>
        /\ SetStatus(j, "building")
    BY <1>0, <1>6, WorkerMoves DEF CacheArtifact
  <2> QED
    BY <1>0, <1>2, <2>1, SetStatusKeeps, ThreadStep DEF Running
<1>7. CASE WorkerLocks(j)
  <2>1. /\ ThreadMoves(j, "locked") /\ worker[j].at = "waiting" /\ SamePlaces
        /\ UNCHANGED <<key, elsewhere, jobs, closed, service, history>>
        /\ lock = Nobody /\ lock' = j
    BY <1>0, <1>1, <1>7, WorkerMoves DEF WorkerLocks
  <2> QED
    BY <1>0, <1>2, <2>1, ThreadStep
<1>8. CASE FindStale(j)
  <2>1. /\ ThreadMoves(j, "ended") /\ worker[j].at = "locked" /\ SetStatus(j, "failed")
        /\ UNCHANGED <<key, elsewhere, service, history>>
        /\ closed' = closed \cup {j} /\ lock' = Nobody
    BY <1>0, <1>8, WorkerMoves DEF FindStale, End
  <2> QED
    BY <1>0, <1>2, <2>1, SetStatusKeeps, ThreadStep DEF Running
<1>9. CASE FindFresh(j)
  <2>1. /\ ThreadMoves(j, "fresh") /\ worker[j].at = "locked" /\ SamePlaces
        /\ UNCHANGED <<key, elsewhere, lock, jobs, closed, service, history>>
    BY <1>0, <1>1, <1>9, WorkerMoves DEF FindFresh
  <2> QED
    BY <1>0, <1>2, <2>1, ThreadStep
<1>10. CASE Drop(j)
  <2>1. /\ ThreadMoves(j, "ended") /\ worker[j].at = "fresh" /\ SamePlaces
        /\ UNCHANGED <<key, elsewhere, jobs, service, history>>
        /\ closed' = closed \cup {j} /\ lock' = Nobody
    BY <1>0, <1>1, <1>10, WorkerMoves DEF Drop, End
  <2> QED
    BY <1>0, <1>2, <2>1, ThreadStep
<1>11. CASE Install(j)
  <2>1. /\ ThreadMoves(j, "installed") /\ worker[j].at = "fresh" /\ SamePlaces
        /\ UNCHANGED <<key, elsewhere, lock, jobs, history>>
        /\ closed' = closed \cup ({service.artifact} \ {None, j})
        /\ service' = [artifact |-> j, key |-> worker[j].key, dirty |-> FALSE]
    BY <1>0, <1>1, <1>11, WorkerMoves DEF Install, Installed
  <2>2. worker[j].key \in Keys
    BY <1>0 DEF TypeOK
  <2>3. closed' \subseteq JobIds
    BY <1>0, <2>1
  <2>4. service'.artifact = j /\ j \notin closed'
    BY <1>2, <2>1
  <2>5. service' \in [artifact : JobIds \cup {None}, key : Keys \cup {None, Invalidated},
                      dirty : BOOLEAN]
    BY <2>1, <2>2
  <2>6. \A i \in closed' : i \in closed \/ (i = service.artifact /\ i # None /\ lock = j)
    BY <1>2, <2>1
  <2> QED
    BY <1>0, <1>2, <2>1, <2>3, <2>4, <2>5, <2>6, ThreadStep
<1>12. CASE Prewarm(j)
  <2>1. /\ ThreadMoves(j, "announcing") /\ worker[j].at = "installed" /\ SamePlaces
        /\ UNCHANGED <<key, elsewhere, jobs, history>> /\ Lookup(key) /\ lock' = Nobody
    BY <1>0, <1>1, <1>12, WorkerMoves DEF Prewarm
  <2> QED
    BY <1>0, <1>2, <2>1, LookupKeeps, ThreadStep
<1>13. CASE Announce(j)
  <2> DEFINE event == [i \in {j} |-> "artifact_ready"]
  <2>1. /\ ThreadMoves(j, "announced") /\ worker[j].at = "announcing"
        /\ UNCHANGED <<key, elsewhere, lock, jobs, closed, service, history>>
        /\ client' = Heard(event)
    BY <1>0, <1>13, WorkerMoves DEF Announce
  <2>2. \A i \in DOMAIN event : event[i] \in Events
    BY <1>0
  <2> HIDE DEF event
  <2>3. SamePlaces
    BY <1>0, <2>1, <2>2, HeardKeepsPlaces DEF SamePlaces
  <2> QED
    BY <1>0, <1>2, <2>1, <2>3, ThreadStep
<1>14. CASE Report(j)
  <2>1. /\ ThreadMoves(j, "ended") /\ worker[j].at = "announced" /\ SetStatus(j, "ready")
        /\ UNCHANGED <<key, elsewhere, lock, closed, service, history>>
    BY <1>0, <1>14, WorkerMoves DEF Report, End
  <2> QED
    BY <1>0, <1>2, <2>1, SetStatusKeeps, ThreadStep DEF Running
<1>15. CASE WorkerFails(j)
  <2>1. /\ ThreadMoves(j, "ended") /\ worker[j].at \in {"building", "installed"}
        /\ SetStatus(j, "failed") /\ UNCHANGED <<key, elsewhere, closed, service, history>>
        /\ lock' = IF lock = j THEN Nobody ELSE lock
    BY <1>0, <1>15, WorkerMoves DEF WorkerFails, End
  <2> QED
    BY <1>0, <1>2, <2>1, SetStatusKeeps, ThreadStep DEF Running
<1> QED
  BY <1>3, <1>4, <1>5, <1>6, <1>7, <1>8, <1>9, <1>10, <1>11, <1>12, <1>13, <1>14, <1>15
  DEF WorkerStep

\* Streams, and steps from elsewhere.
LEMMA StreamIInv ==
    ASSUME IInv, NEW c \in Clients, StreamStep(c) \/ Disconnect(c)
    PROVE  IInv'
<1> USE DEF ClientPlaces, InRequest
<1>0. TypeOK /\ service \in [artifact : JobIds \cup {None},
                             key : Keys \cup {None, Invalidated}, dirty : BOOLEAN]
      /\ key \in Keys /\ client[c].job \in JobIds \cup {None}
  BY DEF IInv, TypeOK
<1>1. CASE WatchBegin(c)
  BY <1>0, <1>1, ClientMoves, ClientStep, SameHistory DEF WatchBegin
<1>2. CASE Subscribe(c)
  BY <1>0, <1>2, ClientMoves, ClientStep, SameHistory DEF Subscribe
<1>3. CASE Hear(c)
  <2>1. CASE Head(client[c].queue) \in {"ready", "failed"}
    BY <1>0, <1>3, <2>1, ClientMoves, ClientStep, SameHistory DEF Hear
  <2>2. CASE Head(client[c].queue) \notin {"ready", "failed"}
    <3>1. client \in [Clients -> ClientType] /\ client[c] \in ClientType
      BY <1>0 DEF TypeOK, ClientType
    <3>2. client' = [client EXCEPT ![c] = [client[c] EXCEPT !.queue = Tail(client[c].queue)]]
      BY <1>3, <2>2 DEF Hear
    <3>3. Tail(client[c].queue) \in Seq(Events)
      BY <1>3, <3>1 DEF Hear, ClientType
    <3>4. Moves(c, "listening", client[c].job)
      BY <1>3, <3>1, <3>2, <3>3 DEF Moves, ClientType, Hear
    <3> QED
      BY <1>0, <1>3, <3>4, ClientStep, SameHistory DEF Hear
  <2> QED
    BY <2>1, <2>2
<1>4. CASE Disconnect(c)
  BY <1>0, <1>4, ClientMoves, ClientStep, SameHistory DEF Disconnect
<1> QED
  BY <1>1, <1>2, <1>3, <1>4 DEF StreamStep

LEMMA BeginIInv ==
    ASSUME IInv, NEW c \in Clients, OpenBegin(c) \/ EditBegin(c) \/ Rollback(c)
    PROVE  IInv'
<1> USE DEF ClientPlaces, InRequest
<1>0. TypeOK /\ service \in [artifact : JobIds \cup {None},
                             key : Keys \cup {None, Invalidated}, dirty : BOOLEAN]
      /\ key \in Keys
  BY DEF IInv, TypeOK
<1>1. CASE OpenBegin(c)
  BY <1>0, <1>1, ClientMoves, ClientStep, SameHistory DEF OpenBegin
<1>2. CASE EditBegin(c)
  BY <1>0, <1>2, ClientMoves, ClientStep, ChangedHistory DEF EditBegin, ChangeKey
<1>3. CASE Rollback(c)
  BY <1>0, <1>3, ClientMoves, ClientStep, ChangedHistory DEF Rollback, ChangeKey
<1> QED
  BY <1>1, <1>2, <1>3

LEMMA ElsewhereIInv ==
    ASSUME IInv, WriteCorrections \/ InvalidateAll \/ CancelAll \/ InputsChange
    PROVE  IInv'
<1> USE DEF IInv, TypeOK, Exclusive, Kept, ReadersKept, ClosedAfter, JobsFollowThreads,
            Starting, OneBuildPerKey, IsRunning, history
<1>1. CASE WriteCorrections
  BY <1>1 DEF WriteCorrections
<1>2. CASE InvalidateAll
  BY <1>2 DEF InvalidateAll
<1>3. CASE CancelAll
  BY <1>3, CancelStep DEF CancelAll, ClientPlaces, InRequest
<1>4. CASE InputsChange
  BY <1>4, ChangedHistory DEF InputsChange, ChangeKey, HistoryTyped
<1> QED
  BY <1>1, <1>2, <1>3, <1>4

LEMMA StepIInv == IInv /\ [Next]_vars => IInv'
<1> SUFFICES ASSUME IInv, [Next]_vars PROVE IInv'
  OBVIOUS
<1>1. CASE UNCHANGED vars
  BY <1>1 DEF vars, history, IInv, TypeOK, Exclusive, Kept, ReadersKept, ClosedAfter,
      JobsFollowThreads, Starting, OneBuildPerKey, IsRunning
<1>2. CASE Next
  BY <1>2, BeginIInv, ReadStep, RequestIInv, StreamIInv, WorkerIInv, ElsewhereIInv DEF Next
<1> QED
  BY <1>1, <1>2

\* What ties requests, threads, jobs and artifacts together.
THEOREM ListingInvariant == Spec => []IInv
BY InitIInv, StepIInv, PTL DEF Spec

\* Requests and threads only ever stand where the code puts them, and jobs,
\* events and artifacts are what the code makes of them.
THEOREM ListingTyped == Spec => []TypeOK
<1>1. IInv => TypeOK
  BY DEF IInv
<1> QED
  BY <1>1, ListingInvariant, PTL

\* No artifact is closed while a request reads it, however many clients, builds
\* and changes of the inputs there are.
THEOREM ReadersKeepArtifacts == Spec => []NoReadAfterClose
<1>1. IInv => NoReadAfterClose
  BY DEF IInv, ReadersKept, NoReadAfterClose
<1> QED
  BY <1>1, ListingInvariant, PTL

\* One set of inputs is never being built by two jobs at a time.
THEOREM BuildsAreNotRepeated == Spec => []OneBuildPerKey
<1>1. IInv => OneBuildPerKey
  BY DEF IInv
<1> QED
  BY <1>1, ListingInvariant, PTL
-----------------------------------------------------------------------------
(* What is read is current.  The thread computes the key before it builds  *)
(* and compares it under the lock afterwards.  Between the two the inputs  *)
(* may have been others; the comparison finds that, unless they are back.  *)

Filing == {"installed", "announcing", "announced"}

\* The thread w, when the target has key k, has built from the inputs of the key it
\* has computed, if a comparison would say so or has said so.
Honest(w, k, deceived) ==
    \/ deceived
    \/ /\ w.at \in {"built", "waiting", "locked"} /\ w.key = k => w.built = k
       /\ w.at \in Filing \cup {"fresh"} => w.built = w.key

Faithful(j) == worker[j].built = worker[j].key \/ j \in returned

\* The job of an installed artifact asks for what was built.
Wanted ==
    \A j \in DOMAIN jobs \ {Cached} :
        worker[j].at \in {"installed", "announcing", "announced"} => jobs[j].key = worker[j].key

\* What the service offers for a key was built from the inputs of that key.
Exact(s) ==
    s.artifact # None /\ s.key \in Keys =>
        worker[s.artifact].built = s.key \/ s.artifact \in returned

ExactInv ==
    /\ \A j \in JobIds : Honest(worker[j], key, j \in returned)
    /\ Wanted
    /\ Exact(service)
    /\ ExactReadsAreCurrent
    /\ ReadyMeansAsAsked

\* A change of the service that offers nothing else.
Offers(s, t) ==
    \/ t.artifact = None
    \/ t.artifact = s.artifact /\ (t.key = s.key \/ t.key \notin Keys)

\* Who is reading was reading, or reads what was built for him.
ReadersStay ==
    \A d \in Clients : client'[d].at = "reading" =>
        \/ client'[d] = client[d]
        \/ /\ client'[d].job \in JobIds
           /\ worker[client'[d].job].built = client'[d].key \/ client'[d].job \in returned

\* The inputs stay as they are, or their return deceives the jobs it can.
KeyMoves ==
    /\ key' \in Keys
    /\ returned \subseteq returned'
    /\ key' = key \/ Deceived(key') \subseteq returned'

LEMMA HonestStays ==
    ASSUME KeyMoves, NEW j \in JobIds, Honest(worker[j], key, j \in returned)
    PROVE  Honest(worker[j], key', j \in returned')
<1>1. CASE j \in returned'
  BY <1>1 DEF Honest
<1>2. CASE j \notin returned'
  <2>1. j \notin returned /\ (key' = key \/ j \notin Deceived(key'))
    BY <1>2 DEF KeyMoves
  <2> QED
    BY <2>1 DEF Honest, Deceived
<1> QED
  BY <1>1, <1>2

\* A step that leaves the threads alone.
LEMMA ExactIfNoThread ==
    ASSUME IInv, ExactInv, UNCHANGED worker, KeyMoves, ReadersStay, Offers(service, service'),
           \A j \in DOMAIN jobs' \ {Cached} : j \in DOMAIN jobs /\ jobs'[j] = jobs[j]
    PROVE  ExactInv'
<1>1. TypeOK /\ worker \in [JobIds -> WorkerType] /\ key \in Keys
  BY DEF IInv, TypeOK, WorkerType
<1>2. \A j \in JobIds : Honest(worker'[j], key', j \in returned')
  BY HonestStays DEF ExactInv
<1>3. Wanted' /\ ReadyMeansAsAsked'
  BY DEF ExactInv, Wanted, ReadyMeansAsAsked, KeyMoves
<1>4. Exact(service)'
  BY DEF ExactInv, Exact, Offers, KeyMoves
<1>5. ExactReadsAreCurrent'
  BY DEF ExactInv, ExactReadsAreCurrent, ReadersStay, KeyMoves
<1> QED
  BY <1>2, <1>3, <1>4, <1>5 DEF ExactInv

\* A step of client c that does not begin to read.
LEMMA ClientExact ==
    ASSUME IInv, ExactInv, NEW c \in Clients, NEW place, NEW j, Moves(c, place, j),
           place # "reading", UNCHANGED worker, KeyMoves, Offers(service, service'),
           \A i \in DOMAIN jobs' \ {Cached} : i \in DOMAIN jobs /\ jobs'[i] = jobs[i]
    PROVE  ExactInv'
<1>1. ReadersStay
  BY DEF Moves, ReadersStay
<1> QED
  BY <1>1, ExactIfNoThread

LEMMA SameKey == IInv /\ UNCHANGED <<key, history>> => KeyMoves
BY DEF IInv, TypeOK, KeyMoves, history

LEMMA ChangedKey ==
    ASSUME NEW kind, ChangeKey(kind)
    PROVE  KeyMoves
BY DEF KeyMoves, ChangeKey

LEMMA LookupOffers ==
    ASSUME NEW k, Lookup(k)
    PROVE  Offers(service, service')
BY DEF Lookup, Offers, EmptyService

LEMMA CancelExact ==
    ASSUME IInv, ExactInv, NEW self, NEW place \in ClientPlaces \ {"reading"}, Cancel(self, place),
           UNCHANGED <<key, service, worker, history>>
    PROVE  ExactInv'
<1>1. client \in [Clients -> ClientType]
  BY DEF IInv, TypeOK, ClientType
<1>2. ReadersStay
  <2> SUFFICES ASSUME NEW d \in Clients, client'[d].at = "reading"
               PROVE  client'[d] = client[d]
    BY DEF ReadersStay
  <2>1. client[d] \in ClientType
    BY <1>1
  <2>2. CASE d = self
    <3>1. client'[d] = [client[d] EXCEPT !.at = place]
      BY <2>2 DEF Cancel
    <3> QED
      BY <2>1, <3>1 DEF ClientType
  <2>3. CASE d # self
    <3> DEFINE events == [j \in DOMAIN jobs |-> "failed"]
    <3>1. client'[d] = Heard(events)[d]
      BY <2>3 DEF Cancel
    <3> HIDE DEF events
    <3>2. CASE client[d].at = "listening"
      <4>1. Heard(events)[d].at = "listening"
        BY <2>1, <3>2 DEF Heard, ClientType
      <4> QED
        BY <3>1, <4>1
    <3>3. CASE client[d].at # "listening"
      BY <3>1, <3>3 DEF Heard
    <3> QED
      BY <3>2, <3>3
  <2> QED
    BY <2>2, <2>3
<1>3. jobs' = <<>> /\ KeyMoves /\ Offers(service, service')
  BY SameKey, CancelKeeps DEF Cancel, Offers
<1>4. DOMAIN jobs' = {}
  BY <1>3
<1> QED
  BY <1>2, <1>3, <1>4, ExactIfNoThread

\* The exact artifact, read under the lock.
LEMMA ReadExact == ASSUME IInv, ExactInv, NEW c \in Clients, Read(c) PROVE ExactInv'
<1>1. TypeOK /\ UNCHANGED <<key, jobs, worker, history>> /\ KeyMoves /\ Offers(service, service')
  BY SameKey, LookupOffers DEF IInv, Read
<1>2. ASSUME NEW place \in {"reading", "displaying"}, NEW j \in JobIds, Enter(c, place, j)
      PROVE  Moves(c, place, j) /\ client'[c].key = key
  <2>1. Moves(c, place, j)
    BY <1>1, <1>2, ClientMoves DEF ClientPlaces
  <2>2. client' = [client EXCEPT ![c] = [at |-> place, key |-> key, job |-> j, queue |-> <<>>]]
        /\ client \in [Clients -> ClientType]
    BY <1>1, <1>2 DEF Enter, TypeOK, ClientType
  <2> QED
    BY <2>1, <2>2
<1>3. CASE ValidArtifact(key) # None /\ Enter(c, "reading", ValidArtifact(key))
  <2>1. service.artifact # None /\ service.artifact \in JobIds /\ service.key = key
        /\ Enter(c, "reading", service.artifact) /\ key \in Keys
    BY <1>1, <1>3 DEF ValidArtifact, TypeOK
  <2>2. Moves(c, "reading", service.artifact) /\ client'[c].key = key
    BY <1>2, <2>1
  <2>3. worker[service.artifact].built = key \/ service.artifact \in returned
    BY <2>1 DEF ExactInv, Exact
  <2>4. ReadersStay
    BY <2>1, <2>2, <2>3 DEF ReadersStay, Moves
  <2> QED
    BY <1>1, <2>4, ExactIfNoThread
<1>4. CASE ReadArtifact(key) # None /\ Enter(c, "displaying", ReadArtifact(key))
  <2>1. ReadArtifact(key) \in JobIds
    BY <1>1, <1>4 DEF ReadArtifact, ValidArtifact, TypeOK
  <2>2. Moves(c, "displaying", ReadArtifact(key))
    BY <1>2, <1>4, <2>1
  <2> QED
    BY <1>1, <2>2, ClientExact
<1>5. CASE UNCHANGED client
  BY <1>1, <1>5, ExactIfNoThread DEF ReadersStay
<1> QED
  BY <1>3, <1>4, <1>5 DEF Read

LEMMA BeginExact ==
    ASSUME IInv, ExactInv, NEW c \in Clients,
           OpenBegin(c) \/ EditBegin(c) \/ Rollback(c)
    PROVE  ExactInv'
<1>1. TypeOK
  BY DEF IInv
<1>2. CASE OpenBegin(c)
  BY <1>1, <1>2, SameKey, ClientMoves, ClientExact DEF OpenBegin, Offers, ClientPlaces
<1>3. CASE EditBegin(c)
  <2>1. KeyMoves
    BY <1>3, ChangedKey DEF EditBegin
  <2>2. Enter(c, "edited", None) /\ UNCHANGED <<jobs, service, worker>>
    BY <1>3 DEF EditBegin
  <2>3. Moves(c, "edited", None)
    BY <1>1, <2>2, ClientMoves DEF ClientPlaces
  <2>4. Offers(service, service')
    BY <2>2 DEF Offers
  <2> QED
    BY <2>1, <2>2, <2>3, <2>4, ClientExact
<1>4. CASE Rollback(c)
  BY <1>1, <1>4, ChangedKey, ClientMoves, ClientExact DEF Rollback, Offers, ClientPlaces
<1> QED
  BY <1>2, <1>3, <1>4

LEMMA StreamExact ==
    ASSUME IInv, ExactInv, NEW c \in Clients, StreamStep(c) \/ Disconnect(c)
    PROVE  ExactInv'
<1>1. TypeOK /\ client \in [Clients -> ClientType] /\ client[c].job \in JobIds \cup {None}
  BY DEF IInv, TypeOK, ClientType
<1>2. UNCHANGED <<key, jobs, service, worker, history>>
  BY DEF StreamStep, WatchBegin, Subscribe, Hear, Disconnect
<1>3. ReadersStay
  <2>1. CASE Leave(c)
    BY <1>1, <2>1, ClientMoves DEF Moves, ReadersStay, ClientPlaces
  <2>2. CASE Goto(c, "subscribing") \/ Goto(c, "listening")
    BY <1>1, <2>2, ClientMoves DEF Moves, ReadersStay, ClientPlaces
  <2>3. CASE client' = [client EXCEPT ![c].queue = Tail(client[c].queue)] /\ client[c].at = "listening"
    <3>1. client'[c].at = "listening" /\ \A d \in Clients \ {c} : client'[d] = client[d]
      <4>1. client[c] \in ClientType
        BY <1>1
      <4>2. client' = [client EXCEPT ![c] = [client[c] EXCEPT !.queue = Tail(client[c].queue)]]
        BY <2>3
      <4> QED
        BY <1>1, <2>3, <4>1, <4>2 DEF ClientType
    <3> QED
      BY <3>1 DEF ReadersStay
  <2> QED
    BY <2>1, <2>2, <2>3 DEF StreamStep, WatchBegin, Subscribe, Hear, Disconnect
<1> QED
  BY <1>2, <1>3, SameKey, ExactIfNoThread DEF Offers

\* A step of thread j.
LEMMA ThreadExact ==
    ASSUME IInv, ExactInv, NEW j \in JobIds,
           worker' \in [JobIds -> WorkerType], \A i \in JobIds \ {j} : worker'[i] = worker[i],
           UNCHANGED <<key, history>>, Honest(worker'[j], key, j \in returned),
           worker[j].at \in After => worker'[j].built = worker[j].built,
           \A d \in Clients : client'[d].at = "reading" => client'[d] = client[d],
           \/ Offers(service, service')
           \/ service'.artifact = j /\ (service'.key = worker'[j].built \/ j \in returned),
           DOMAIN jobs' = DOMAIN jobs,
           \A i \in DOMAIN jobs :
                jobs'[i].key = jobs[i].key /\ (i # j => jobs'[i].status = jobs[i].status),
           j \in DOMAIN jobs =>
                /\ worker'[j].at \in {"installed", "announcing", "announced"}
                        => jobs[j].key = worker'[j].key
                /\ jobs'[j].status = "ready" => jobs[j].key = worker'[j].built \/ j \in returned
    PROVE  ExactInv'
<1>0. returned' = returned
  BY DEF history
<1>1. \A i \in JobIds : Honest(worker'[i], key', i \in returned')
  BY <1>0 DEF ExactInv
<1>2. \A i \in JobIds : worker[i].at \in After => worker'[i].built = worker[i].built
  OBVIOUS
<1>3. Wanted' /\ ReadyMeansAsAsked'
  BY <1>0 DEF IInv, TypeOK, ExactInv, Wanted, ReadyMeansAsAsked, Filing
<1>4. Exact(service)'
  <2>1. CASE Offers(service, service')
    <3>1. service.artifact # None => service.artifact \in JobIds /\ worker[service.artifact].at \in After
      BY DEF IInv, Kept, TypeOK
    <3> QED
      BY <1>0, <1>2, <2>1, <3>1 DEF ExactInv, Exact, Offers
  <2>2. CASE service'.artifact = j /\ (service'.key = worker'[j].built \/ j \in returned)
    BY <1>0, <2>2 DEF Exact
  <2> QED
    BY <2>1, <2>2
<1>5. ExactReadsAreCurrent'
  BY <1>0, <1>2 DEF IInv, ReadersKept, ExactInv, ExactReadsAreCurrent
<1> QED
  BY <1>1, <1>3, <1>4, <1>5 DEF ExactInv

LEMMA ThreadKeys ==
    ASSUME TypeOK, NEW j \in JobIds, NEW place \in WorkerPlaces
    PROVE  /\ WorkerGoto(j, place) => worker'[j].key = worker[j].key
                                      /\ worker'[j].built = worker[j].built
           /\ worker' = [worker EXCEPT ![j] = [worker[j] EXCEPT !.at = place, !.key = key]]
                => worker'[j].key = key /\ worker'[j].built = worker[j].built
           /\ worker' = [worker EXCEPT ![j] = [worker[j] EXCEPT !.at = place, !.built = key]]
                => worker'[j].key = worker[j].key /\ worker'[j].built = key
<1>1. worker \in [JobIds -> WorkerType] /\ worker[j] \in WorkerType
  BY DEF TypeOK, WorkerType
<1>2. /\ [worker[j] EXCEPT !.at = place].key = worker[j].key
      /\ [worker[j] EXCEPT !.at = place].built = worker[j].built
      /\ [worker[j] EXCEPT !.at = place, !.key = key].key = key
      /\ [worker[j] EXCEPT !.at = place, !.key = key].built = worker[j].built
      /\ [worker[j] EXCEPT !.at = place, !.built = key].key = worker[j].key
      /\ [worker[j] EXCEPT !.at = place, !.built = key].built = key
  BY <1>1 DEF WorkerType
<1>3. WorkerGoto(j, place) => worker' = [worker EXCEPT ![j] = [worker[j] EXCEPT !.at = place]]
  BY DEF WorkerGoto
<1> QED
  BY <1>1, <1>2, <1>3

\* Streams are only told when they listen.
LEMMA HeardKeepsReaders ==
    ASSUME TypeOK, NEW events, client' = Heard(events)
    PROVE  \A d \in Clients : client'[d].at = "reading" => client'[d] = client[d]
<1> SUFFICES ASSUME NEW d \in Clients, client'[d].at = "reading"
             PROVE  client'[d] = client[d]
  OBVIOUS
<1>1. client[d] \in ClientType
  BY DEF TypeOK, ClientType
<1>2. CASE client[d].at = "listening"
  <2>1. client'[d].at = "listening"
    BY <1>1, <1>2 DEF Heard, ClientType
  <2> QED
    BY <2>1
<1>3. CASE client[d].at # "listening"
  BY <1>3 DEF Heard
<1> QED
  BY <1>2, <1>3

LEMMA SetStatusKeepsReaders ==
    ASSUME TypeOK, NEW j, NEW status, SetStatus(j, status)
    PROVE  \A d \in Clients : client'[d].at = "reading" => client'[d] = client[d]
BY HeardKeepsReaders DEF SetStatus

LEMMA CreateExact ==
    ASSUME IInv, ExactInv, NEW c \in Clients, OpenCreate(c)
    PROVE  ExactInv'
<1>1. PICK j \in JobIds :
        /\ worker[j].at = "none"
        /\ jobs' = WithJob(j, [status |-> "queued", key |-> client[c].key])
        /\ worker' = [worker EXCEPT ![j].at = "created"]
        /\ client' = [client EXCEPT ![c] = [client[c] EXCEPT !.at = "starting", !.job = j]]
  BY DEF OpenCreate
<1>2. UNCHANGED <<key, service, returned>> /\ TypeOK
  BY DEF OpenCreate, IInv, history
<1>3. client[c] \in ClientType /\ client \in [Clients -> ClientType]
  BY <1>2 DEF TypeOK, ClientType
<1>4. ThreadMoves(j, "created") /\ worker'[j].built = worker[j].built /\ worker'[j].key = worker[j].key
  <2>1. WorkerGoto(j, "created")
    BY <1>1 DEF WorkerGoto
  <2> QED
    BY <1>2, <2>1, WorkerMoves, ThreadKeys DEF WorkerPlaces
<1>5. \A i \in JobIds : Honest(worker'[i], key', i \in returned')
  <2>1. Honest(worker'[j], key, j \in returned)
    BY <1>4 DEF ThreadMoves, Honest, Filing
  <2> QED
    BY <1>2, <1>4, <2>1 DEF ThreadMoves, ExactInv
<1>6. /\ DOMAIN jobs' = DOMAIN jobs \cup {j}
      /\ jobs'[j] = [status |-> "queued", key |-> client[c].key]
      /\ \A i \in DOMAIN jobs \ {j} : jobs'[i] = jobs[i]
  BY <1>1 DEF WithJob
<1>7. Wanted' /\ ReadyMeansAsAsked'
  <2>1. jobs'[j].status = "queued" /\ worker'[j].at = "created"
    BY <1>4, <1>6 DEF ThreadMoves
  <2>2. \A i \in DOMAIN jobs' \ {Cached, j} :
          i \in DOMAIN jobs /\ jobs'[i] = jobs[i] /\ worker'[i] = worker[i]
    BY <1>2, <1>4, <1>6 DEF ThreadMoves, TypeOK
  <2> QED
    BY <1>2, <2>1, <2>2 DEF ExactInv, Wanted, ReadyMeansAsAsked
<1>8. Exact(service)' /\ ExactReadsAreCurrent'
  <2>1. \A d \in Clients : client'[d].at = "reading" => client'[d] = client[d] /\ client[d].job \in JobIds
    <3>1. client'[c].at = "starting"
      BY <1>1, <1>3 DEF ClientType
    <3> QED
      BY <1>1, <1>3, <3>1 DEF IInv, ReadersKept
  <2>2. \A i \in JobIds : worker'[i].built = worker[i].built
    BY <1>4 DEF ThreadMoves
  <2>3. service.artifact # None => service.artifact \in JobIds
    BY <1>2 DEF TypeOK
  <2> QED
    BY <1>2, <2>1, <2>2, <2>3 DEF ExactInv, Exact, ExactReadsAreCurrent
<1> QED
  BY <1>5, <1>7, <1>8 DEF ExactInv

LEMMA StartExact ==
    ASSUME IInv, ExactInv, NEW c \in Clients, OpenStart(c)
    PROVE  ExactInv'
<1> DEFINE j == client[c].job
<1>1. TypeOK /\ j \in JobIds /\ worker[j].at = "created" /\ UNCHANGED <<key, jobs, service, history>>
  BY DEF OpenStart, IInv, Starting
<1>2. Moves(c, "answering", j) /\ WorkerGoto(j, "started")
  BY <1>1, ClientMoves DEF OpenStart, ClientPlaces, WorkerGoto
<1> HIDE DEF j
<1>3. ThreadMoves(j, "started") /\ worker'[j].built = worker[j].built
  BY <1>1, <1>2, WorkerMoves, ThreadKeys DEF WorkerPlaces
<1>4. Honest(worker'[j], key, j \in returned)
  BY <1>3 DEF ThreadMoves, Honest, Filing
<1>5. \A d \in Clients : client'[d].at = "reading" => client'[d] = client[d]
  BY <1>2 DEF Moves
<1>6. Offers(service, service')
  BY <1>1 DEF Offers
<1>7. j \in DOMAIN jobs => jobs[j].status # "ready"
  BY <1>1, Names DEF IInv, JobsFollowThreads, Running
<1> QED
  BY <1>1, <1>3, <1>4, <1>5, <1>6, <1>7, ThreadExact DEF ThreadMoves

LEMMA RequestExact == ASSUME IInv, ExactInv, NEW c \in Clients, RequestStep(c) PROVE ExactInv'
<1>1. TypeOK /\ client[c].job \in JobIds \cup {None}
  BY DEF IInv, TypeOK
<1>2. CASE OpenCached(c)
  <2>1. Moves(c, "idle", None) /\ KeyMoves /\ UNCHANGED worker /\ Offers(service, service')
    BY <1>1, <1>2, ClientMoves, SameKey, LookupOffers DEF OpenCached, ClientPlaces
  <2>2. \A i \in DOMAIN jobs' \ {Cached} : i \in DOMAIN jobs /\ jobs'[i] = jobs[i]
    BY <1>2 DEF OpenCached, WithJob
  <2> QED
    BY <2>1, <2>2, ClientExact
<1>3. CASE OpenJoin(c)
  <2>1. PICK j \in DOMAIN jobs : jobs[j].status \in Running /\ Watch(c, j)
    BY <1>3 DEF OpenJoin, WithKey
  <2>2. j \in JobIds
    BY <1>1, <2>1 DEF IInv, JobsFollowThreads, TypeOK, Running
  <2> QED
    BY <1>1, <1>3, <2>1, <2>2, ClientMoves, ClientExact, SameKey DEF OpenJoin, Offers, ClientPlaces
<1>4. CASE OpenCreate(c)
  BY <1>4, CreateExact
<1>5. CASE OpenStart(c)
  BY <1>5, StartExact
<1>6. CASE EditCancel(c)
  BY <1>6, CancelExact DEF EditCancel, ClientPlaces
<1>7. CASE OpenHit(c)
  BY <1>1, <1>7, ClientMoves, ClientExact, SameKey DEF OpenHit, Offers, ClientPlaces
<1>8. CASE OpenFailed(c)
  BY <1>1, <1>8, ClientMoves, ClientExact, SameKey DEF OpenFailed, Offers, ClientPlaces
<1>9. CASE OpenAnswer(c)
  BY <1>1, <1>9, ClientMoves, ClientExact, SameKey DEF OpenAnswer, IsRunning, Offers, ClientPlaces
<1>10. CASE ReadEnd(c)
  BY <1>1, <1>10, ClientMoves, ClientExact, SameKey DEF ReadEnd, Offers, ClientPlaces
<1>11. CASE EditFails(c)
  BY <1>1, <1>11, ClientMoves, ClientExact, SameKey DEF EditFails, Offers, ClientPlaces
<1>12. CASE EditPresentation(c)
  <2>1. Offers(service, service')
    BY <1>1, <1>12 DEF EditPresentation, Offers, TypeOK
  <2> QED
    BY <1>1, <1>12, <2>1, ClientMoves, ClientExact, SameKey DEF EditPresentation, ClientPlaces
<1>13. CASE EditInvalidate(c)
  <2>1. Offers(service, service')
    BY <1>1, <1>13, Names DEF EditInvalidate, Offers, TypeOK, EmptyService
  <2> QED
    BY <1>1, <1>13, <2>1, ClientMoves, ClientExact, SameKey DEF EditInvalidate, ClientPlaces
<1> QED
  BY <1>2, <1>3, <1>4, <1>5, <1>6, <1>7, <1>8, <1>9, <1>10, <1>11, <1>12, <1>13 DEF RequestStep

\* Where thread j may go without having to compare anything again.
MayGo(j, place) ==
    /\ place \in WorkerPlaces \ {"building", "built"}
    /\ place \in {"waiting", "locked"} => worker[j].at \in {"built", "waiting"}
    /\ place \in Filing \cup {"fresh"} => Faithful(j)

LEMMA ThreadGoes ==
    ASSUME IInv, ExactInv, NEW j \in JobIds, NEW place, MayGo(j, place), WorkerGoto(j, place),
           UNCHANGED key
    PROVE  /\ worker' \in [JobIds -> WorkerType] /\ \A i \in JobIds \ {j} : worker'[i] = worker[i]
           /\ worker'[j].at = place /\ worker'[j].key = worker[j].key
           /\ worker'[j].built = worker[j].built
           /\ Honest(worker'[j], key, j \in returned)
<1>1. TypeOK /\ place \in WorkerPlaces /\ Honest(worker[j], key, j \in returned)
  BY DEF IInv, MayGo, ExactInv
<1>2. /\ ThreadMoves(j, place)
      /\ worker'[j].key = worker[j].key /\ worker'[j].built = worker[j].built
  BY <1>1, WorkerMoves, ThreadKeys
<1>3. worker'[j].at = place
  BY <1>2 DEF ThreadMoves
<1>4. Honest(worker'[j], key, j \in returned)
  BY <1>1, <1>2, <1>3 DEF Honest, MayGo, Filing, Faithful
<1> QED
  BY <1>2, <1>3, <1>4 DEF ThreadMoves

\* A job whose thread is not over is not ready; one that is being filed asks
\* for what was built.
LEMMA UnderWay ==
    ASSUME IInv, ExactInv, NEW j \in JobIds, j \in DOMAIN jobs, worker[j].at \notin {"none", "ended"}
    PROVE  /\ jobs[j].status # "ready"
           /\ worker[j].at \in Filing => jobs[j].key = worker[j].key
BY Names DEF IInv, JobsFollowThreads, ExactInv, Wanted, Running, Filing

\* Thread j goes on and the job stays as it is.
LEMMA SilentExact ==
    ASSUME IInv, ExactInv, NEW j \in JobIds, NEW place, MayGo(j, place), WorkerGoto(j, place),
           UNCHANGED <<key, jobs, history>>, worker[j].at \notin {"none", "ended"},
           \A d \in Clients : client'[d].at = "reading" => client'[d] = client[d],
           \/ Offers(service, service')
           \/ service'.artifact = j /\ (service'.key = worker[j].built \/ j \in returned),
           place \in Filing =>
                worker[j].at \in Filing \/ (j \in DOMAIN jobs => jobs[j].key = worker[j].key)
    PROVE  ExactInv'
<1>1. /\ worker' \in [JobIds -> WorkerType] /\ \A i \in JobIds \ {j} : worker'[i] = worker[i]
      /\ worker'[j].at = place /\ worker'[j].key = worker[j].key
      /\ worker'[j].built = worker[j].built
      /\ Honest(worker'[j], key, j \in returned)
  BY ThreadGoes
<1>2. j \in DOMAIN jobs =>
        /\ worker'[j].at \in {"installed", "announcing", "announced"} => jobs[j].key = worker'[j].key
        /\ jobs'[j].status = "ready" => jobs[j].key = worker'[j].built \/ j \in returned
  BY <1>1, UnderWay DEF Filing
<1> QED
  BY <1>1, <1>2, ThreadExact

\* Thread j goes on and reports the state of the job.
LEMMA ReportExact ==
    ASSUME IInv, ExactInv, NEW j \in JobIds, NEW place, MayGo(j, place), WorkerGoto(j, place),
           UNCHANGED <<key, service, history>>, worker[j].at \notin {"none", "ended"}, place \notin Filing,
           NEW status \in Statuses, SetStatus(j, status),
           status = "ready" => worker[j].at \in Filing
    PROVE  ExactInv'
<1>1. /\ worker' \in [JobIds -> WorkerType] /\ \A i \in JobIds \ {j} : worker'[i] = worker[i]
      /\ worker'[j].at = place /\ worker'[j].key = worker[j].key
      /\ worker'[j].built = worker[j].built
      /\ Honest(worker'[j], key, j \in returned)
  BY ThreadGoes
<1>2. TypeOK /\ Offers(service, service')
  BY DEF IInv, Offers
<1>3. /\ DOMAIN jobs' = DOMAIN jobs
      /\ \A i \in DOMAIN jobs :
           /\ jobs'[i].key = jobs[i].key
           /\ jobs'[i].status = IF i = j THEN status ELSE jobs[i].status
  BY <1>2, SetStatusKeeps
<1>4. \A d \in Clients : client'[d].at = "reading" => client'[d] = client[d]
  BY <1>2, SetStatusKeepsReaders
<1>5. worker[j].at \in Filing => Faithful(j)
  BY DEF ExactInv, Honest, Faithful
<1>6. j \in DOMAIN jobs =>
        /\ worker'[j].at \in {"installed", "announcing", "announced"} => jobs[j].key = worker'[j].key
        /\ jobs'[j].status = "ready" => jobs[j].key = worker'[j].built \/ j \in returned
  BY <1>1, <1>3, <1>5, UnderWay DEF Filing, Faithful
<1> QED
  BY <1>1, <1>2, <1>3, <1>4, <1>6, ThreadExact

\* The key is computed, and later that of the inputs that are built from.
LEMMA ComputesExact ==
    ASSUME IInv, ExactInv, NEW j \in JobIds, WorkerStart(j) \/ Build(j)
    PROVE  ExactInv'
<1>1. TypeOK /\ key \in Keys /\ Honest(worker[j], key, j \in returned) /\ worker[j] \in WorkerType
  BY DEF IInv, TypeOK, WorkerType, ExactInv
<1>2. Offers(service, service') /\ UNCHANGED <<key, history>>
  BY DEF WorkerStart, Build, Offers
<1>3. CASE WorkerStart(j)
  <2>1. /\ ThreadMoves(j, "building") /\ worker'[j].key = key /\ worker[j].at = "started"
        /\ SetStatus(j, "building") /\ "building" \in Statuses
    BY <1>1, <1>3, WorkerMoves, ThreadKeys DEF WorkerStart, WorkerPlaces, Statuses, Running
  <2>2. Honest(worker'[j], key, j \in returned)
    BY <1>1, <2>1 DEF Honest, ThreadMoves, Filing
  <2>3. /\ DOMAIN jobs' = DOMAIN jobs
        /\ \A i \in DOMAIN jobs :
             /\ jobs'[i].key = jobs[i].key
             /\ jobs'[i].status = IF i = j THEN "building" ELSE jobs[i].status
    BY <1>1, <2>1, SetStatusKeeps
  <2>4. \A d \in Clients : client'[d].at = "reading" => client'[d] = client[d]
    BY <1>1, <2>1, SetStatusKeepsReaders
  <2>5. worker'[j].at = "building" /\ worker[j].at \notin After
    BY <2>1 DEF ThreadMoves, After
  <2> QED
    BY <1>2, <2>1, <2>2, <2>3, <2>4, <2>5, ThreadExact DEF ThreadMoves
<1>4. CASE Build(j)
  <2>1. /\ ThreadMoves(j, "built") /\ worker'[j].key = worker[j].key /\ worker'[j].built = key
        /\ worker[j].at = "building" /\ UNCHANGED <<jobs, client>>
    BY <1>1, <1>4, WorkerMoves, ThreadKeys DEF Build, WorkerPlaces
  <2>2. Honest(worker'[j], key, j \in returned)
    BY <1>1, <2>1 DEF Honest, ThreadMoves, Filing
  <2>3. worker'[j].at = "built" /\ worker[j].at \notin After
    BY <2>1 DEF ThreadMoves, After
  <2>4. j \in DOMAIN jobs => jobs'[j].status # "ready"
    BY <2>1, UnderWay
  <2> QED
    BY <1>2, <2>1, <2>2, <2>3, <2>4, ThreadExact DEF ThreadMoves
<1> QED
  BY <1>3, <1>4

LEMMA WorkerExact == ASSUME IInv, ExactInv, NEW j \in JobIds, WorkerStep(j) PROVE ExactInv'
<1>1. /\ TypeOK /\ key \in Keys /\ worker[j] \in WorkerType /\ Honest(worker[j], key, j \in returned)
      /\ "building" \in Statuses /\ "ready" \in Statuses /\ "failed" \in Statuses
  BY DEF IInv, TypeOK, WorkerType, ExactInv, Statuses, Running
<1>2. UNCHANGED service => Offers(service, service')
  BY DEF Offers
<1>3. MayGo(j, "ended")
  BY DEF MayGo, Filing, WorkerPlaces
<1>4. CASE WorkerQuits(j) \/ Drop(j)
  <2>1. /\ WorkerGoto(j, "ended") /\ UNCHANGED <<key, jobs, service, client, history>>
        /\ worker[j].at \notin {"none", "ended"} /\ "ended" \notin Filing
    BY <1>4 DEF WorkerQuits, Drop, End, Filing
  <2> QED
    BY <1>2, <1>3, <2>1, SilentExact
<1>5. CASE WorkerStart(j) \/ Build(j)
  BY <1>5, ComputesExact
<1>6. CASE CacheArtifact(j)
  <2>1. /\ WorkerGoto(j, "waiting") /\ SetStatus(j, "building") /\ UNCHANGED <<key, service, history>>
        /\ worker[j].at = "built" /\ MayGo(j, "waiting") /\ "waiting" \notin Filing
    BY <1>6 DEF CacheArtifact, MayGo, Filing, WorkerPlaces
  <2> QED
    BY <1>1, <2>1, ReportExact
<1>7. CASE WorkerLocks(j)
  <2>1. /\ WorkerGoto(j, "locked") /\ UNCHANGED <<key, jobs, service, client, history>>
        /\ worker[j].at = "waiting" /\ MayGo(j, "locked") /\ "locked" \notin Filing
    BY <1>7 DEF WorkerLocks, MayGo, Filing, WorkerPlaces
  <2> QED
    BY <1>2, <2>1, SilentExact
<1>8. CASE FindStale(j) \/ WorkerFails(j)
  <2>1. /\ WorkerGoto(j, "ended") /\ SetStatus(j, "failed") /\ UNCHANGED <<key, service, history>>
        /\ worker[j].at \notin {"none", "ended"} /\ "ended" \notin Filing
    BY <1>8 DEF FindStale, WorkerFails, End, Filing
  <2> QED
    BY <1>1, <1>3, <2>1, ReportExact
<1>9. CASE FindFresh(j)
  <2>1. Faithful(j)
    BY <1>1, <1>9 DEF FindFresh, Honest, Faithful
  <2>2. /\ WorkerGoto(j, "fresh") /\ UNCHANGED <<key, jobs, service, client, history>>
        /\ worker[j].at = "locked" /\ MayGo(j, "fresh") /\ "fresh" \notin Filing
    BY <1>9, <2>1 DEF FindFresh, MayGo, Filing, WorkerPlaces
  <2> QED
    BY <1>2, <2>2, SilentExact
<1>10. CASE Install(j)
  <2>1. Faithful(j) /\ worker[j].at = "fresh"
    BY <1>1, <1>10 DEF Install, Honest, Faithful, Filing
  <2>2. /\ WorkerGoto(j, "installed") /\ UNCHANGED <<key, jobs, client, history>>
        /\ MayGo(j, "installed") /\ jobs[j].key = worker[j].key
        /\ service'.artifact = j /\ (service'.key = worker[j].built \/ j \in returned)
    BY <1>10, <2>1 DEF Install, Installed, IsWanted, MayGo, Faithful, Filing, WorkerPlaces
  <2> QED
    BY <2>1, <2>2, SilentExact
<1>11. CASE Prewarm(j)
  <2>1. Faithful(j) /\ worker[j].at = "installed"
    BY <1>1, <1>11 DEF Prewarm, Honest, Faithful, Filing
  <2>2. /\ WorkerGoto(j, "announcing") /\ UNCHANGED <<key, jobs, client, history>>
        /\ MayGo(j, "announcing") /\ worker[j].at \in Filing /\ Offers(service, service')
    BY <1>11, <2>1, LookupOffers DEF Prewarm, MayGo, Filing, WorkerPlaces
  <2> QED
    BY <2>1, <2>2, SilentExact
<1>12. CASE Announce(j)
  <2>1. Faithful(j) /\ worker[j].at = "announcing"
    BY <1>1, <1>12 DEF Announce, Honest, Faithful, Filing
  <2>2. /\ WorkerGoto(j, "announced") /\ UNCHANGED <<key, jobs, service, history>>
        /\ MayGo(j, "announced") /\ worker[j].at \in Filing
    BY <1>12, <2>1 DEF Announce, MayGo, Filing, WorkerPlaces
  <2>3. \A d \in Clients : client'[d].at = "reading" => client'[d] = client[d]
    BY <1>1, <1>12, HeardKeepsReaders DEF Announce
  <2> QED
    BY <1>2, <2>1, <2>2, <2>3, SilentExact
<1>13. CASE Report(j)
  <2>1. /\ WorkerGoto(j, "ended") /\ SetStatus(j, "ready") /\ UNCHANGED <<key, service, history>>
        /\ worker[j].at \in Filing /\ worker[j].at \notin {"none", "ended"} /\ "ended" \notin Filing
    BY <1>13 DEF Report, End, Filing
  <2> QED
    BY <1>1, <1>3, <2>1, ReportExact
<1> QED
  BY <1>4, <1>5, <1>6, <1>7, <1>8, <1>9, <1>10, <1>11, <1>12, <1>13 DEF WorkerStep

LEMMA ElsewhereExact ==
    ASSUME IInv, ExactInv,
           WriteCorrections \/ InvalidateAll \/ CancelAll \/ InputsChange
    PROVE  ExactInv'
<1>1. TypeOK
  BY DEF IInv
<1>2. CASE WriteCorrections
  BY <1>2, SameKey, ExactIfNoThread DEF WriteCorrections, Offers, ReadersStay
<1>3. CASE InvalidateAll
  <2>1. Offers(service, service')
    BY <1>1, <1>3, Names DEF InvalidateAll, Offers, TypeOK
  <2> QED
    BY <1>3, <2>1, SameKey, ExactIfNoThread DEF InvalidateAll, ReadersStay
<1>4. CASE CancelAll
  BY <1>4, CancelExact DEF CancelAll, ClientPlaces
<1>5. CASE InputsChange
  BY <1>5, ChangedKey, ExactIfNoThread DEF InputsChange, Offers, ReadersStay
<1> QED
  BY <1>2, <1>3, <1>4, <1>5

LEMMA InitExact == Init => ExactInv
BY Names DEF Init, ExactInv, Honest, Filing, Wanted, Exact, ExactReadsAreCurrent, ReadyMeansAsAsked,
    EmptyService, AtRest

LEMMA StepExact ==
    ASSUME IInv, ExactInv, [Next]_vars
    PROVE  ExactInv'
<1>1. CASE UNCHANGED vars
  BY <1>1 DEF vars, history, ExactInv, Honest, Wanted, Exact, ExactReadsAreCurrent, ReadyMeansAsAsked
<1>2. CASE Next
  BY <1>2, BeginExact, ReadExact, RequestExact, StreamExact, WorkerExact, ElsewhereExact DEF Next
<1> QED
  BY <1>1, <1>2

LEMMA ExactInvariant == Spec => []ExactInv
<1>1. IInv /\ ExactInv /\ [Next]_vars => ExactInv'
  BY StepExact
<1> QED
  BY <1>1, InitExact, ListingInvariant, PTL DEF Spec

\* A request that needs the exact artifact reads one that was built from the
\* inputs as the request sees them, although builds run under no lock and
\* whatever changes; the exception is a build from other inputs that had still to
\* be compared when the inputs came back to those it was asked for.
THEOREM ReadsAreExact == Spec => []ExactReadsAreCurrent
<1>1. ExactInv => ExactReadsAreCurrent
  BY DEF ExactInv
<1> QED
  BY <1>1, ExactInvariant, PTL

\* A job is reported ready only if what was built is what it was asked for
\* (_build_rows_job compares the key of the job under the lock), with the same
\* exception.
THEOREM ReadyJobsAreAsAsked == Spec => []ReadyMeansAsAsked
<1>1. ExactInv => ReadyMeansAsAsked
  BY DEF ExactInv
<1> QED
  BY <1>1, ExactInvariant, PTL

=============================================================================
