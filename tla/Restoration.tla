---------------------------- MODULE Restoration ----------------------------
(***************************************************************************)
(* Everything that changes the histories of one target, and the clients    *)
(* that do it.                                                             *)
(*                                                                         *)
(*   Restorers  threads that run restoration.execute for a client (HTTP,   *)
(*              UI, CLI and MCP all come through it): they hold            *)
(*              target_lock for the whole operation and may change         *)
(*              something only if the client names the current revision.   *)
(*   Tools      reversing_loop.py: the journal commands and the cascade    *)
(*              tool read without the lock, and take it only to append.    *)
(*   the world  analysis inputs outside the histories (renderer, target    *)
(*              metadata, the program file) that change under no lock.     *)
(*                                                                         *)
(* target_lock is a single lock here: TargetLock shows that it is one.     *)
(* The digest of an append-only file is represented by its length.         *)
(***************************************************************************)
EXTENDS DecisionJournal, ManualActionLog, SequencesExt

CONSTANTS
    Restorers, Tools,
    Nobody,
    NoneText,     \* the text "None", which is not JSON null
    CascadeTools, \* those of the Tools that run cascade-apply
    ToolVerdicts, \* the verdicts the tools record
    GivenIds,     \* decision ids that callers of the tools make up
    MaxBatch,     \* bound: actions or decisions in one request
    MaxManual,    \* bound: length of the Manual Action Log
    MaxJournal,   \* bound: length of the Decision Journal
    MaxReceipts,  \* bound: receipts on disk
    MaxAnalysis,  \* bound: versions of the analysis inputs
    MaxSource,    \* bound: versions of the program file
    MaxVersions,  \* bound: versions of both together
    MaxChanges    \* bound: changes of the world, forwards or back

ASSUME ConstantsAssumption ==
    /\ Restorers \cap Tools = {} /\ CascadeTools \subseteq Tools
    /\ Nobody \notin Restorers \cup Tools
    /\ ToolVerdicts \subseteq Verdicts
    /\ Nothing \notin GivenIds /\ \A id \in GivenIds : id \notin Nat
    /\ MaxBatch \in Nat /\ MaxManual \in Nat /\ MaxJournal \in Nat /\ MaxReceipts \in Nat
    /\ MaxAnalysis \in Nat /\ MaxSource \in Nat
    /\ MaxVersions \in Nat /\ MaxChanges \in Nat

VARIABLES
    manual,    \* manual_actions.jsonl
    journal,   \* decision_journal.jsonl
    world,     \* the analysis inputs and the program file
    receipts,  \* intact receipt files; a receipt is named by its content
    lock,      \* who holds target_lock
    pc,        \* where each restorer and tool stands
    expected,  \* the revision each client last learned: its expected_revision
    work,      \* what each restorer or tool has prepared
    changes,   \* how often the world has changed
    slipped    \* subjects the world left between the check of a request that names
               \* them and its build

\* What has happened; no step depends on slipped.
history == <<changes, slipped>>
vars == <<manual, journal, world, receipts, lock, pc, expected, work, history>>

Actors == Restorers \cup Tools

-----------------------------------------------------------------------------
(* Revisions *)

\* subject_revision: what the rebuilt source depends on.  The analysis key
\* covers the effective metadata, hence the facts the tools had accepted.
Subject ==
    [analysis |-> world.analysis, source |-> world.source,
     facts |-> AcceptedFacts(journal), actions |-> Len(manual)]

\* revision: the subject and both histories.
Revision == [subject |-> Subject, decisions |-> Len(journal)]

Subjects ==
    [analysis : 0..MaxAnalysis, source : 0..MaxSource,
     facts : SUBSET ToolFacts, actions : Nat]

Revisions == [subject : Subjects, decisions : Nat]

\* kind "verification"; built is the subject the source was rebuilt from.
Receipts == [subject : Subjects, built : Subjects, exact : BOOLEAN]

ActionRecords == [kind : {"edit"} \cup Switches, target : Nat, evidence : BOOLEAN]

DecisionRecords ==
    [action : Verdicts \cup {"supersede"}, subject : Nat \cup ToolFacts \cup {Nothing},
     revision : Subjects \cup {Nothing}, receipt : Receipts \cup {Nothing},
     supersedes : Nat \cup {Nothing}, prev : Nat \cup {NoPrev, NoneText},
     id : ToolFacts \cup GivenIds \cup Nat \cup {Nothing}]

-----------------------------------------------------------------------------
(***************************************************************************)
(* Restorers: "idle", "open" (locked, revision checked), "prepared",       *)
(* "staged" (temporary file written), "replaced" (os.replace done);        *)
(* verify goes from "open" over "built" and "truncated" to "verified".     *)
(* Tools: "idle", "linked" (prev computed), "checked" (dry run or staged   *)
(* copy passed), "staged", "rejected"; cascade starts with "inspected".    *)
(***************************************************************************)
LockedPlaces ==
    {"open", "prepared", "staged", "replaced", "built", "truncated", "verified"}

Places == LockedPlaces \cup {"idle", "inspected", "linked", "checked", "rejected"}

NoWork == [file |-> "none"]

TypeOK ==
    /\ manual \in Seq(ActionRecords)
    /\ journal \in Seq(DecisionRecords)
    /\ world \in [analysis : 0..MaxAnalysis, source : 0..MaxSource]
    /\ receipts \subseteq Receipts
    /\ lock \in Actors \cup {Nobody}
    /\ pc \in [Actors -> Places]
    /\ expected \in [Restorers -> Revisions]
    /\ DOMAIN work = Actors
    /\ changes \in 0..MaxChanges
    /\ slipped \subseteq Subjects

NoFile == <<>>

Init ==
    /\ manual = NoFile
    /\ journal = NoFile
    /\ world = [analysis |-> 0, source |-> 0]
    /\ receipts = {}
    /\ lock = Nobody
    /\ pc = [a \in Actors |-> "idle"]
    /\ expected = [c \in Restorers |-> Revision]
    /\ work = [a \in Actors |-> NoWork]
    /\ changes = 0
    /\ slipped = {}

\* target_lock, by its promise (Mutex).
AcquireAnyway(a) == lock' = a  \* mutated: no mutual exclusion
Acquire(a) == lock = Nobody /\ lock' = a

Goto(a, place) == pc' = [pc EXCEPT ![a] = place]
Keep(a, w) == work' = [work EXCEPT ![a] = w]

UnlockedRest == UNCHANGED <<manual, journal, world, receipts, expected, history>>
LockedRest == UnlockedRest /\ UNCHANGED lock

-----------------------------------------------------------------------------
(* A request of a client *)

\* state, history or query: the response carries the current revision.
Inspect(c) ==
    /\ pc[c] = "idle"
    /\ lock = Nobody
    /\ expected[c] # Revision
    /\ expected' = [expected EXCEPT ![c] = Revision]
    /\ UNCHANGED <<manual, journal, world, receipts, lock, pc, work, history>>

\* mutated: histories left out of the check
CurrentSubject(c) == expected[c].subject = Subject

\* require_revision
IsCurrent(c) == expected[c] = Revision

\* target_lock and require_revision.  A stale request changes nothing.
Begin(c) ==
    /\ pc[c] = "idle"
    /\ Acquire(c)
    /\ IsCurrent(c)
    /\ Goto(c, "open")
    /\ UNCHANGED work
    /\ UnlockedRest

\* interpret, interpret_batch and command: one batch of new actions, with
\* evidence or (command) without.
PrepareEdit(c) ==
    /\ pc[c] = "open"
    /\ \E n \in 1..MaxBatch, evidence \in BOOLEAN :
        /\ Len(manual) + n <= MaxManual
        /\ Keep(c, [file |-> "manual",
                    additions |-> [k \in 1..n |-> [kind |-> "edit", target |-> 0,
                                                   evidence |-> evidence]]])
    /\ Goto(c, "prepared")
    /\ LockedRest

PrepareRollback(c) ==
    /\ pc[c] = "open"
    /\ Len(manual) < MaxManual
    /\ \E i \in SourceActions(manual), kind \in Switches :
        Keep(c, [file |-> "manual",
                 additions |-> <<[kind |-> kind, target |-> i, evidence |-> FALSE]>>])
    /\ Goto(c, "prepared")
    /\ LockedRest

\* _history refuses to go on when an action has two live decisions.
NoConflict == \A i \in DOMAIN manual : Cardinality(DecisionsOn(journal, i)) <= 1

\* mutated: actions undone meanwhile can be reviewed
WithEvidence == {i \in DOMAIN manual : manual[i].evidence}

\* Actions in force that carry evidence.
Reviewable == {i \in Active(manual) : manual[i].evidence}

\* Lists of distinct actions, as a client may order them.
ReviewLists ==
    UNION {{ids \in [1..n -> Reviewable] : IsInjective(ids)} : n \in 1..MaxBatch}

\* mutated: the previous decision is not superseded
DecisionsOnly(ids) == (DOMAIN ids) \X {2}

\* _prepare_review_records, for each action of a batch: the supersession (1) of
\* the decision it has, if it has one, and its new decision (2).
ReviewSteps(ids) ==
    {s \in (DOMAIN ids) \X {1, 2} : s[2] = 1 => DecisionsOn(journal, ids[s[1]]) # {}}

\* The steps in the order of the batch.
Orders(steps) ==
    {order \in Bijection(1..Cardinality(steps), steps) :
        \A m, n \in DOMAIN order : m < n =>
            \/ order[m][1] < order[n][1]
            \/ order[m][1] = order[n][1] /\ order[m][2] < order[n][2]}

Decision(i, choice, subject, receipt) ==
    [action |-> choice, subject |-> i, revision |-> subject, receipt |-> receipt,
     supersedes |-> Nothing, prev |-> NoPrev, id |-> Nothing]

Supersession(d) ==
    [action |-> "supersede", subject |-> Nothing, revision |-> Nothing, receipt |-> Nothing,
     supersedes |-> d, prev |-> NoPrev, id |-> Nothing]

\* The record of one step.
ReviewRecord(step, ids, choice, subject, receipt) ==
    LET i == ids[step[1]] IN
    IF step[2] = 1 THEN Supersession(CHOOSE d \in DecisionsOn(journal, i) : TRUE)
    ELSE Decision(i, choice, subject, receipt)

\* Each record of a batch names the record before it as prev.
Linked(J, additions) ==
    [k \in DOMAIN additions |->
        [additions[k] EXCEPT !.prev =
            IF k = 1 THEN NextPrev(J) ELSE Len(J) + k - 1]]

\* mutated: a failed verification will do
AnyVerdict(r, subject) == r.subject = subject

\* An acceptance needs an exact receipt of this subject.
Acceptable(r, subject) == r.subject = subject /\ r.exact

\* review and review_batch.
PrepareReview(c) ==
    /\ pc[c] = "open"
    /\ NoConflict
    /\ \E ids \in ReviewLists, choice \in Verdicts, r \in receipts \cup {Nothing} :
        /\ IF choice = "accept"
           THEN r # Nothing /\ Acceptable(r, expected[c].subject)
           ELSE r = Nothing
        /\ Len(journal) + Cardinality(ReviewSteps(ids)) <= MaxJournal
        /\ \E order \in Orders(ReviewSteps(ids)) :
            LET additions ==
                    [m \in DOMAIN order |->
                        ReviewRecord(order[m], ids, choice, expected[c].subject, r)]
            IN Keep(c, [file |-> "journal", additions |-> Linked(journal, additions)])
    /\ Goto(c, "prepared")
    /\ LockedRest

\* A batch is not empty; every action is replayed with the log, every record
\* validated with the journal before it.
Valid(w) ==
    \/ w.file = "manual" /\ w.additions \in Seq(ActionRecords) \ {<<>>}
    \/ /\ w.file = "journal" /\ w.additions \in Seq(DecisionRecords) \ {<<>>}
       /\ ValidChain(journal \o w.additions)

\* mutated: the old content is lost; records are appended one by one
Overwritten(original, additions) == additions
FirstOnly(original, additions) == Append(original, Head(additions))

Appended(original, additions) == original \o additions

\* atomic_append_history up to the temporary file.
Stage(c) ==
    /\ pc[c] = "prepared"
    /\ Valid(work[c])
    /\ LET w == work[c]
           original == IF w.file = "manual" THEN manual ELSE journal
       IN Keep(c, [file |-> w.file, content |-> Appended(original, w.additions)])
    /\ Goto(c, "staged")
    /\ LockedRest

\* mutated: the paths of the two histories are confused
ReplaceOther(w) ==
    \/ w.file = "manual" /\ journal' = w.content /\ UNCHANGED manual
    \/ w.file = "journal" /\ manual' = w.content /\ UNCHANGED journal

\* os.replace
ReplaceBy(w) ==
    \/ w.file = "manual" /\ manual' = w.content /\ UNCHANGED journal
    \/ w.file = "journal" /\ journal' = w.content /\ UNCHANGED manual

Replace(c) ==
    /\ c \in Restorers
    /\ pc[c] = "staged"
    /\ ReplaceBy(work[c])
    /\ Keep(c, NoWork)
    /\ Goto(c, "replaced")
    /\ UNCHANGED <<world, receipts, lock, expected, history>>

\* The response carries the new revision.
Respond(c) ==
    /\ expected' = [expected EXCEPT ![c] = Revision]
    /\ lock' = Nobody
    /\ Goto(c, "idle")
    /\ Keep(c, NoWork)
    /\ UNCHANGED <<manual, journal, world, receipts, history>>

FinishWrite(c) ==
    /\ pc[c] = "replaced"
    /\ Respond(c)

\* mutated: no finally, an error leaves the lock taken
GiveUpLocked(a) ==
    /\ Goto(a, "idle")
    /\ Keep(a, NoWork)
    /\ UNCHANGED lock
    /\ UnlockedRest

\* The operation ends without effect and with the lock released.
GiveUp(a) ==
    /\ lock' = Nobody
    /\ Goto(a, "idle")
    /\ Keep(a, NoWork)
    /\ UnlockedRest

\* The death of the thread or its process, or an I/O error, at any point: after
\* os.replace the request took effect and the client does not know.
Abort(a) == lock = a /\ GiveUp(a)

-----------------------------------------------------------------------------
(* verify *)

\* Render, assemble and compare.  This takes long; the world may have changed
\* since the subject was determined.
VerifyBuild(c) ==
    /\ pc[c] = "open"
    /\ \E exact \in BOOLEAN :
        LET receipt == [subject |-> expected[c].subject, built |-> Subject,
                        exact |-> exact] IN
        /\ Cardinality(receipts \cup {receipt}) <= MaxReceipts
        /\ Keep(c, [file |-> "receipt", receipt |-> receipt])
    /\ Goto(c, "built")
    /\ LockedRest

\* _persist writes in place: first the file is truncated ...
PersistTruncate(c) ==
    /\ pc[c] = "built"
    /\ receipts' = receipts \ {work[c].receipt}
    /\ Goto(c, "truncated")
    /\ UNCHANGED <<manual, journal, world, lock, expected, work, history>>

\* ... then it has its content.
PersistWrite(c) ==
    /\ pc[c] = "truncated"
    /\ receipts' = receipts \cup {work[c].receipt}
    /\ Goto(c, "verified")
    /\ UNCHANGED <<manual, journal, world, lock, expected, work, history>>

\* revisions(target_id) at the end of verify: the analysis key comes from the
\* snapshot of this request, which Begin filled; the file is read again.
SubjectByMemo(c) ==
    [Subject EXCEPT !.analysis = expected[c].subject.analysis,
                    !.facts = expected[c].subject.facts]

FinishVerify(c) ==
    /\ pc[c] = "verified"
    /\ SubjectByMemo(c) = expected[c].subject
    /\ Respond(c)

\* The errors execute raises itself: a request that asks for something
\* impossible, an invalid batch, "source changed during verification".
Refuse(c) ==
    /\ \/ pc[c] = "open"
       \/ pc[c] = "prepared" /\ ~Valid(work[c])
       \/ pc[c] = "verified" /\ SubjectByMemo(c) # expected[c].subject
    /\ GiveUp(c)

-----------------------------------------------------------------------------
(* Tools *)

ToolRecord(fact, choice, prev, id) ==
    [action |-> choice, subject |-> fact, revision |-> Nothing, receipt |-> Nothing,
     supersedes |-> Nothing, prev |-> prev, id |-> id]

\* record-decision: read the journal, without the lock, and link to its head; the
\* caller may give the decision id: one he makes up, or one from the journal.
RecordLink(t) ==
    /\ t \in Tools \ CascadeTools
    /\ pc[t] = "idle"
    /\ Len(journal) < MaxJournal
    /\ \E fact \in ToolFacts, choice \in ToolVerdicts,
          id \in {Nothing} \cup GivenIds \cup DOMAIN journal :
        Keep(t, [file |-> "journal", at |-> Len(journal), seen |-> Nothing,
                 record |-> ToolRecord(fact, choice, NextPrev(journal), id)])
    /\ Goto(t, "linked")
    /\ LockedRest

\* validate_decision_journal_records on the journal and the new record.
Accepts(J, record) == ValidChain(Append(J, record))

\* decision_journal_report with dry_run_record: the file is read again.
DryRun(t) ==
    /\ t \in Tools \ CascadeTools
    /\ pc[t] = "linked"
    /\ Goto(t, IF Accepts(journal, work[t].record) THEN "checked" ELSE "rejected")
    /\ UNCHANGED work
    /\ LockedRest

\* str() of decision_journal_next_prev turns null into the text "None".
CascadePrev(J) == IF J = <<>> THEN NoneText ELSE NextPrev(J)

CascadeRecord(fact) == ToolRecord(fact, "accept", CascadePrev(journal), fact)

\* Both phases of cascade copy the target and append to the copy first; the second
\* no longer needs what it has seen.
CascadeTry(t, fact, seen, place) ==
    /\ Keep(t, [file |-> "journal", at |-> Len(journal), seen |-> seen,
                record |-> CascadeRecord(fact)])
    /\ Goto(t, IF Accepts(journal, CascadeRecord(fact)) THEN place ELSE "rejected")

\* verify_cascade_effects: the state of the target the verdict is about.
CascadeInspect(t) ==
    /\ t \in CascadeTools
    /\ pc[t] = "idle"
    /\ \E fact \in ToolFacts : CascadeTry(t, fact, Subject, "inspected")
    /\ LockedRest

\* apply_verified_cascade_effects: stale check, staged copy, exact round trip.
CascadeStage(t) ==
    /\ pc[t] = "inspected"
    /\ \/ work[t].seen # Subject /\ Keep(t, NoWork) /\ Goto(t, "idle")
       \/ work[t].seen = Subject /\ CascadeTry(t, work[t].record.subject, Nothing, "checked")
    /\ LockedRest

\* _cascade_record_with_current_prev on the target itself.
CascadeLink(t) ==
    /\ t \in CascadeTools
    /\ pc[t] = "checked"
    /\ Keep(t, [work[t] EXCEPT !.at = Len(journal),
                               !.record = CascadeRecord(work[t].record.subject)])
    /\ Goto(t, "linked")
    /\ LockedRest

\* append_decision_record: lock, read, validate, write the temporary file.
ToolStage(t) ==
    /\ IF t \in CascadeTools THEN pc[t] = "linked" ELSE t \in Tools /\ pc[t] = "checked"
    /\ LET record == work[t].record IN
        \/ /\ record \in DecisionRecords
           /\ Accepts(journal, record)
           /\ Len(journal) < MaxJournal
           /\ Acquire(t)
           /\ Keep(t, [file |-> "journal", seen |-> work[t].seen,
                       content |-> Append(journal, record)])
           /\ Goto(t, "staged")
        \/ /\ ~Accepts(journal, record)
           /\ lock = Nobody
           /\ Goto(t, "rejected")
           /\ UNCHANGED <<lock, work>>
    /\ UnlockedRest

ToolReplace(t) ==
    /\ t \in Tools
    /\ pc[t] = "staged"
    /\ ReplaceBy(work[t])
    /\ lock' = Nobody
    /\ Keep(t, NoWork)
    /\ Goto(t, "idle")
    /\ UNCHANGED <<world, receipts, expected, history>>

\* The tool ends: after a rejection, by an error or because somebody stops it.
ToolEnds(t) ==
    /\ t \in Tools
    /\ pc[t] \notin {"idle", "staged"}
    /\ Keep(t, NoWork)
    /\ Goto(t, "idle")
    /\ LockedRest

-----------------------------------------------------------------------------
(* The world *)

\* The world moves, forwards or back, and may leave the subject of requests that
\* have been checked and have not yet built.
WorldMoves ==
    /\ changes < MaxChanges /\ changes' = changes + 1
    /\ slipped' = slipped \cup
            {expected[c].subject : c \in {d \in Restorers : pc[d] = "open" /\ IsCurrent(d)}}
    /\ UNCHANGED <<manual, journal, receipts, lock, pc, expected, work>>

\* A renderer, a target metadata file: another one, or the one before.
ChangeAnalysis ==
    /\ \E v \in (0..MaxAnalysis) \ {world.analysis} :
        v + world.source <= MaxVersions /\ world' = [world EXCEPT !.analysis = v]
    /\ WorldMoves

ChangeSource ==
    /\ \E v \in (0..MaxSource) \ {world.source} :
        world.analysis + v <= MaxVersions /\ world' = [world EXCEPT !.source = v]
    /\ WorldMoves

-----------------------------------------------------------------------------
Prepare(c) == PrepareEdit(c) \/ PrepareRollback(c) \/ PrepareReview(c) \/ VerifyBuild(c)

\* What a restorer that holds the lock does next unless the world stops it.
Proceed(c) ==
    \/ Refuse(c) \/ Stage(c) \/ Replace(c) \/ FinishWrite(c)
    \/ PersistTruncate(c) \/ PersistWrite(c) \/ FinishVerify(c)

ToolStep(t) ==
    \/ RecordLink(t) \/ DryRun(t)
    \/ CascadeInspect(t) \/ CascadeStage(t) \/ CascadeLink(t)
    \/ ToolStage(t) \/ ToolReplace(t) \/ ToolEnds(t)

Next ==
    \/ \E c \in Restorers : Inspect(c) \/ Begin(c) \/ Prepare(c) \/ Proceed(c)
    \/ \E t \in Tools : ToolStep(t)
    \/ \E a \in Actors : Abort(a)
    \/ ChangeAnalysis \/ ChangeSource

Spec == Init /\ [][Next]_vars

(***************************************************************************)
(* Fairness.  An operation that has the lock is code that runs to its end. *)
(* Nothing is asked of the clients, the tools outside the lock, the world  *)
(* or the failures.                                                        *)
(***************************************************************************)
FairSpec ==
    Spec /\ \A a \in Actors :
        WF_vars((a \in Restorers /\ (Prepare(a) \/ Proceed(a))) \/ ToolReplace(a))

-----------------------------------------------------------------------------
(* Properties *)

\* Restorer c is about to publish, or publishes, its new history.
Commits(c) == pc[c] = "staged" /\ pc'[c] = "replaced"

\* A write of a client lands on exactly the histories its expected_revision
\* names: no lost update, and a retry of a request that took effect although
\* its response was lost finds another revision and is refused.
WritesAreCurrent ==
    [][\A c \in Restorers : Commits(c) =>
        expected[c].subject.actions = Len(manual) /\ expected[c].decisions = Len(journal)]_vars

\* Decisions fall on actions that are in force, with evidence, at the moment
\* they are committed, not at the moment they were checked.
DecisionsOnActiveActions ==
    [][\A i \in DOMAIN journal' \ DOMAIN journal :
        LET action == journal'[i].subject IN
        action \in Nat => action \in Active(manual) /\ manual[action].evidence]_vars

\* No action ever has two decisions in force, whatever mix of single reviews,
\* batches, supersessions and tool records made the journal.
OneDecisionPerAction ==
    \A i \in DOMAIN manual : Cardinality(DecisionsOn(journal, i)) <= 1

\* A decided action stays decided: its decision is replaced, never just taken
\* away, because supersession and replacement are one batch.
DecidedStaysDecided ==
    [][\A i \in DOMAIN manual :
        DecisionsOn(journal, i) # {} => DecisionsOn(journal, i)' # {}]_vars

\* What _history shows as accepted and verification_current was rebuilt byte
\* for byte from the very subject the target has now, also when the world returns
\* to a subject it had before.  The one exception is a subject that the world left
\* while a request on it waited to build: verify takes the analysis key from its
\* snapshot, and what was built may differ in renderer, metadata or program.
CurrentMeansRebuilt ==
    \A i \in Live(journal) :
        LET d == journal[i]
            built == d.receipt.built IN
        d.action = "accept" /\ d.subject \in DOMAIN manual /\ d.revision = Subject =>
            /\ d.receipt.exact
            /\ \/ built = Subject
               \/ /\ Subject \in slipped
                  /\ built.facts = Subject.facts /\ built.actions = Subject.actions

\* What a review has prepared from the journal it read is still a valid
\* continuation of the journal when append_decision_records reads it again: the
\* "decision rejected" error is never raised for a review.
PreparedIsValid ==
    \A c \in Restorers : pc[c] = "prepared" => Valid(work[c])

\* record-decision: a rejection has a reason; somebody else's record came
\* between the read and the append, or the id the caller gave is taken.
JournalToolRejection ==
    \A t \in Tools \ CascadeTools :
        pc[t] = "rejected" =>
            work[t].at # Len(journal) \/ Taken(journal, Len(journal) + 1, work[t].record.id)

\* target_lock is given back whatever happens in between.
LockReturned == \A a \in Actors : lock = a ~> lock # a

\* Growth, one history at a time, every published journal valid: what a
\* reader without the lock relies on.
Promise == INSTANCE HistoryPromise
ImplementsPromise == Promise!Spec

-----------------------------------------------------------------------------
(* What the documentation says and the code does not do *)

\* cascade-apply "writes only verified, attributed effects": it can write, and
\* is refused only if the journal moved or has the fact already.
CascadeRejection ==
    \A t \in CascadeTools :
        pc[t] = "rejected" =>
            work[t].at # Len(journal) \/ Taken(journal, Len(journal) + 1, work[t].record.id)
=============================================================================
