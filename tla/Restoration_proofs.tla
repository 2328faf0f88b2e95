------------------------- MODULE Restoration_proofs -------------------------
(***************************************************************************)
(* Proofs about Restoration, for any number of clients and tools and for   *)
(* histories of any length, in three parts that stand on each other: the   *)
(* histories and their lock; the decisions clients and tools add to the    *)
(* journal; what is read at one time and used at another.                  *)
(***************************************************************************)
EXTENDS Restoration, FiniteSetTheorems, TLAPS

(***************************************************************************)
(* The histories and their lock.                                           *)
(*                                                                         *)
(* The argument: the lock excludes (Exclusive); so the revision a client   *)
(* was checked against stays the revision of the histories until its own   *)
(* commit (Based), and the content somebody has staged still extends the   *)
(* file it is going to replace (Staged).                                   *)
(***************************************************************************)

Typed ==
    /\ manual \in Seq(ActionRecords)
    /\ journal \in Seq(DecisionRecords)
    /\ pc \in [Actors -> Places]
    /\ DOMAIN work = Actors
    /\ DOMAIN expected = Restorers

\* Whoever is in a locked place has the lock.
Exclusive == \A a \in Actors : pc[a] \in LockedPlaces => lock = a

\* The histories are those client c has named.
Named(c) == expected[c].subject.actions = Len(manual) /\ expected[c].decisions = Len(journal)

\* Until its commit, an operation works on the histories its client named.
Based == \A c \in Restorers : pc[c] \in LockedPlaces \ {"replaced"} => Named(c)

\* Content that may replace a history.
Continues(w) ==
    \/ /\ w.file = "manual"
       /\ w.content \in Seq(ActionRecords)
       /\ IsStrictPrefix(manual, w.content)
    \/ /\ w.file = "journal"
       /\ w.content \in Seq(DecisionRecords)
       /\ IsStrictPrefix(journal, w.content)
       /\ ValidChain(w.content)

Staged == \A a \in Actors : pc[a] = "staged" => Continues(work[a])

HistoryInv ==
    /\ Typed
    /\ Exclusive
    /\ Based
    /\ Staged
    /\ ValidChain(journal)

-----------------------------------------------------------------------------
(* Sequences *)

LEMMA ConcatExtends ==
    ASSUME NEW S, NEW s \in Seq(S), NEW t \in Seq(S), t # <<>>
    PROVE  s \o t \in Seq(S) /\ IsStrictPrefix(s, s \o t)
<1>1. s \o t \in Seq(S) /\ Len(s \o t) = Len(s) + Len(t) /\ Len(t) > 0
  OBVIOUS
<1>2. SubSeq(s \o t, 1, Len(s)) = SubSeq(s, 1, Len(s))
  BY <1>1
<1> QED
  BY <1>1, <1>2 DEF IsStrictPrefix, IsPrefix

LEMMA AppendExtends ==
    ASSUME NEW S, NEW s \in Seq(S), NEW x \in S
    PROVE  Append(s, x) \in Seq(S) /\ IsStrictPrefix(s, Append(s, x))
<1>1. Append(s, x) \in Seq(S) /\ Len(Append(s, x)) = Len(s) + 1
  OBVIOUS
<1>2. SubSeq(Append(s, x), 1, Len(s)) = SubSeq(s, 1, Len(s))
  BY <1>1
<1> QED
  BY <1>1, <1>2 DEF IsStrictPrefix, IsPrefix

-----------------------------------------------------------------------------
LEMMA InitHistory == Init => HistoryInv
BY ConstantsAssumption DEF Init, HistoryInv, Typed, Exclusive, Based, Staged, NoFile,
    Actors, Places, LockedPlaces, ValidChain

\* A step of one actor that leaves the histories alone and stages nothing.
LEMMA LocalStep ==
    ASSUME HistoryInv, NEW a \in Actors,
           UNCHANGED <<manual, journal>>,
           pc' \in [Actors -> Places], DOMAIN work' = Actors, DOMAIN expected' = Restorers,
           \A b \in Actors \ {a} : pc'[b] = pc[b] /\ work'[b] = work[b],
           \A c \in Restorers \ {a} : expected'[c] = expected[c],
           lock' = lock \/ lock \in {a, Nobody},
           pc'[a] # "staged",
           pc'[a] \in LockedPlaces => lock' = a,
           a \in Restorers /\ pc'[a] \in LockedPlaces \ {"replaced"} => Named(a)'
    PROVE  HistoryInv'
<1>1. Typed' /\ ValidChain(journal)'
  BY DEF HistoryInv, Typed, ValidChain, ValidRecord, Taken
<1>2. Exclusive'
  BY ConstantsAssumption DEF HistoryInv, Exclusive, Actors
<1>3. Based'
  BY DEF HistoryInv, Based, Named, Actors
<1>4. Staged'
  BY DEF HistoryInv, Staged, Continues
<1> QED
  BY <1>1, <1>2, <1>3, <1>4 DEF HistoryInv

\* A history is replaced by what its writer has staged under the lock.
LEMMA ReplaceStep ==
    ASSUME HistoryInv, NEW a \in Actors, pc[a] = "staged",
           ReplaceBy(work[a]), Keep(a, NoWork), UNCHANGED expected,
           NEW place \in {"idle", "replaced"}, Goto(a, place),
           lock' = lock \/ place = "idle"
    PROVE  HistoryInv'
<1>1. lock = a /\ Continues(work[a])
  BY DEF HistoryInv, Exclusive, Staged, LockedPlaces
<1>2. \A b \in Actors \ {a} : pc[b] \notin LockedPlaces
  BY <1>1 DEF HistoryInv, Exclusive
<1>3. Typed'
  BY <1>1 DEF HistoryInv, Typed, Continues, ReplaceBy, Keep, Goto, Places, LockedPlaces
<1>4. pc' = [pc EXCEPT ![a] = place] /\ pc \in [Actors -> Places]
  BY DEF Goto, HistoryInv, Typed
<1>5. Exclusive'
  BY <1>1, <1>2, <1>4 DEF Exclusive, LockedPlaces
<1>6. Based'
  BY <1>2, <1>4 DEF Based, Actors, LockedPlaces
<1>7. Staged'
  BY <1>2, <1>4 DEF Staged, LockedPlaces
<1>8. ValidChain(journal)'
  BY <1>1 DEF HistoryInv, Continues, ReplaceBy, ValidChain, ValidRecord, Taken
<1> QED
  BY <1>3, <1>5, <1>6, <1>7, <1>8 DEF HistoryInv

\* Content is staged: it continues its history.
LEMMA StageStep ==
    ASSUME HistoryInv, NEW a \in Actors, NEW w, Continues(w),
           UNCHANGED <<manual, journal, expected>>,
           Keep(a, w), Goto(a, "staged"),
           lock' = a, lock \in {a, Nobody},
           a \in Restorers => Named(a)
    PROVE  HistoryInv'
<1>1. pc' = [pc EXCEPT ![a] = "staged"] /\ pc \in [Actors -> Places]
      /\ work' = [work EXCEPT ![a] = w] /\ DOMAIN work = Actors
  BY DEF Goto, Keep, HistoryInv, Typed
<1>2. \A b \in Actors \ {a} : pc[b] \notin LockedPlaces
  BY ConstantsAssumption DEF HistoryInv, Exclusive, Actors
<1>3. Typed' /\ ValidChain(journal)'
  BY <1>1 DEF HistoryInv, Typed, ValidChain, ValidRecord, Taken, Places, LockedPlaces
<1>4. Exclusive'
  BY <1>1, <1>2 DEF Exclusive
<1>5. Based'
  BY <1>1, <1>2 DEF Based, Named, Actors
<1>6. Staged'
  <2> SUFFICES ASSUME NEW b \in Actors, pc'[b] = "staged" PROVE Continues(work[b])'
    BY DEF Staged
  <2>1. b = a
    BY <1>1, <1>2 DEF LockedPlaces
  <2>2. work'[b] = w
    BY <1>1, <2>1
  <2> QED
    BY <2>2 DEF Continues, ValidChain, ValidRecord, Taken
<1> QED
  BY <1>3, <1>4, <1>5, <1>6 DEF HistoryInv

-----------------------------------------------------------------------------
LEMMA RestorerKeepsHistory ==
    ASSUME HistoryInv, NEW c \in Restorers,
           Inspect(c) \/ Begin(c) \/ Prepare(c) \/ Proceed(c)
    PROVE  HistoryInv'
<1> USE DEF Goto, Keep, LockedRest, UnlockedRest, LockedPlaces, Places
<1>a. c \in Actors
  BY DEF Actors
<1>t. Typed
  BY DEF HistoryInv
<1>l. pc[c] \in LockedPlaces => lock = c
  BY <1>a DEF HistoryInv, Exclusive
<1>n. pc[c] \in LockedPlaces \ {"replaced"} => Named(c)
  BY DEF HistoryInv, Based
<1>1. CASE Inspect(c)
  BY <1>1, <1>a, <1>t, LocalStep DEF Inspect, Typed
<1>2. CASE Begin(c)
  <2>1. Named(c)'
    BY <1>2 DEF Begin, IsCurrent, Revision, Subject, Named
  <2> QED
    BY <1>2, <2>1, <1>a, <1>t, LocalStep DEF Begin, Acquire, Typed
<1>3. CASE Prepare(c)
  <2>1. pc[c] = "open" /\ UNCHANGED <<manual, journal, expected, lock>>
        /\ \E place \in {"prepared", "built"} : pc' = [pc EXCEPT ![c] = place]
    BY <1>3 DEF Prepare, PrepareEdit, PrepareRollback, PrepareReview, VerifyBuild
  <2>2. \E w : work' = [work EXCEPT ![c] = w]
    BY <1>3 DEF Prepare, PrepareEdit, PrepareRollback, PrepareReview, VerifyBuild
  <2>3. Named(c)'
    BY <2>1, <1>n DEF Named
  <2> QED
    BY <2>1, <2>2, <2>3, <1>a, <1>t, <1>l, LocalStep DEF Typed
<1>4. CASE Refuse(c)
  BY <1>4, <1>a, <1>t, <1>l, LocalStep DEF Refuse, GiveUp, Typed
<1>5. CASE Stage(c)
  <2>1. PICK w : /\ w = [file |-> work[c].file,
                         content |-> Appended(IF work[c].file = "manual" THEN manual ELSE journal,
                                              work[c].additions)]
                 /\ Keep(c, w)
    BY <1>5 DEF Stage
  <2>2. Continues(w)
    <3>1. CASE work[c].file = "manual"
      <4>1. work[c].additions \in Seq(ActionRecords) /\ work[c].additions # <<>>
        BY <1>5, <3>1 DEF Stage, Valid
      <4>2. w.file = "manual" /\ w.content = manual \o work[c].additions
        BY <2>1, <3>1 DEF Appended
      <4> QED
        BY <4>1, <4>2, <1>t, ConcatExtends DEF Continues, Typed
    <3>2. CASE work[c].file # "manual"
      <4>1. work[c].file = "journal" /\ work[c].additions \in Seq(DecisionRecords)
            /\ work[c].additions # <<>> /\ ValidChain(journal \o work[c].additions)
        BY <1>5, <3>2 DEF Stage, Valid
      <4>2. w.file = "journal" /\ w.content = journal \o work[c].additions
        BY <2>1, <4>1 DEF Appended
      <4> QED
        BY <4>1, <4>2, <1>t, ConcatExtends DEF Continues, Typed
    <3> QED
      BY <3>1, <3>2
  <2> QED
    BY <1>5, <2>1, <2>2, <1>a, <1>l, <1>n, StageStep DEF Stage
<1>6. CASE Replace(c)
  BY <1>6, <1>a, ReplaceStep DEF Replace
<1>7. CASE FinishWrite(c)
  BY <1>7, <1>a, <1>t, <1>l, LocalStep DEF FinishWrite, Respond, Typed
<1>8. CASE PersistTruncate(c)
  <2>1. Named(c)'
    BY <1>8, <1>n DEF PersistTruncate, Named
  <2> QED
    BY <1>8, <2>1, <1>a, <1>t, <1>l, LocalStep DEF PersistTruncate, Typed
<1>9. CASE PersistWrite(c)
  <2>1. Named(c)'
    BY <1>9, <1>n DEF PersistWrite, Named
  <2> QED
    BY <1>9, <2>1, <1>a, <1>t, <1>l, LocalStep DEF PersistWrite, Typed
<1>10. CASE FinishVerify(c)
  BY <1>10, <1>a, <1>t, <1>l, LocalStep DEF FinishVerify, Respond, Typed
<1> QED
  BY <1>1, <1>2, <1>3, <1>4, <1>5, <1>6, <1>7, <1>8, <1>9, <1>10 DEF Proceed

LEMMA ToolKeepsHistory ==
    ASSUME HistoryInv, NEW t \in Tools, ToolStep(t)
    PROVE  HistoryInv'
<1> USE DEF Goto, Keep, LockedRest, UnlockedRest, LockedPlaces, Places
<1>a. t \in Actors /\ t \notin Restorers
  BY ConstantsAssumption DEF Actors
<1>t. Typed
  BY DEF HistoryInv
<1>1. CASE RecordLink(t)
  BY <1>1, <1>a, <1>t, LocalStep DEF RecordLink, Typed
<1>2. CASE DryRun(t)
  BY <1>2, <1>a, <1>t, LocalStep DEF DryRun, Typed
<1>3. CASE CascadeInspect(t)
  BY <1>3, <1>a, <1>t, LocalStep DEF CascadeInspect, CascadeTry, Typed
<1>4. CASE CascadeStage(t)
  BY <1>4, <1>a, <1>t, LocalStep DEF CascadeStage, CascadeTry, Typed
<1>5. CASE CascadeLink(t)
  BY <1>5, <1>a, <1>t, LocalStep DEF CascadeLink, Typed
<1>6. CASE ToolStage(t)
  <2>1. CASE Goto(t, "rejected") /\ UNCHANGED <<lock, work>>
    BY <1>6, <2>1, <1>a, <1>t, LocalStep DEF ToolStage, Typed
  <2>2. CASE /\ work[t].record \in DecisionRecords
             /\ Accepts(journal, work[t].record)
             /\ Acquire(t)
             /\ Keep(t, [file |-> "journal", seen |-> work[t].seen,
                         content |-> Append(journal, work[t].record)])
             /\ Goto(t, "staged")
    <3> DEFINE w == [file |-> "journal", seen |-> work[t].seen,
                     content |-> Append(journal, work[t].record)]
    <3>1. Continues(w)
      BY <2>2, <1>t, AppendExtends DEF Continues, Accepts, Typed
    <3>2. lock' = t /\ lock \in {t, Nobody}
      BY <2>2 DEF Acquire
    <3>3. UNCHANGED <<manual, journal, expected>>
      BY <1>6 DEF ToolStage
    <3>4. Keep(t, w) /\ Goto(t, "staged")
      BY <2>2
    <3> QED
      BY <3>1, <3>2, <3>3, <3>4, <1>a, StageStep
  <2> QED
    BY <1>6, <2>1, <2>2 DEF ToolStage
<1>7. CASE ToolReplace(t)
  BY <1>7, <1>a, ReplaceStep DEF ToolReplace
<1>8. CASE ToolEnds(t)
  BY <1>8, <1>a, <1>t, LocalStep DEF ToolEnds, Typed
<1> QED
  BY <1>1, <1>2, <1>3, <1>4, <1>5, <1>6, <1>7, <1>8 DEF ToolStep

LEMMA NextHistory == HistoryInv /\ [Next]_vars => HistoryInv'
<1> SUFFICES ASSUME HistoryInv, [Next]_vars PROVE HistoryInv'
  OBVIOUS
<1>1. CASE \E c \in Restorers : Inspect(c) \/ Begin(c) \/ Prepare(c) \/ Proceed(c)
  BY <1>1, RestorerKeepsHistory
<1>2. CASE \E t \in Tools : ToolStep(t)
  BY <1>2, ToolKeepsHistory
<1>3. CASE \E a \in Actors : Abort(a)
  BY <1>3, LocalStep DEF Abort, GiveUp, Goto, Keep, UnlockedRest, HistoryInv, Typed,
      Places, LockedPlaces
<1>4. CASE ChangeAnalysis \/ ChangeSource \/ UNCHANGED vars
  BY <1>4 DEF ChangeAnalysis, ChangeSource, WorldMoves, vars, HistoryInv, Typed, Exclusive, Based, Named,
      Staged, Continues, ValidChain, ValidRecord, Taken
<1> QED
  BY <1>1, <1>2, <1>3, <1>4 DEF Next

LEMMA HistoryInvariant == Spec => []HistoryInv
BY InitHistory, NextHistory, PTL DEF Spec

-----------------------------------------------------------------------------
\* The histories change only when somebody replaces one by what it has staged.
LEMMA OnlyCommitsChange ==
    ASSUME [Next]_vars, <<manual, journal>>' # <<manual, journal>>
    PROVE  \E a \in Actors : pc[a] = "staged" /\ ReplaceBy(work[a])
<1>1. CASE \E c \in Restorers : Inspect(c) \/ Begin(c) \/ Prepare(c) \/ Proceed(c)
  BY <1>1 DEF Inspect, Begin, Prepare, PrepareEdit, PrepareRollback, PrepareReview,
      VerifyBuild, Proceed, Refuse, GiveUp, Stage, Replace, FinishWrite, Respond,
      PersistTruncate, PersistWrite, FinishVerify, LockedRest, UnlockedRest, Actors
<1>2. CASE \E t \in Tools : ToolStep(t)
  BY <1>2 DEF ToolStep, RecordLink, DryRun, CascadeInspect, CascadeTry, CascadeStage, CascadeLink,
      ToolStage, ToolReplace, ToolEnds, LockedRest, UnlockedRest, Actors
<1>3. CASE \E a \in Actors : Abort(a)
  BY <1>3 DEF Abort, GiveUp, UnlockedRest
<1>4. CASE ChangeAnalysis \/ ChangeSource \/ UNCHANGED vars
  BY <1>4 DEF ChangeAnalysis, ChangeSource, WorldMoves, vars
<1> QED
  BY <1>1, <1>2, <1>3, <1>4 DEF Next

\* Both histories only grow, one at a time, and every journal a reader can see,
\* with or without the lock, is a valid chain (atomic_append_history,
\* append_manual_actions, append_decision_records).
THEOREM HistoriesKeepPromise == Spec => ImplementsPromise
<1>1. Init => Promise!Init
  BY DEF Init, Promise!Init, NoFile
<1>2. HistoryInv /\ [Next]_vars => [Promise!Next]_<<manual, journal>>
  <2> SUFFICES ASSUME HistoryInv, [Next]_vars, <<manual, journal>>' # <<manual, journal>>
               PROVE  Promise!Next
    OBVIOUS
  <2>1. PICK a \in Actors : pc[a] = "staged" /\ ReplaceBy(work[a])
    BY OnlyCommitsChange
  <2>2. Continues(work[a])
    BY <2>1 DEF HistoryInv, Staged
  <2>3. CASE work[a].file = "manual"
    BY <2>1, <2>2, <2>3 DEF ReplaceBy, Continues, IsStrictPrefix, IsPrefix, Promise!Next,
        Promise!AppendActions, Promise!IsStrictPrefix, Promise!IsPrefix
  <2>4. CASE work[a].file = "journal"
    BY <2>1, <2>2, <2>4 DEF ReplaceBy, Continues, IsStrictPrefix, IsPrefix, Promise!Next,
        Promise!AppendDecisions, Promise!IsStrictPrefix, Promise!IsPrefix,
        ValidChain, ValidRecord, Taken, Promise!ValidChain,
        Promise!ValidRecord, Promise!Taken
  <2> QED
    BY <2>1, <2>3, <2>4 DEF ReplaceBy
<1> QED
  BY <1>1, <1>2, HistoryInvariant, PTL DEF Spec, ImplementsPromise, Promise!Spec

\* A client's write lands on the histories its expected_revision names, never on
\* later ones (require_revision under target_lock).
THEOREM ClientWritesAreCurrent == Spec => WritesAreCurrent
<1>1. HistoryInv => (\A c \in Restorers : Commits(c) =>
          expected[c].subject.actions = Len(manual) /\ expected[c].decisions = Len(journal))
  BY DEF HistoryInv, Based, Named, Commits, LockedPlaces
<1> QED
  BY <1>1, HistoryInvariant, PTL DEF Spec, WritesAreCurrent

-----------------------------------------------------------------------------
(* Types *)

\* The receipt a verify carries around is one.
CarriesReceipt ==
    \A c \in Restorers :
        pc[c] \in {"built", "truncated", "verified"} => work[c].receipt \in Receipts

TypeInv == TypeOK /\ CarriesReceipt

LEMMA RevisionTyped == ASSUME TypeOK PROVE Revision \in Revisions /\ Subject \in Subjects
<1>1. AcceptedFacts(journal) \in SUBSET ToolFacts
  BY DEF AcceptedFacts
<1>2. Len(manual) \in Nat /\ Len(journal) \in Nat
  BY DEF TypeOK
<1> QED
  BY <1>1, <1>2 DEF TypeOK, Revision, Subject, Revisions, Subjects

LEMMA InitTyped == Init => TypeInv
<1> SUFFICES ASSUME Init PROVE TypeInv
  OBVIOUS
<1>1. /\ manual \in Seq(ActionRecords) /\ journal \in Seq(DecisionRecords)
      /\ world \in [analysis : 0..MaxAnalysis, source : 0..MaxSource]
  BY ConstantsAssumption DEF Init, NoFile
<1>2. Revision \in Revisions
  BY <1>1 DEF Revision, Subject, Revisions, Subjects, AcceptedFacts
<1>3. pc \in [Actors -> Places] /\ DOMAIN work = Actors
  BY DEF Init, Places
<1>4. changes \in 0..MaxChanges /\ slipped \subseteq Subjects
  BY ConstantsAssumption DEF Init
<1> QED
  BY <1>1, <1>2, <1>3, <1>4 DEF Init, TypeInv, TypeOK, CarriesReceipt, Actors

\* Only the world moves the history variables, and nothing else moves the world.
LEMMA HistorySteps ==
    ASSUME [Next]_vars
    PROVE  WorldMoves \/ UNCHANGED <<world, history>>
<1>1. ASSUME NEW c \in Restorers, Inspect(c) \/ Begin(c) \/ Prepare(c) \/ Proceed(c)
      PROVE  UNCHANGED <<world, history>>
  BY <1>1 DEF Inspect, Begin, Prepare, PrepareEdit, PrepareRollback, PrepareReview,
      VerifyBuild, Proceed, Refuse, GiveUp, Stage, Replace, FinishWrite, Respond,
      PersistTruncate, PersistWrite, FinishVerify, LockedRest, UnlockedRest
<1>2. ASSUME NEW t \in Tools, ToolStep(t)
      PROVE  UNCHANGED <<world, history>>
  BY <1>2 DEF ToolStep, RecordLink, DryRun, CascadeInspect, CascadeStage, CascadeLink,
      ToolStage, ToolReplace, ToolEnds, LockedRest, UnlockedRest
<1>3. ASSUME NEW a \in Actors, Abort(a) PROVE UNCHANGED <<world, history>>
  BY <1>3 DEF Abort, GiveUp, UnlockedRest
<1> QED
  BY <1>1, <1>2, <1>3 DEF Next, ChangeAnalysis, ChangeSource, vars

LEMMA NextTyped == TypeInv /\ HistoryInv /\ HistoryInv' /\ [Next]_vars => TypeInv'
<1> SUFFICES ASSUME TypeInv, HistoryInv, HistoryInv', [Next]_vars PROVE TypeInv'
  OBVIOUS
<1> USE DEF Goto, Keep, LockedRest, UnlockedRest
<1>t. TypeOK /\ CarriesReceipt
  BY DEF TypeInv
<1>r. Revision \in Revisions /\ Subject \in Subjects
  BY <1>t, RevisionTyped
<1>h. /\ manual' \in Seq(ActionRecords) /\ journal' \in Seq(DecisionRecords)
      /\ pc' \in [Actors -> Places] /\ DOMAIN work' = Actors /\ DOMAIN work = Actors
  BY DEF HistoryInv, Typed
<1>1. /\ world' \in [analysis : 0..MaxAnalysis, source : 0..MaxSource]
      /\ lock' \in Actors \cup {Nobody}
      /\ expected' \in [Restorers -> Revisions]
      /\ receipts' \subseteq Receipts
      /\ CarriesReceipt'
  <2>1. ASSUME NEW c \in Restorers, Inspect(c) \/ Begin(c) PROVE <1>1
    BY <2>1, <1>t, <1>r DEF Inspect, Begin, Acquire, TypeOK, CarriesReceipt, Actors
  <2>2. ASSUME NEW c \in Restorers, Prepare(c) PROVE <1>1
    <3>1. CASE PrepareEdit(c) \/ PrepareRollback(c) \/ PrepareReview(c)
      <4>1. pc' = [pc EXCEPT ![c] = "prepared"] /\ UNCHANGED <<world, lock, expected, receipts>>
        BY <3>1 DEF PrepareEdit, PrepareRollback, PrepareReview
      <4>2. \E w : work' = [work EXCEPT ![c] = w]
        BY <3>1 DEF PrepareEdit, PrepareRollback, PrepareReview
      <4>3. \A d \in Restorers \ {c} : work'[d] = work[d]
        BY <4>2, <1>h DEF Actors
      <4> QED
        BY <4>1, <4>3, <1>t DEF TypeOK, CarriesReceipt, Actors
    <3>2. CASE VerifyBuild(c)
      <4>1. PICK exact \in BOOLEAN : work' = [work EXCEPT ![c] =
                [file |-> "receipt",
                 receipt |-> [subject |-> expected[c].subject, built |-> Subject,
                              exact |-> exact]]]
        BY <3>2 DEF VerifyBuild
      <4>2. expected[c].subject \in Subjects
        BY <1>t DEF TypeOK, Revisions
      <4>3. work'[c].receipt \in Receipts /\ \A d \in Restorers \ {c} : work'[d] = work[d]
        BY <4>1, <4>2, <1>r, <1>h DEF Receipts, Actors
      <4> QED
        BY <4>3, <3>2, <1>t DEF VerifyBuild, TypeOK, CarriesReceipt, Actors
    <3> QED
      BY <2>2, <3>1, <3>2 DEF Prepare
  <2>3. ASSUME NEW c \in Restorers, Proceed(c) PROVE <1>1
    <3>1. CASE Refuse(c)
      BY <3>1, <1>t DEF Refuse, GiveUp, TypeOK, CarriesReceipt, Actors
    <3>2. CASE Stage(c) \/ Replace(c)
      BY <3>2, <1>t DEF Stage, Replace, TypeOK, CarriesReceipt, Actors
    <3>3. CASE FinishWrite(c) \/ FinishVerify(c)
      <4>1. Respond(c)
        BY <3>3 DEF FinishWrite, FinishVerify
      <4>2. \A d \in Restorers : pc'[d] = "idle" \/ (pc'[d] = pc[d] /\ work'[d] = work[d])
        BY <4>1, <1>t, <1>h DEF Respond, TypeOK, Actors
      <4>3. CarriesReceipt'
        BY <4>1, <4>2, <1>t DEF Respond, CarriesReceipt
      <4> QED
        BY <4>1, <4>3, <1>t, <1>r DEF Respond, TypeOK
    <3>4. CASE PersistTruncate(c) \/ PersistWrite(c)
      BY <3>4, <1>t DEF PersistTruncate, PersistWrite, TypeOK, CarriesReceipt, Actors
    <3> QED
      BY <2>3, <3>1, <3>2, <3>3, <3>4 DEF Proceed
  <2>4. ASSUME NEW t \in Tools, ToolStep(t) PROVE <1>1
    <3>1. UNCHANGED <<world, expected, receipts>> /\ lock' \in {lock, t, Nobody}
      BY <2>4 DEF ToolStep, RecordLink, DryRun, CascadeInspect, CascadeTry, CascadeStage, CascadeLink,
          ToolStage, Acquire, ToolReplace, ToolEnds
    <3>2. \E place : pc' = [pc EXCEPT ![t] = place]
      BY <2>4 DEF ToolStep, RecordLink, DryRun, CascadeInspect, CascadeTry, CascadeStage, CascadeLink,
          ToolStage, ToolReplace, ToolEnds
    <3>3. work' = work \/ \E w : work' = [work EXCEPT ![t] = w]
      BY <2>4 DEF ToolStep, RecordLink, DryRun, CascadeInspect, CascadeTry, CascadeStage, CascadeLink,
          ToolStage, ToolReplace, ToolEnds
    <3>4. \A c \in Restorers : pc'[c] = pc[c] /\ work'[c] = work[c]
      BY <3>2, <3>3, <1>t, <1>h, ConstantsAssumption DEF TypeOK, Actors
    <3> QED
      BY <3>1, <3>4, <1>t DEF TypeOK, CarriesReceipt, Actors
  <2>5. ASSUME NEW a \in Actors, Abort(a) PROVE <1>1
    BY <2>5, <1>t DEF Abort, GiveUp, TypeOK, CarriesReceipt, Actors
  <2>6. CASE ChangeAnalysis \/ ChangeSource
    BY <2>6, <1>t DEF ChangeAnalysis, ChangeSource, WorldMoves, TypeOK, CarriesReceipt
  <2>7. CASE UNCHANGED vars
    BY <2>7, <1>t DEF vars, TypeOK, CarriesReceipt
  <2> QED
    BY <2>1, <2>2, <2>3, <2>4, <2>5, <2>6, <2>7 DEF Next
<1>2. changes' \in 0..MaxChanges /\ slipped' \subseteq Subjects
  <2>1. CASE WorldMoves
    <3>1. changes' \in 0..MaxChanges
      BY <2>1, <1>t, ConstantsAssumption DEF WorldMoves, TypeOK
    <3>2. \A c \in Restorers : expected[c].subject \in Subjects
      BY <1>t DEF TypeOK, Revisions
    <3> QED
      BY <2>1, <3>1, <3>2, <1>t DEF WorldMoves, TypeOK
  <2>2. CASE UNCHANGED history
    BY <2>2, <1>t DEF history, TypeOK
  <2> QED
    BY <2>1, <2>2, HistorySteps
<1> QED
  BY <1>h, <1>1, <1>2 DEF TypeInv, TypeOK

\* Every variable keeps its shape; for expected and receipts this says that every
\* revision a client learns and every receipt on disk is a complete one.
THEOREM RestorationTyped == Spec => []TypeOK
<1>1. TypeInv => TypeOK
  BY DEF TypeInv
<1> QED
  BY <1>1, InitTyped, NextTyped, HistoryInvariant, PTL DEF Spec

(***************************************************************************)
(* Proofs about the decisions clients and tools add to the journal, for    *)
(* any number of them, batches of any size and histories of any length.    *)
(*                                                                         *)
(* The argument: what a review has prepared is described by Review, a      *)
(* relation between the batch and the histories it was prepared from.      *)
(* The part above shows that these histories are still there when the      *)
(* batch is committed, so the relation is still true then; and it is all   *)
(* the properties of decisions need.                                       *)
(***************************************************************************)

\* What a review adds to journal J when L is the Manual Action Log.
Review(J, L, A) ==
    /\ A \in Seq(DecisionRecords)
    /\ A # <<>>
    /\ \A m \in DOMAIN A :
        \/ /\ A[m].action \in Verdicts
           /\ A[m].subject \in Active(L)
           /\ L[A[m].subject].evidence
           /\ \A d \in DecisionsOn(J, A[m].subject) :
                \E n \in DOMAIN A : A[n].action = "supersede" /\ A[n].supersedes = d
        \/ /\ A[m].action = "supersede"
           /\ A[m].subject = Nothing
           /\ A[m].supersedes \in Live(J)
           /\ \E n \in DOMAIN A :
                A[n].action \in Verdicts /\ A[n].subject = J[A[m].supersedes].subject
    /\ \A m, n \in DOMAIN A :
        A[m].action \in Verdicts /\ A[n].action \in Verdicts /\ A[m].subject = A[n].subject
            => m = n

\* What a tool adds: a verdict on a fact, never on an action.
OfTool(record) == record.action \in Verdicts /\ record.subject \in ToolFacts

Unique(J) == \A i \in Nat : \A d, e \in DecisionsOn(J, i) : d = e

PreparesReview(c) ==
    pc[c] = "prepared" =>
        \/ work[c].file = "manual" /\ work[c].additions \in Seq(ActionRecords) \ {<<>>}
        \/ /\ work[c].file = "journal"
           /\ Review(journal, manual, work[c].additions)
           /\ ValidChain(journal \o work[c].additions)

StagesReview(c) ==
    pc[c] = "staged" /\ work[c].file = "journal" =>
        \E A : Review(journal, manual, A) /\ work[c].content = journal \o A

StagesRecord(t) ==
    pc[t] = "staged" =>
        /\ work[t].file = "journal"
        /\ \E record \in DecisionRecords :
            OfTool(record) /\ work[t].content = Append(journal, record)

CarriesRecord(t) ==
    pc[t] \in {"inspected", "linked", "checked"} =>
        DOMAIN work[t] = {"file", "at", "seen", "record"} /\ OfTool(work[t].record)

ReviewInv ==
    /\ Unique(journal)
    /\ \A c \in Restorers : PreparesReview(c) /\ StagesReview(c)
    /\ \A t \in Tools : StagesRecord(t) /\ CarriesRecord(t)

-----------------------------------------------------------------------------
(* Decisions in force before and after an append *)

\* Records that supersede only old positions leave a decision in force unless
\* they supersede it, and put every verdict among them in force.
LEMMA LiveAfter ==
    ASSUME NEW J \in Seq(DecisionRecords), ValidChain(J),
           NEW K \in Seq(DecisionRecords), Len(J) <= Len(K),
           \A k \in 1..Len(J) : K[k] = J[k],
           \A k \in (Len(J) + 1)..Len(K) :
                K[k].action = "supersede" => K[k].supersedes \in 1..Len(J)
    PROVE  /\ \A i \in 1..Len(J) :
                i \in Live(K) <=>
                    /\ i \in Live(J)
                    /\ \A k \in (Len(J) + 1)..Len(K) :
                        K[k].action = "supersede" => K[k].supersedes # i
           /\ \A i \in (Len(J) + 1)..Len(K) : i \in Live(K) <=> K[i].action \in Verdicts
           /\ Live(K) \subseteq 1..Len(K)
           /\ Live(J) \subseteq 1..Len(J)
<1>1. DOMAIN J = 1..Len(J) /\ DOMAIN K = 1..Len(K) /\ Len(J) \in Nat /\ Len(K) \in Nat
  OBVIOUS
<1>2. \A k \in 1..Len(J) : J[k].action = "supersede" => J[k].supersedes \in 1..Len(J)
  BY <1>1 DEF ValidChain, ValidRecord, Taken
<1>3. \A k \in 1..Len(K) : K[k].action = "supersede" => K[k].supersedes \in 1..Len(J)
  BY <1>1, <1>2
<1>4. \A i : i \in Superseded(K) <=> \E k \in 1..Len(K) :
                K[k].action = "supersede" /\ K[k].supersedes = i
  BY <1>1 DEF Superseded
<1>5. \A i : i \in Superseded(J) <=> \E k \in 1..Len(J) :
                J[k].action = "supersede" /\ J[k].supersedes = i
  BY <1>1 DEF Superseded
<1>6. ASSUME NEW i \in 1..Len(J)
      PROVE  i \in Live(K) <=>
                /\ i \in Live(J)
                /\ \A k \in (Len(J) + 1)..Len(K) :
                    K[k].action = "supersede" => K[k].supersedes # i
  <2>1. i \in Superseded(K) <=>
            \/ i \in Superseded(J)
            \/ \E k \in (Len(J) + 1)..Len(K) : K[k].action = "supersede" /\ K[k].supersedes = i
    BY <1>1, <1>4, <1>5
  <2> QED
    BY <1>1, <2>1 DEF Live
<1>7. ASSUME NEW i \in (Len(J) + 1)..Len(K)
      PROVE  i \in Live(K) <=> K[i].action \in Verdicts
  <2>1. i \notin Superseded(K)
    BY <1>1, <1>3, <1>4
  <2> QED
    BY <1>1, <2>1 DEF Live
<1> QED
  BY <1>1, <1>6, <1>7 DEF Live

\* A tool's record changes nothing about the decisions on actions.
LEMMA ToolAppend ==
    ASSUME NEW J \in Seq(DecisionRecords), ValidChain(J),
           NEW record \in DecisionRecords, OfTool(record), NEW i \in Nat
    PROVE  DecisionsOn(Append(J, record), i) = DecisionsOn(J, i)
<1> DEFINE K == Append(J, record)
<1>1. /\ K \in Seq(DecisionRecords) /\ Len(K) = Len(J) + 1 /\ Len(J) \in Nat
      /\ \A k \in 1..Len(J) : K[k] = J[k]
      /\ K[Len(J) + 1] = record
  OBVIOUS
<1>2. \A k \in (Len(J) + 1)..Len(K) : K[k] = record /\ record.action # "supersede"
  BY <1>1 DEF OfTool, Verdicts
<1>3. record.subject # i
  BY NamesAssumption DEF OfTool
<1> HIDE DEF K
<1>4. /\ \A k \in 1..Len(J) : k \in Live(K) <=> k \in Live(J)
      /\ Live(K) \subseteq 1..Len(K) /\ Live(J) \subseteq 1..Len(J)
  BY <1>1, <1>2, LiveAfter
<1>5. \A k \in Live(K) : k \in 1..Len(J) \/ K[k].subject # i
  BY <1>1, <1>2, <1>3, <1>4
<1>6. DecisionsOn(K, i) = DecisionsOn(J, i)
  BY <1>1, <1>4, <1>5 DEF DecisionsOn
<1> QED
  BY <1>6 DEF K

\* A review leaves every action with at most one decision, and every action that
\* had one with one; what it decides on is in force and has evidence.
LEMMA ReviewAppend ==
    ASSUME NEW J \in Seq(DecisionRecords), ValidChain(J), Unique(J),
           NEW L \in Seq(ActionRecords), NEW A, Review(J, L, A)
    PROVE  /\ Unique(J \o A)
           /\ \A i \in Nat : DecisionsOn(J, i) # {} => DecisionsOn(J \o A, i) # {}
           /\ \A k \in DOMAIN (J \o A) \ DOMAIN J :
                (J \o A)[k].subject \in Nat =>
                    (J \o A)[k].subject \in Active(L) /\ L[(J \o A)[k].subject].evidence
<1> DEFINE K == J \o A
           New == (Len(J) + 1)..Len(K)
<1>1. /\ A \in Seq(DecisionRecords)
      /\ K \in Seq(DecisionRecords) /\ Len(J) \in Nat /\ Len(A) \in Nat
      /\ Len(K) = Len(J) + Len(A) /\ DOMAIN A = 1..Len(A)
      /\ DOMAIN J = 1..Len(J) /\ DOMAIN K = 1..Len(K)
      /\ \A k \in 1..Len(J) : K[k] = J[k]
  BY DEF Review
<1>2. \A k \in New : k - Len(J) \in DOMAIN A /\ K[k] = A[k - Len(J)]
  BY <1>1
<1>3. \A m \in DOMAIN A : Len(J) + m \in New /\ K[Len(J) + m] = A[m]
  BY <1>1
<1> HIDE DEF K
<1>4. Live(J) \subseteq 1..Len(J)
  BY <1>1 DEF Live
<1>5. \A k \in New : K[k].action = "supersede" =>
            /\ K[k].supersedes \in 1..Len(J)
            /\ K[k].supersedes \in Live(J)
            /\ \E n \in New : K[n].action \in Verdicts
                              /\ K[n].subject = J[K[k].supersedes].subject
  <2> SUFFICES ASSUME NEW k \in New, K[k].action = "supersede"
               PROVE  /\ K[k].supersedes \in Live(J)
                      /\ \E n \in New : K[n].action \in Verdicts
                                        /\ K[n].subject = J[K[k].supersedes].subject
    BY <1>4
  <2> DEFINE m == k - Len(J)
  <2>1. m \in DOMAIN A /\ A[m].action = "supersede" /\ A[m].action \notin Verdicts /\ K[k] = A[m]
    BY <1>2 DEF Verdicts
  <2>2. A[m].supersedes \in Live(J)
        /\ \E n \in DOMAIN A :
             A[n].action \in Verdicts /\ A[n].subject = J[A[m].supersedes].subject
    BY <2>1 DEF Review
  <2> HIDE DEF m
  <2> QED
    BY <2>1, <2>2, <1>3
<1>6. /\ \A i \in 1..Len(J) :
            i \in Live(K) <=>
                i \in Live(J) /\ \A k \in New : K[k].action = "supersede" => K[k].supersedes # i
      /\ \A i \in New : i \in Live(K) <=> K[i].action \in Verdicts
      /\ Live(K) \subseteq 1..Len(K)
  <2>1. Len(J) <= Len(K) /\ \A k \in New : K[k].action = "supersede" => K[k].supersedes \in 1..Len(J)
    BY <1>1, <1>5
  <2> QED
    BY <1>1, <2>1, LiveAfter
<1>7. \A k \in New : K[k].action \in Verdicts =>
            /\ K[k].subject \in Active(L)
            /\ L[K[k].subject].evidence
            /\ \A d \in DecisionsOn(J, K[k].subject) :
                \E n \in New : K[n].action = "supersede" /\ K[n].supersedes = d
  <2> SUFFICES ASSUME NEW k \in New, K[k].action \in Verdicts
               PROVE  /\ K[k].subject \in Active(L)
                      /\ L[K[k].subject].evidence
                      /\ \A d \in DecisionsOn(J, K[k].subject) :
                          \E n \in New : K[n].action = "supersede" /\ K[n].supersedes = d
    OBVIOUS
  <2> DEFINE m == k - Len(J)
  <2>1. m \in DOMAIN A /\ A[m].action \in Verdicts /\ A[m].action # "supersede" /\ K[k] = A[m]
    BY <1>2 DEF Verdicts
  <2>2. /\ A[m].subject \in Active(L)
        /\ L[A[m].subject].evidence
        /\ \A d \in DecisionsOn(J, A[m].subject) :
            \E n \in DOMAIN A : A[n].action = "supersede" /\ A[n].supersedes = d
    BY <2>1 DEF Review
  <2> HIDE DEF m
  <2> QED
    BY <2>1, <2>2, <1>3
<1>8. Unique(K)
  <2> SUFFICES ASSUME NEW i \in Nat, NEW d \in DecisionsOn(K, i), NEW e \in DecisionsOn(K, i)
               PROVE  d = e
    BY DEF Unique
  <2>1. /\ d \in Live(K) /\ e \in Live(K) /\ K[d].subject = i /\ K[e].subject = i
        /\ d \in 1..Len(K) /\ e \in 1..Len(K)
    BY <1>6 DEF DecisionsOn
  <2>2. ASSUME NEW o \in 1..Len(J), NEW n \in New, o \in Live(K), n \in Live(K),
               K[o].subject = i, K[n].subject = i
        PROVE  FALSE
    <3>1. o \in DecisionsOn(J, K[n].subject)
      BY <2>2, <1>1, <1>6 DEF DecisionsOn
    <3>2. K[n].action \in Verdicts
      BY <2>2, <1>6
    <3>3. \E k \in New : K[k].action = "supersede" /\ K[k].supersedes = o
      BY <3>1, <3>2, <1>7
    <3> QED
      BY <3>3, <2>2, <1>6
  <2>3. CASE d \in 1..Len(J) /\ e \in 1..Len(J)
    <3>1. d \in DecisionsOn(J, i) /\ e \in DecisionsOn(J, i)
      BY <2>1, <2>3, <1>1, <1>6 DEF DecisionsOn
    <3> QED
      BY <3>1 DEF Unique
  <2>4. CASE d \in New /\ e \in New
    <3> DEFINE m == d - Len(J)
               n == e - Len(J)
    <3>1. m \in DOMAIN A /\ n \in DOMAIN A /\ K[d] = A[m] /\ K[e] = A[n]
      BY <2>4, <1>2
    <3>2. A[m].action \in Verdicts /\ A[n].action \in Verdicts /\ A[m].subject = A[n].subject
      BY <2>1, <2>4, <3>1, <1>6
    <3>3. m = n
      BY <3>1, <3>2 DEF Review
    <3> QED
      BY <3>3, <2>4, <1>1
  <2>5. d \in 1..Len(J) \/ d \in New
    BY <2>1, <1>1
  <2>6. e \in 1..Len(J) \/ e \in New
    BY <2>1, <1>1
  <2> QED
    BY <2>1, <2>2, <2>3, <2>4, <2>5, <2>6
<1>9. ASSUME NEW i \in Nat, DecisionsOn(J, i) # {}
      PROVE  DecisionsOn(K, i) # {}
  <2>1. PICK d \in DecisionsOn(J, i) : TRUE
    BY <1>9
  <2>2. d \in Live(J) /\ d \in 1..Len(J) /\ J[d].subject = i
    BY <1>4 DEF DecisionsOn
  <2>3. CASE d \in Live(K)
    BY <2>2, <2>3, <1>1 DEF DecisionsOn
  <2>4. CASE d \notin Live(K)
    <3>1. PICK k \in New : K[k].action = "supersede" /\ K[k].supersedes = d
      BY <2>2, <2>4, <1>6
    <3>2. PICK n \in New : K[n].action \in Verdicts /\ K[n].subject = i
      BY <3>1, <2>2, <1>5
    <3> QED
      BY <3>2, <1>6 DEF DecisionsOn
  <2> QED
    BY <2>3, <2>4
<1>10. ASSUME NEW k \in DOMAIN K \ DOMAIN J, K[k].subject \in Nat
       PROVE  K[k].subject \in Active(L) /\ L[K[k].subject].evidence
  <2> DEFINE m == k - Len(J)
  <2>0. k \in 1..Len(K) /\ k \notin 1..Len(J)
    BY <1>1
  <2>1. k \in New /\ m \in DOMAIN A /\ K[k] = A[m]
    <3>1. k \in New
      BY <2>0, <1>1
    <3> QED
      BY <3>1, <1>2
  <2>2. A[m].subject # Nothing
    BY <1>10, <2>1, NamesAssumption
  <2>3. A[m].subject \in Active(L) /\ L[A[m].subject].evidence
    BY <2>1, <2>2 DEF Review
  <2> QED
    BY <2>1, <2>3
<1> QED
  BY <1>8, <1>9, <1>10 DEF K

-----------------------------------------------------------------------------
(* A review as it is prepared *)

\* The steps of a review are finitely many, and their order names each once.
LEMMA OrderedSteps ==
    ASSUME NEW n \in Nat \ {0}, NEW ids, DOMAIN ids = 1..n,
           NEW order \in Orders(ReviewSteps(ids))
    PROVE  /\ DOMAIN order = 1..Cardinality(ReviewSteps(ids))
           /\ Cardinality(ReviewSteps(ids)) \in Nat \ {0}
           /\ \A m \in DOMAIN order : order[m] \in ReviewSteps(ids)
           /\ \A step \in ReviewSteps(ids) : \E m \in DOMAIN order : order[m] = step
           /\ \A m, k \in DOMAIN order : order[m] = order[k] => m = k
<1> DEFINE steps == ReviewSteps(ids)
<1>1. IsFiniteSet((1..n) \X {1, 2})
  <2>1. IsFiniteSet(1..n)
    BY FS_Interval
  <2>2. IsFiniteSet({1, 2})
    <3>1. IsFiniteSet({1} \cup {2})
      BY FS_Singleton, FS_AddElement
    <3>2. {1} \cup {2} = {1, 2}
      OBVIOUS
    <3> QED
      BY <3>1, <3>2
  <2> QED
    BY <2>1, <2>2, FS_Product
<1>2. steps \in SUBSET ((1..n) \X {1, 2}) /\ <<1, 2>> \in steps
  BY DEF ReviewSteps
<1> HIDE DEF steps
<1>3. IsFiniteSet(steps) /\ Cardinality(steps) \in Nat
  BY <1>1, <1>2, FS_Subset, FS_CardinalityType
<1>4. Cardinality(steps) # 0
  BY <1>2, <1>3, FS_EmptySet
<1>5. order \in Bijection(1..Cardinality(steps), steps)
  BY DEF Orders, steps
<1>6. /\ DOMAIN order = 1..Cardinality(steps)
      /\ \A m \in DOMAIN order : order[m] \in steps
      /\ \A step \in steps : \E m \in DOMAIN order : order[m] = step
      /\ \A m, k \in DOMAIN order : order[m] = order[k] => m = k
  BY <1>5 DEF Bijection, Injection, Surjection, IsInjective
<1> QED
  BY <1>3, <1>4, <1>6 DEF steps


\* A batch whose records link to each other, bring no id and supersede only what
\* was there continues a valid journal validly.
LEMMA LinkedChain ==
    ASSUME NEW J \in Seq(DecisionRecords), ValidChain(J),
           NEW A \in Seq(DecisionRecords),
           \A m \in DOMAIN A :
               /\ A[m].prev = IF m = 1 THEN NextPrev(J) ELSE Len(J) + m - 1
               /\ A[m].id = Nothing
               /\ A[m].action = "supersede" => A[m].supersedes \in DOMAIN J
    PROVE  ValidChain(J \o A)
<1> DEFINE K == J \o A
<1>1. /\ K \in Seq(DecisionRecords) /\ Len(J) \in Nat /\ Len(A) \in Nat
      /\ Len(K) = Len(J) + Len(A) /\ DOMAIN A = 1..Len(A)
      /\ DOMAIN J = 1..Len(J) /\ DOMAIN K = 1..Len(K)
      /\ \A k \in 1..Len(J) : K[k] = J[k]
      /\ \A m \in 1..Len(A) : K[Len(J) + m] = A[m]
  OBVIOUS
<1> HIDE DEF K
<1>2. ASSUME NEW i \in 1..Len(J) PROVE ValidRecord(K, i)
  <2>1. ValidRecord(J, i)
    BY <1>1 DEF ValidChain
  <2> QED
    BY <1>1, <2>1 DEF ValidRecord, Taken
<1>3. ASSUME NEW m \in 1..Len(A) PROVE ValidRecord(K, Len(J) + m)
  <2>0. m \in Nat \ {0} /\ m \in DOMAIN A /\ K[Len(J) + m] = A[m]
    BY <1>1
  <2>1. A[m].prev = IF Len(J) + m = 1 THEN NoPrev ELSE Len(J) + m - 1
    <3>1. A[m].prev = IF m = 1 THEN NextPrev(J) ELSE Len(J) + m - 1
      BY <2>0
    <3>2. CASE m = 1
      <4>1. J = <<>> <=> Len(J) = 0
        OBVIOUS
      <4>2. NextPrev(J) = IF Len(J) = 0 THEN NoPrev ELSE Len(J)
        BY <4>1 DEF NextPrev
      <4> QED
        BY <1>1, <3>1, <3>2, <4>2
    <3>3. CASE m # 1
      <4>1. Len(J) + m # 1
        BY <1>1, <2>0, <3>3
      <4> QED
        BY <3>1, <3>3, <4>1
    <3> QED
      BY <3>2, <3>3
  <2>2. A[m].action = "supersede" => A[m].supersedes \in 1..(Len(J) + m)
    <3>1. A[m].action = "supersede" => A[m].supersedes \in DOMAIN J
      BY <2>0
    <3>2. DOMAIN J \subseteq 1..(Len(J) + m)
      BY <1>1, <2>0
    <3> QED
      BY <3>1, <3>2
  <2>3. A[m].id = Nothing
    BY <2>0
  <2> QED
    BY <1>1, <2>0, <2>1, <2>2, <2>3 DEF ValidRecord, Taken
<1>4. \A i \in 1..Len(K) : i \in 1..Len(J) \/ \E m \in 1..Len(A) : i = Len(J) + m
  <2> SUFFICES ASSUME NEW i \in 1..Len(K), i \notin 1..Len(J)
               PROVE  \E m \in 1..Len(A) : i = Len(J) + m
    OBVIOUS
  <2>1. i - Len(J) \in 1..Len(A) /\ i = Len(J) + (i - Len(J))
    BY <1>1
  <2> QED
    BY <2>1
<1>5. ValidChain(K)
  BY <1>1, <1>2, <1>3, <1>4 DEF ValidChain
<1> QED
  BY <1>5 DEF K

LEMMA LinkedDecision ==
    ASSUME NEW i, NEW choice, NEW subject, NEW receipt, NEW prev
    PROVE  [Decision(i, choice, subject, receipt) EXCEPT !.prev = prev] =
                [action |-> choice, subject |-> i, revision |-> subject, receipt |-> receipt,
                 supersedes |-> Nothing, prev |-> prev, id |-> Nothing]
BY DEF Decision

LEMMA LinkedSupersession ==
    ASSUME NEW d, NEW prev
    PROVE  [Supersession(d) EXCEPT !.prev = prev] =
                [action |-> "supersede", subject |-> Nothing, revision |-> Nothing,
                 receipt |-> Nothing, supersedes |-> d, prev |-> prev, id |-> Nothing]
BY DEF Supersession

\* What PrepareReview leaves in work.
LEMMA ReviewPrepared ==
    ASSUME HistoryInv, TypeOK, Unique(journal), NEW c \in Restorers, PrepareReview(c)
    PROVE  \E A :
              /\ Keep(c, [file |-> "journal", additions |-> A])
              /\ Review(journal, manual, A)
              /\ ValidChain(journal \o A)
              /\ \A m \in DOMAIN A : A[m].action = "accept" =>
                    /\ A[m].receipt \in receipts
                    /\ Acceptable(A[m].receipt, A[m].revision)
<1>1. PICK ids \in ReviewLists, choice \in Verdicts, r \in receipts \cup {Nothing} :
        /\ IF choice = "accept"
           THEN r # Nothing /\ Acceptable(r, expected[c].subject)
           ELSE r = Nothing
        /\ \E order \in Orders(ReviewSteps(ids)) :
            Keep(c, [file |-> "journal",
                     additions |-> Linked(journal,
                         [m \in DOMAIN order |->
                             ReviewRecord(order[m], ids, choice, expected[c].subject, r)])])
  BY DEF PrepareReview
<1>2. PICK n \in 1..MaxBatch : ids \in [1..n -> Reviewable] /\ IsInjective(ids)
  BY DEF ReviewLists
<1>3. PICK order \in Orders(ReviewSteps(ids)) :
        Keep(c, [file |-> "journal",
                 additions |-> Linked(journal,
                     [m \in DOMAIN order |->
                         ReviewRecord(order[m], ids, choice, expected[c].subject, r)])])
  BY <1>1
<1> DEFINE subject == expected[c].subject
           steps == ReviewSteps(ids)
           N == Cardinality(steps)
           B == [m \in DOMAIN order |-> ReviewRecord(order[m], ids, choice, subject, r)]
           A == Linked(journal, B)
           Prev(m) == IF m = 1 THEN NextPrev(journal) ELSE Len(journal) + m - 1
           Superseding(m) == CHOOSE d \in DecisionsOn(journal, ids[order[m][1]]) : TRUE
<1>4. n \in Nat \ {0} /\ DOMAIN ids = 1..n
  BY <1>2, ConstantsAssumption
<1>5. /\ DOMAIN order = 1..N
      /\ N \in Nat \ {0}
      /\ \A m \in 1..N : order[m] \in steps
      /\ \A step \in steps : \E m \in 1..N : order[m] = step
      /\ \A m, k \in 1..N : order[m] = order[k] => m = k
  BY <1>4, OrderedSteps
<1>6. /\ manual \in Seq(ActionRecords) /\ journal \in Seq(DecisionRecords)
      /\ receipts \subseteq Receipts /\ subject \in Subjects
      /\ Len(journal) \in Nat /\ DOMAIN journal = 1..Len(journal)
  BY DEF TypeOK, Revisions
<1>7. \A k \in 1..n : /\ ids[k] \in Nat
                      /\ ids[k] \in Active(manual) /\ manual[ids[k]].evidence
  <2>1. \A i \in Active(manual) : i \in Nat
    BY <1>6 DEF Active
  <2> QED
    BY <1>2, <2>1 DEF Reviewable
<1>8. \A m \in 1..N :
        /\ order[m][1] \in 1..n
        /\ order[m][2] \in {1, 2}
        /\ order[m] = <<order[m][1], order[m][2]>>
        /\ order[m][2] = 1 => DecisionsOn(journal, ids[order[m][1]]) # {}
  <2> SUFFICES ASSUME NEW m \in 1..N
               PROVE  /\ order[m][1] \in 1..n
                      /\ order[m][2] \in {1, 2}
                      /\ order[m] = <<order[m][1], order[m][2]>>
                      /\ order[m][2] = 1 => DecisionsOn(journal, ids[order[m][1]]) # {}
    OBVIOUS
  <2>1. order[m] \in steps
    BY <1>5
  <2>2. order[m] \in (1..n) \X {1, 2}
    BY <2>1, <1>4 DEF ReviewSteps
  <2> QED
    BY <2>1, <2>2 DEF ReviewSteps
<1> HIDE DEF steps, N, subject
<1>9. \A m \in 1..N : order[m][2] = 2 =>
        A[m] = [action |-> choice, subject |-> ids[order[m][1]], revision |-> subject,
                receipt |-> r, supersedes |-> Nothing, prev |-> Prev(m), id |-> Nothing]
  <2> SUFFICES ASSUME NEW m \in 1..N, order[m][2] = 2
               PROVE  A[m] = [action |-> choice, subject |-> ids[order[m][1]],
                              revision |-> subject, receipt |-> r, supersedes |-> Nothing,
                              prev |-> Prev(m), id |-> Nothing]
    OBVIOUS
  <2>1. B[m] = Decision(ids[order[m][1]], choice, subject, r)
    BY <1>5 DEF ReviewRecord
  <2>2. A[m] = [B[m] EXCEPT !.prev = Prev(m)]
    BY <1>5 DEF Linked
  <2> HIDE DEF A, B, Prev, Superseding
  <2> QED
    BY <2>1, <2>2, LinkedDecision
<1>10. \A m \in 1..N : order[m][2] = 1 =>
        A[m] = [action |-> "supersede", subject |-> Nothing, revision |-> Nothing,
                receipt |-> Nothing, supersedes |-> Superseding(m), prev |-> Prev(m),
                id |-> Nothing]
  <2> SUFFICES ASSUME NEW m \in 1..N, order[m][2] = 1
               PROVE  A[m] = [action |-> "supersede", subject |-> Nothing,
                              revision |-> Nothing, receipt |-> Nothing,
                              supersedes |-> Superseding(m), prev |-> Prev(m), id |-> Nothing]
    OBVIOUS
  <2>1. B[m] = Supersession(Superseding(m))
    BY <1>5 DEF ReviewRecord
  <2>2. A[m] = [B[m] EXCEPT !.prev = Prev(m)]
    BY <1>5 DEF Linked
  <2> HIDE DEF A, B, Prev, Superseding
  <2> QED
    BY <2>1, <2>2, LinkedSupersession
<1>11. DOMAIN A = 1..N
  BY <1>5 DEF Linked
<1>12. \A m \in 1..N : Prev(m) \in Nat \cup {NoPrev, NoneText}
  BY <1>5, <1>6 DEF NextPrev
<1>13. \A m \in 1..N : order[m][2] = 1 => Superseding(m) \in DecisionsOn(journal, ids[order[m][1]])
  BY <1>8
<1>14. \A i : DecisionsOn(journal, i) \subseteq Live(journal) /\ Live(journal) \subseteq 1..Len(journal)
  BY <1>6 DEF DecisionsOn, Live
<1>15. A = [m \in 1..N |-> A[m]]
  BY <1>5 DEF Linked
<1> HIDE DEF A, B, Prev, Superseding
<1>16. ASSUME NEW m \in 1..N, order[m][2] = 2
       PROVE  /\ A[m].action = choice /\ A[m].subject = ids[order[m][1]]
              /\ A[m].revision = subject /\ A[m].receipt = r
              /\ A[m].prev = Prev(m) /\ A[m].id = Nothing
  <2>1. A[m] = [action |-> choice, subject |-> ids[order[m][1]], revision |-> subject,
                receipt |-> r, supersedes |-> Nothing, prev |-> Prev(m), id |-> Nothing]
    BY <1>9, <1>16
  <2> QED
    BY <2>1
<1>17. ASSUME NEW m \in 1..N, order[m][2] = 1
       PROVE  /\ A[m].action = "supersede" /\ A[m].subject = Nothing
              /\ A[m].supersedes = Superseding(m)
              /\ A[m].prev = Prev(m) /\ A[m].id = Nothing
  <2>1. A[m] = [action |-> "supersede", subject |-> Nothing, revision |-> Nothing,
                receipt |-> Nothing, supersedes |-> Superseding(m), prev |-> Prev(m),
                id |-> Nothing]
    BY <1>10, <1>17
  <2> QED
    BY <2>1
<1>18. \A m \in 1..N : A[m] \in DecisionRecords
  <2> SUFFICES ASSUME NEW m \in 1..N PROVE A[m] \in DecisionRecords
    OBVIOUS
  <2>1. CASE order[m][2] = 2
    <3>1. ids[order[m][1]] \in Nat /\ r \in Receipts \cup {Nothing}
          /\ Prev(m) \in Nat \cup {NoPrev, NoneText} /\ choice \in Verdicts
      BY <1>6, <1>7, <1>8, <1>12
    <3>2. A[m] = [action |-> choice, subject |-> ids[order[m][1]], revision |-> subject,
                  receipt |-> r, supersedes |-> Nothing, prev |-> Prev(m), id |-> Nothing]
      BY <2>1, <1>9
    <3> QED
      BY <3>1, <3>2, <1>6 DEF DecisionRecords
  <2>2. CASE order[m][2] = 1
    <3>1. Superseding(m) \in Nat /\ Prev(m) \in Nat \cup {NoPrev, NoneText}
      BY <2>2, <1>6, <1>12, <1>13, <1>14
    <3>2. A[m] = [action |-> "supersede", subject |-> Nothing, revision |-> Nothing,
                  receipt |-> Nothing, supersedes |-> Superseding(m), prev |-> Prev(m),
                  id |-> Nothing]
      BY <2>2, <1>10
    <3> QED
      BY <3>1, <3>2 DEF DecisionRecords
  <2> QED
    BY <2>1, <2>2, <1>8
<1>19. A \in Seq(DecisionRecords) /\ A # <<>> /\ Len(A) = N
  <2>1. A \in [1..N -> DecisionRecords]
    BY <1>15, <1>18
  <2>2. A \in Seq(DecisionRecords)
    BY <2>1, <1>5
  <2> QED
    BY <2>2, <1>5, <1>11
<1>20. ValidChain(journal \o A)
  <2>1. ASSUME NEW m \in DOMAIN A
        PROVE  /\ A[m].prev = IF m = 1 THEN NextPrev(journal) ELSE Len(journal) + m - 1
               /\ A[m].id = Nothing
               /\ A[m].action = "supersede" => A[m].supersedes \in DOMAIN journal
    <3>1. CASE order[m][2] = 2
      BY <3>1, <1>16, <1>11 DEF Prev, Verdicts
    <3>2. CASE order[m][2] = 1
      BY <3>2, <1>6, <1>17, <1>11, <1>13, <1>14 DEF Prev
    <3> QED
      BY <3>1, <3>2, <1>8, <1>11
  <2>2. ValidChain(journal)
    BY DEF HistoryInv
  <2> QED
    BY <2>1, <2>2, <1>6, <1>19, LinkedChain
<1>21. Review(journal, manual, A)
  <2>1. ASSUME NEW m \in DOMAIN A
        PROVE  \/ /\ A[m].action \in Verdicts
                  /\ A[m].subject \in Active(manual)
                  /\ manual[A[m].subject].evidence
                  /\ \A d \in DecisionsOn(journal, A[m].subject) :
                       \E k \in DOMAIN A : A[k].action = "supersede" /\ A[k].supersedes = d
               \/ /\ A[m].action = "supersede"
                  /\ A[m].subject = Nothing
                  /\ A[m].supersedes \in Live(journal)
                  /\ \E k \in DOMAIN A :
                       A[k].action \in Verdicts
                       /\ A[k].subject = journal[A[m].supersedes].subject
    <3> DEFINE a == order[m][1]
    <3>0. m \in 1..N /\ a \in 1..n /\ ids[a] \in Nat
      BY <1>7, <1>8, <1>11
    <3>1. CASE order[m][2] = 2
      <4>1. A[m].action = choice /\ A[m].subject = ids[a]
        BY <3>0, <3>1, <1>16
      <4>2. ASSUME NEW d \in DecisionsOn(journal, ids[a])
            PROVE  \E k \in DOMAIN A : A[k].action = "supersede" /\ A[k].supersedes = d
        <5>1. <<a, 1>> \in steps
          BY <4>2, <3>0, <1>4 DEF steps, ReviewSteps
        <5>2. PICK k \in 1..N : order[k] = <<a, 1>>
          BY <5>1, <1>5
        <5>3. A[k].action = "supersede" /\ A[k].supersedes = Superseding(k)
          BY <5>2, <1>17
        <5>4. Superseding(k) \in DecisionsOn(journal, ids[a])
          BY <5>2, <1>13
        <5>5. Superseding(k) = d
          BY <4>2, <5>4, <3>0 DEF Unique
        <5> QED
          BY <5>3, <5>5, <1>11
      <4> QED
        BY <4>1, <4>2, <3>0, <1>7
    <3>2. CASE order[m][2] = 1
      <4>1. /\ A[m].action = "supersede" /\ A[m].subject = Nothing
            /\ A[m].supersedes = Superseding(m)
        BY <3>0, <3>2, <1>17
      <4>2. Superseding(m) \in Live(journal) /\ journal[Superseding(m)].subject = ids[a]
        BY <3>0, <3>2, <1>13 DEF DecisionsOn
      <4>3. <<a, 2>> \in steps
        BY <3>0, <1>4 DEF steps, ReviewSteps
      <4>4. PICK k \in 1..N : order[k] = <<a, 2>>
        BY <4>3, <1>5
      <4>5. A[k].action = choice /\ A[k].subject = ids[a]
        BY <4>4, <1>16
      <4> QED
        BY <4>1, <4>2, <4>5, <1>11
    <3> QED
      BY <3>1, <3>2, <3>0, <1>8
  <2>2. ASSUME NEW m \in DOMAIN A, NEW k \in DOMAIN A, A[m].action \in Verdicts,
               A[k].action \in Verdicts, A[m].subject = A[k].subject
        PROVE  m = k
    <3>1. order[m][2] = 2 /\ order[k][2] = 2
      BY <2>2, <1>8, <1>17, <1>11 DEF Verdicts
    <3>2. ids[order[m][1]] = ids[order[k][1]]
      BY <2>2, <3>1, <1>16, <1>11
    <3>3. order[m][1] = order[k][1]
      BY <3>2, <1>2, <1>4, <1>8, <1>11 DEF IsInjective
    <3>4. order[m] = order[k]
      BY <3>1, <3>3, <1>8, <1>11
    <3> QED
      BY <3>4, <1>5, <1>11
  <2> QED
    BY <2>1, <2>2, <1>19 DEF Review
<1>22. ASSUME NEW m \in DOMAIN A, A[m].action = "accept"
       PROVE  A[m].receipt \in receipts /\ Acceptable(A[m].receipt, A[m].revision)
  <2>1. order[m][2] = 2
    BY <1>22, <1>8, <1>17, <1>11
  <2>2. choice = "accept" /\ A[m].receipt = r /\ A[m].revision = subject
    BY <1>22, <2>1, <1>16, <1>11
  <2> QED
    BY <2>2, <1>1 DEF subject
<1>23. Keep(c, [file |-> "journal", additions |-> A])
  BY <1>3 DEF A, B, subject
<1> QED
  BY <1>20, <1>21, <1>22, <1>23

-----------------------------------------------------------------------------
(* The invariant *)

\* What a commit of a batch or of a tool's record does to the decisions.
LEMMA CommitDecides ==
    ASSUME HistoryInv, ReviewInv, NEW a \in Actors, pc[a] = "staged", ReplaceBy(work[a])
    PROVE  /\ Unique(journal')
           /\ \A i \in Nat : DecisionsOn(journal, i) # {} => DecisionsOn(journal', i) # {}
           /\ \A k \in DOMAIN journal' \ DOMAIN journal :
                journal'[k].subject \in Nat =>
                    journal'[k].subject \in Active(manual) /\ manual[journal'[k].subject].evidence
<1>1. /\ manual \in Seq(ActionRecords) /\ journal \in Seq(DecisionRecords)
      /\ ValidChain(journal) /\ Unique(journal)
  BY DEF HistoryInv, Typed, ReviewInv
<1>2. CASE work[a].file # "journal"
  <2>1. journal' = journal
    BY <1>2 DEF ReplaceBy
  <2> QED
    BY <1>1, <2>1
<1>3. CASE work[a].file = "journal" /\ a \in Restorers
  <2>1. PICK A : Review(journal, manual, A) /\ work[a].content = journal \o A
    BY <1>3 DEF ReviewInv, StagesReview
  <2>2. journal' = journal \o A
    BY <1>3, <2>1 DEF ReplaceBy
  <2> QED
    BY <1>1, <2>1, <2>2, ReviewAppend
<1>4. CASE a \in Tools
  <2>1. PICK record \in DecisionRecords :
            OfTool(record) /\ work[a].content = Append(journal, record)
    BY <1>4 DEF ReviewInv, StagesRecord
  <2>2. journal' = Append(journal, record)
    BY <1>4, <2>1 DEF ReplaceBy, ReviewInv, StagesRecord
  <2>3. \A i \in Nat : DecisionsOn(journal', i) = DecisionsOn(journal, i)
    BY <1>1, <2>1, <2>2, ToolAppend
  <2>4. \A k \in DOMAIN journal' \ DOMAIN journal : journal'[k] = record
    BY <1>1, <2>2
  <2>5. record.subject \notin Nat
    BY <2>1, NamesAssumption DEF OfTool
  <2> QED
    BY <1>1, <2>3, <2>4, <2>5 DEF Unique
<1> QED
  BY <1>2, <1>3, <1>4 DEF Actors

LEMMA InitReview == Init => ReviewInv
<1> SUFFICES ASSUME Init PROVE ReviewInv
  OBVIOUS
<1>1. Unique(journal)
  BY DEF Init, NoFile, Unique, DecisionsOn, Live
<1> QED
  BY <1>1 DEF Init, ReviewInv, PreparesReview, StagesReview, StagesRecord, CarriesRecord, Actors

\* A step of one actor that leaves the histories alone.
LEMMA LocalReview ==
    ASSUME ReviewInv, NEW a \in Actors,
           UNCHANGED <<manual, journal>>,
           \A b \in Actors \ {a} : pc'[b] = pc[b] /\ work'[b] = work[b],
           a \in Restorers => (PreparesReview(a) /\ StagesReview(a))',
           a \in Tools => (StagesRecord(a) /\ CarriesRecord(a))'
    PROVE  ReviewInv'
<1>1. Unique(journal)'
  BY DEF ReviewInv, Unique, DecisionsOn, Live, Superseded
<1>2. ASSUME NEW c \in Restorers PROVE (PreparesReview(c) /\ StagesReview(c))'
  <2>1. CASE c # a
    BY <2>1 DEF ReviewInv, PreparesReview, StagesReview, Actors
  <2> QED
    BY <2>1
<1>3. ASSUME NEW t \in Tools PROVE (StagesRecord(t) /\ CarriesRecord(t))'
  <2>1. CASE t # a
    BY <2>1 DEF ReviewInv, StagesRecord, CarriesRecord, Actors
  <2> QED
    BY <2>1
<1> QED
  BY <1>1, <1>2, <1>3 DEF ReviewInv

\* A commit: nobody else has prepared or staged anything under the lock.
LEMMA CommitReview ==
    ASSUME HistoryInv, ReviewInv, NEW a \in Actors, pc[a] = "staged",
           ReplaceBy(work[a]), Keep(a, NoWork),
           NEW place \in {"idle", "replaced"}, Goto(a, place)
    PROVE  ReviewInv'
<1>1. /\ pc' = [pc EXCEPT ![a] = place] /\ pc \in [Actors -> Places]
      /\ work' = [work EXCEPT ![a] = NoWork] /\ DOMAIN work = Actors
  BY DEF Goto, Keep, HistoryInv, Typed
<1>2. \A b \in Actors \ {a} : pc[b] \notin LockedPlaces
  BY DEF HistoryInv, Exclusive, LockedPlaces
<1>3. \A b \in Actors : pc'[b] # "prepared" /\ pc'[b] # "staged"
  BY <1>1, <1>2 DEF LockedPlaces
<1>4. ASSUME NEW t \in Tools PROVE CarriesRecord(t)'
  <2>1. CASE t = a
    BY <1>1, <2>1 DEF CarriesRecord
  <2>2. CASE t # a
    BY <1>1, <2>2 DEF ReviewInv, CarriesRecord, Actors
  <2> QED
    BY <2>1, <2>2
<1>5. Unique(journal)'
  BY CommitDecides DEF Unique, DecisionsOn, Live, Superseded
<1> QED
  BY <1>3, <1>4, <1>5 DEF ReviewInv, PreparesReview, StagesReview, StagesRecord, Actors

LEMMA RestorerKeepsReviews ==
    ASSUME HistoryInv, TypeOK, ReviewInv, NEW c \in Restorers,
           Inspect(c) \/ Begin(c) \/ Prepare(c) \/ Proceed(c)
    PROVE  ReviewInv'
<1> USE DEF Goto, Keep, LockedRest, UnlockedRest
<1>a. c \in Actors /\ c \notin Tools
  BY ConstantsAssumption DEF Actors
<1>t. /\ manual \in Seq(ActionRecords) /\ journal \in Seq(DecisionRecords)
      /\ pc \in [Actors -> Places] /\ DOMAIN work = Actors
  BY DEF TypeOK
<1>1. CASE Inspect(c)
  BY <1>1, <1>a, LocalReview DEF Inspect, ReviewInv, PreparesReview, StagesReview
<1>2. CASE Begin(c)
  BY <1>2, <1>a, <1>t, LocalReview DEF Begin, PreparesReview, StagesReview
<1>3. ASSUME NEW w, Keep(c, w), Goto(c, "prepared"), UNCHANGED <<manual, journal>>,
             \/ w.file = "manual" /\ w.additions \in Seq(ActionRecords) \ {<<>>}
             \/ /\ w.file = "journal"
                /\ Review(journal, manual, w.additions)
                /\ ValidChain(journal \o w.additions)
      PROVE  ReviewInv'
  <2>1. pc'[c] = "prepared" /\ work'[c] = w
    BY <1>3, <1>a, <1>t
  <2>2. PreparesReview(c)'
    BY <1>3, <2>1 DEF PreparesReview
  <2>3. StagesReview(c)'
    BY <2>1 DEF StagesReview
  <2>4. \A b \in Actors \ {c} : pc'[b] = pc[b] /\ work'[b] = work[b]
    BY <1>3, <1>t
  <2> QED
    BY <1>3, <1>a, <2>2, <2>3, <2>4, LocalReview
<1>4. CASE PrepareEdit(c)
  <2>1. PICK n \in 1..MaxBatch, evidence \in BOOLEAN :
            Keep(c, [file |-> "manual",
                     additions |-> [k \in 1..n |-> [kind |-> "edit", target |-> 0,
                                                    evidence |-> evidence]]])
    BY <1>4 DEF PrepareEdit
  <2> DEFINE A == [k \in 1..n |-> [kind |-> "edit", target |-> 0, evidence |-> evidence]]
  <2>2. A \in Seq(ActionRecords) /\ A # <<>>
    <3>1. n \in Nat \ {0}
      BY ConstantsAssumption
    <3>2. A \in [1..n -> ActionRecords]
      BY DEF ActionRecords
    <3>3. A \in Seq(ActionRecords)
      BY <3>1, <3>2
    <3> QED
      BY <3>1, <3>3
  <2> HIDE DEF A
  <2>3. [file |-> "manual", additions |-> A].file = "manual"
        /\ [file |-> "manual", additions |-> A].additions = A
    OBVIOUS
  <2> QED
    BY <1>4, <2>1, <2>2, <2>3, <1>3 DEF PrepareEdit, A
<1>5. CASE PrepareRollback(c)
  <2>1. PICK i \in SourceActions(manual), kind \in Switches :
            Keep(c, [file |-> "manual",
                     additions |-> <<[kind |-> kind, target |-> i, evidence |-> FALSE]>>])
    BY <1>5 DEF PrepareRollback
  <2>2. i \in Nat
    BY <1>t DEF SourceActions
  <2>3. [kind |-> kind, target |-> i, evidence |-> FALSE] \in ActionRecords
    BY <2>2 DEF ActionRecords
  <2>4. <<[kind |-> kind, target |-> i, evidence |-> FALSE]>> \in Seq(ActionRecords) \ {<<>>}
    BY <2>3
  <2> QED
    BY <1>5, <2>1, <2>4, <1>3 DEF PrepareRollback
<1>6. CASE PrepareReview(c)
  <2>1. PICK A : /\ Keep(c, [file |-> "journal", additions |-> A])
                 /\ Review(journal, manual, A)
                 /\ ValidChain(journal \o A)
    BY <1>6, ReviewPrepared DEF ReviewInv
  <2>2. Goto(c, "prepared") /\ UNCHANGED <<manual, journal>>
    BY <1>6 DEF PrepareReview
  <2>3. [file |-> "journal", additions |-> A].file = "journal"
        /\ [file |-> "journal", additions |-> A].additions = A
    OBVIOUS
  <2> QED
    BY <2>1, <2>2, <2>3, <1>3
<1>7. CASE VerifyBuild(c)
  BY <1>7, <1>a, <1>t, LocalReview DEF VerifyBuild, PreparesReview, StagesReview
<1>8. CASE Refuse(c)
  BY <1>8, <1>a, <1>t, LocalReview DEF Refuse, GiveUp, PreparesReview, StagesReview
<1>9. CASE Stage(c)
  <2> DEFINE original == IF work[c].file = "manual" THEN manual ELSE journal
             w == [file |-> work[c].file, content |-> Appended(original, work[c].additions)]
  <2>1. /\ pc[c] = "prepared" /\ Keep(c, w) /\ Goto(c, "staged")
        /\ UNCHANGED <<manual, journal>>
    BY <1>9 DEF Stage
  <2>2. w.file = "journal" => Review(journal, manual, work[c].additions)
    BY <2>1 DEF ReviewInv, PreparesReview
  <2>3. w.file = "journal" => w.content = journal \o work[c].additions
    BY DEF Appended
  <2> HIDE DEF w
  <2>4. pc'[c] = "staged" /\ work'[c] = w
    BY <2>1, <1>a, <1>t
  <2>5. StagesReview(c)' /\ PreparesReview(c)'
    BY <2>1, <2>2, <2>3, <2>4 DEF StagesReview, PreparesReview
  <2>6. \A b \in Actors \ {c} : pc'[b] = pc[b] /\ work'[b] = work[b]
    BY <2>1, <1>t
  <2> QED
    BY <2>1, <2>5, <2>6, <1>a, LocalReview
<1>10. CASE Replace(c)
  BY <1>10, <1>a, CommitReview DEF Replace
<1>11. CASE FinishWrite(c)
  BY <1>11, <1>a, <1>t, LocalReview DEF FinishWrite, Respond, PreparesReview, StagesReview
<1>12. CASE PersistTruncate(c) \/ PersistWrite(c)
  BY <1>12, <1>a, <1>t, LocalReview DEF PersistTruncate, PersistWrite, PreparesReview, StagesReview
<1>13. CASE FinishVerify(c)
  BY <1>13, <1>a, <1>t, LocalReview DEF FinishVerify, Respond, PreparesReview, StagesReview
<1> QED
  BY <1>1, <1>2, <1>4, <1>5, <1>6, <1>7, <1>8, <1>9, <1>10, <1>11, <1>12, <1>13
     DEF Prepare, Proceed

LEMMA ToolKeepsReviews ==
    ASSUME HistoryInv, TypeOK, ReviewInv, NEW t \in Tools, ToolStep(t)
    PROVE  ReviewInv'
<1> USE DEF Goto, Keep, LockedRest, UnlockedRest
<1>a. t \in Actors /\ t \notin Restorers
  BY ConstantsAssumption DEF Actors
<1>t. pc \in [Actors -> Places] /\ DOMAIN work = Actors
  BY DEF TypeOK
<1>r. ASSUME NEW fact \in ToolFacts, NEW choice \in Verdicts, NEW prev, NEW id
      PROVE  OfTool(ToolRecord(fact, choice, prev, id))
  BY DEF OfTool, ToolRecord
<1>1. CASE RecordLink(t)
  <2>1. PICK fact \in ToolFacts, choice \in ToolVerdicts,
             id \in {Nothing} \cup GivenIds \cup DOMAIN journal :
          Keep(t, [file |-> "journal", at |-> Len(journal), seen |-> Nothing,
                   record |-> ToolRecord(fact, choice, NextPrev(journal), id)])
    BY <1>1 DEF RecordLink
  <2>2. DOMAIN work'[t] = {"file", "at", "seen", "record"} /\ OfTool(work'[t].record)
    BY <2>1, <1>a, <1>t, <1>r, ConstantsAssumption
  <2> QED
    BY <1>1, <2>2, <1>a, <1>t, LocalReview DEF RecordLink, StagesRecord, CarriesRecord
<1>2. CASE DryRun(t)
  BY <1>2, <1>a, <1>t, LocalReview DEF DryRun, ReviewInv, StagesRecord, CarriesRecord
<1>3. ASSUME NEW fact \in ToolFacts, NEW seen, NEW place \in {"inspected", "checked"},
             CascadeTry(t, fact, seen, place), UNCHANGED <<manual, journal>>
      PROVE  ReviewInv'
  <2>1. OfTool(CascadeRecord(fact))
    BY <1>r DEF CascadeRecord, Verdicts
  <2>2. DOMAIN work'[t] = {"file", "at", "seen", "record"} /\ OfTool(work'[t].record)
    BY <1>3, <2>1, <1>a, <1>t DEF CascadeTry
  <2> QED
    BY <1>3, <2>2, <1>a, <1>t, LocalReview DEF CascadeTry, StagesRecord, CarriesRecord
<1>4. CASE CascadeInspect(t)
  BY <1>4, <1>3 DEF CascadeInspect
<1>5. CASE CascadeStage(t)
  <2>1. OfTool(work[t].record)
    BY <1>5 DEF CascadeStage, ReviewInv, CarriesRecord
  <2>2. CASE work[t].seen # Subject /\ Keep(t, NoWork) /\ Goto(t, "idle")
    BY <1>5, <2>2, <1>a, <1>t, LocalReview DEF CascadeStage, StagesRecord, CarriesRecord
  <2>3. CASE CascadeTry(t, work[t].record.subject, Nothing, "checked")
    BY <1>5, <2>1, <2>3, <1>3 DEF CascadeStage, OfTool
  <2> QED
    BY <1>5, <2>2, <2>3 DEF CascadeStage
<1>6. CASE CascadeLink(t)
  <2>1. DOMAIN work[t] = {"file", "at", "seen", "record"} /\ OfTool(work[t].record)
    BY <1>6 DEF CascadeLink, ReviewInv, CarriesRecord
  <2>2. OfTool(CascadeRecord(work[t].record.subject))
    BY <2>1, <1>r DEF CascadeRecord, Verdicts, OfTool
  <2>3. DOMAIN work'[t] = {"file", "at", "seen", "record"}
        /\ work'[t].record = CascadeRecord(work[t].record.subject)
    BY <1>6, <2>1, <1>a, <1>t DEF CascadeLink
  <2> QED
    BY <1>6, <2>2, <2>3, <1>a, <1>t, LocalReview DEF CascadeLink, StagesRecord, CarriesRecord
<1>7. CASE ToolStage(t)
  <2> DEFINE record == work[t].record
  <2>1. OfTool(record)
    BY <1>7 DEF ToolStage, ReviewInv, CarriesRecord
  <2>2. CASE Goto(t, "rejected") /\ UNCHANGED work
    BY <1>7, <2>2, <1>a, <1>t, LocalReview DEF ToolStage, StagesRecord, CarriesRecord
  <2>3. CASE /\ record \in DecisionRecords
             /\ Keep(t, [file |-> "journal", seen |-> work[t].seen,
                         content |-> Append(journal, record)])
             /\ Goto(t, "staged")
    <3>1. work'[t].file = "journal" /\ work'[t].content = Append(journal, record)
      BY <2>3, <1>a, <1>t
    <3>2. StagesRecord(t)'
      BY <1>7, <2>1, <2>3, <3>1 DEF StagesRecord, ToolStage
    <3> QED
      BY <1>7, <2>3, <3>2, <1>a, <1>t, LocalReview DEF ToolStage, CarriesRecord
  <2> QED
    BY <1>7, <2>2, <2>3 DEF ToolStage
<1>8. CASE ToolReplace(t)
  BY <1>8, <1>a, CommitReview DEF ToolReplace
<1>9. CASE ToolEnds(t)
  BY <1>9, <1>a, <1>t, LocalReview DEF ToolEnds, StagesRecord, CarriesRecord
<1> QED
  BY <1>1, <1>2, <1>4, <1>5, <1>6, <1>7, <1>8, <1>9 DEF ToolStep

LEMMA NextReview ==
    ASSUME HistoryInv, TypeOK, ReviewInv, [Next]_vars
    PROVE  ReviewInv'
<1>1. CASE \E c \in Restorers : Inspect(c) \/ Begin(c) \/ Prepare(c) \/ Proceed(c)
  BY <1>1, RestorerKeepsReviews
<1>2. CASE \E t \in Tools : ToolStep(t)
  BY <1>2, ToolKeepsReviews
<1>3. ASSUME NEW a \in Actors, Abort(a) PROVE ReviewInv'
  BY <1>3, LocalReview DEF Abort, GiveUp, Goto, Keep, UnlockedRest, TypeOK,
      PreparesReview, StagesReview, StagesRecord, CarriesRecord
<1>4. CASE ChangeAnalysis \/ ChangeSource \/ UNCHANGED vars
  <2>1. UNCHANGED <<manual, journal, pc, work>>
    BY <1>4 DEF ChangeAnalysis, ChangeSource, WorldMoves, vars
  <2> QED
    BY <2>1 DEF ReviewInv, Unique, DecisionsOn, Live, Superseded,
        PreparesReview, StagesReview, StagesRecord, CarriesRecord
<1> QED
  BY <1>1, <1>2, <1>3, <1>4 DEF Next

LEMMA ReviewInvariant == Spec => []ReviewInv
<1>1. HistoryInv /\ TypeOK /\ ReviewInv /\ [Next]_vars => ReviewInv'
  BY NextReview
<1> QED
  BY <1>1, InitReview, HistoryInvariant, RestorationTyped, PTL DEF Spec

-----------------------------------------------------------------------------
(* Theorems *)

\* However reviews, batches, supersessions and tool records mix, no action ever
\* has two decisions in force (what _history refuses to display).
THEOREM ActionsHaveOneDecision == Spec => []OneDecisionPerAction
<1>1. ASSUME TypeOK, ReviewInv, NEW i \in DOMAIN manual
      PROVE  Cardinality(DecisionsOn(journal, i)) <= 1
  <2>1. i \in Nat
    BY <1>1 DEF TypeOK
  <2>2. \A d, e \in DecisionsOn(journal, i) : d = e
    BY <1>1, <2>1 DEF ReviewInv, Unique
  <2>3. CASE DecisionsOn(journal, i) = {}
    BY <2>3, FS_EmptySet
  <2>4. CASE DecisionsOn(journal, i) # {}
    <3>1. PICK d : DecisionsOn(journal, i) = {d}
      BY <2>2, <2>4
    <3> QED
      BY <3>1, FS_Singleton
  <2> QED
    BY <2>3, <2>4
<1>2. TypeOK /\ ReviewInv => OneDecisionPerAction
  BY <1>1 DEF OneDecisionPerAction
<1> QED
  BY <1>2, ReviewInvariant, RestorationTyped, PTL

\* A review that was prepared is still valid when append_decision_records reads
\* the journal again: nobody writes between the two reads.
THEOREM PreparedReviewsAreValid == Spec => []PreparedIsValid
<1>1. ReviewInv => PreparedIsValid
  BY DEF ReviewInv, PreparesReview, PreparedIsValid, Valid, Review
<1> QED
  BY <1>1, ReviewInvariant, PTL

\* A decision always falls on an action that is in force and has evidence at the
\* moment of the commit (_review_many checked it long before).
THEOREM DecisionsFallOnActiveActions == Spec => DecisionsOnActiveActions
<1>1. ASSUME HistoryInv, ReviewInv, [Next]_vars, NEW i \in DOMAIN journal' \ DOMAIN journal,
             journal'[i].subject \in Nat
      PROVE  journal'[i].subject \in Active(manual) /\ manual[journal'[i].subject].evidence
  <2>1. journal' # journal
    BY <1>1
  <2>2. PICK a \in Actors : pc[a] = "staged" /\ ReplaceBy(work[a])
    BY <1>1, <2>1, OnlyCommitsChange
  <2> QED
    BY <1>1, <2>2, CommitDecides
<1>2. HistoryInv /\ ReviewInv /\ [Next]_vars =>
        \A i \in DOMAIN journal' \ DOMAIN journal :
            LET action == journal'[i].subject IN
            action \in Nat => action \in Active(manual) /\ manual[action].evidence
  BY <1>1
<1> QED
  BY <1>2, HistoryInvariant, ReviewInvariant, PTL DEF Spec, DecisionsOnActiveActions

\* A decided action stays decided: supersession and replacement are committed by
\* one os.replace.
THEOREM DecidedActionsStayDecided == Spec => DecidedStaysDecided
<1>1. ASSUME HistoryInv, TypeOK, ReviewInv, [Next]_vars, NEW i \in DOMAIN manual,
             DecisionsOn(journal, i) # {}
      PROVE  DecisionsOn(journal', i) # {}
  <2>1. i \in Nat
    BY <1>1 DEF TypeOK
  <2>2. CASE journal' = journal
    BY <1>1, <2>2
  <2>3. CASE journal' # journal
    <3>1. PICK a \in Actors : pc[a] = "staged" /\ ReplaceBy(work[a])
      BY <1>1, <2>3, OnlyCommitsChange
    <3> QED
      BY <1>1, <2>1, <3>1, CommitDecides
  <2> QED
    BY <2>2, <2>3
<1>2. HistoryInv /\ TypeOK /\ ReviewInv /\ [Next]_vars =>
        \A i \in DOMAIN manual :
            DecisionsOn(journal, i) # {} => DecisionsOn(journal, i)' # {}
  BY <1>1 DEF DecisionsOn, Live, Superseded
<1> QED
  BY <1>2, HistoryInvariant, RestorationTyped, ReviewInvariant, PTL
     DEF Spec, DecidedStaysDecided

(***************************************************************************)
(* Proofs about what is read at one time and used at another: receipts,    *)
(* whose build may have seen other inputs than the subject they name, and  *)
(* records a tool has linked to a journal that has grown meanwhile.        *)
(***************************************************************************)

-----------------------------------------------------------------------------
(* Whose step it is *)

\* A step changes the place and the work of the actor that takes it only.
LEMMA OneActorSteps ==
    ASSUME HistoryInv, [Next]_vars, NEW a \in Actors
    PROVE  \/ pc'[a] = pc[a] /\ work'[a] = work[a]
           \/ a \in Restorers /\ (Begin(a) \/ Prepare(a) \/ Proceed(a))
           \/ a \in Tools /\ ToolStep(a)
           \/ Abort(a)
<1> USE DEF Goto, Keep, LockedRest, UnlockedRest
<1>t. pc \in [Actors -> Places] /\ DOMAIN work = Actors
  BY DEF HistoryInv, Typed
<1>1. ASSUME NEW b \in Actors, b # a,
             \E place : pc' = [pc EXCEPT ![b] = place],
             work' = work \/ \E w : work' = [work EXCEPT ![b] = w]
      PROVE  pc'[a] = pc[a] /\ work'[a] = work[a]
  BY <1>1, <1>t
<1>2. ASSUME NEW c \in Restorers, Begin(c) \/ Prepare(c) \/ Proceed(c), c # a
      PROVE  pc'[a] = pc[a] /\ work'[a] = work[a]
  <2>1. \E place : pc' = [pc EXCEPT ![c] = place]
    BY <1>2 DEF Begin, Prepare, PrepareEdit, PrepareRollback, PrepareReview, VerifyBuild,
        Proceed, Refuse, GiveUp, Stage, Replace, FinishWrite, Respond, PersistTruncate,
        PersistWrite, FinishVerify
  <2>2. work' = work \/ \E w : work' = [work EXCEPT ![c] = w]
    BY <1>2 DEF Begin, Prepare, PrepareEdit, PrepareRollback, PrepareReview, VerifyBuild,
        Proceed, Refuse, GiveUp, Stage, Replace, FinishWrite, Respond, PersistTruncate,
        PersistWrite, FinishVerify
  <2> QED
    BY <1>2, <2>1, <2>2, <1>1 DEF Actors
<1>3. ASSUME NEW t \in Tools, ToolStep(t), t # a
      PROVE  pc'[a] = pc[a] /\ work'[a] = work[a]
  <2>1. \E place : pc' = [pc EXCEPT ![t] = place]
    BY <1>3 DEF ToolStep, RecordLink, DryRun, CascadeInspect, CascadeTry, CascadeStage,
        CascadeLink, ToolStage, ToolReplace, ToolEnds
  <2>2. work' = work \/ \E w : work' = [work EXCEPT ![t] = w]
    BY <1>3 DEF ToolStep, RecordLink, DryRun, CascadeInspect, CascadeTry, CascadeStage,
        CascadeLink, ToolStage, ToolReplace, ToolEnds
  <2> QED
    BY <1>3, <2>1, <2>2, <1>1 DEF Actors
<1>4. ASSUME NEW b \in Actors, Abort(b), b # a
      PROVE  pc'[a] = pc[a] /\ work'[a] = work[a]
  BY <1>4, <1>t DEF Abort, GiveUp
<1>5. CASE (\E c \in Restorers : Inspect(c)) \/ ChangeAnalysis \/ ChangeSource \/ UNCHANGED vars
  BY <1>5 DEF Inspect, ChangeAnalysis, ChangeSource, WorldMoves, vars
<1> QED
  BY <1>2, <1>3, <1>4, <1>5 DEF Next

\* The journal never gets shorter, and the records in it stay.
LEMMA JournalGrows ==
    ASSUME HistoryInv, HistoryInv', [Next]_vars
    PROVE  /\ Len(journal) \in Nat /\ Len(journal') \in Nat /\ Len(journal) <= Len(journal')
           /\ \A k \in 1..Len(journal) : journal'[k] = journal[k]
<1>1. journal \in Seq(DecisionRecords) /\ journal' \in Seq(DecisionRecords)
  BY DEF HistoryInv, Typed
<1>2. CASE journal' # journal
  <2>1. PICK a \in Actors : pc[a] = "staged" /\ ReplaceBy(work[a])
    BY <1>2, OnlyCommitsChange
  <2>2. IsStrictPrefix(journal, journal')
    BY <1>2, <2>1 DEF HistoryInv, Staged, Continues, ReplaceBy
  <2>3. Len(journal) <= Len(journal') /\ journal = SubSeq(journal', 1, Len(journal))
    BY <1>1, <2>2 DEF IsStrictPrefix, IsPrefix
  <2> QED
    BY <1>1, <2>3
<1> QED
  BY <1>1, <1>2

-----------------------------------------------------------------------------
(* Records of the journal tools *)

\* A record of record-decision fits the journal as long as nobody has appended
\* to it, unless its id is taken; once it does not fit, one of the two is so.
LinkedRecord(t) ==
    pc[t] \in {"linked", "checked"} =>
        /\ work[t].at \in Nat /\ work[t].at <= Len(journal)
        /\ work[t].record \in DecisionRecords
        /\ work[t].record.prev = IF work[t].at = 0 THEN NoPrev ELSE work[t].at
        /\ work[t].record.action \in Verdicts

HasReason(t) ==
    \/ work[t].at \in Nat /\ work[t].at < Len(journal)
    \/ Taken(journal, Len(journal) + 1, work[t].record.id)

RejectedRecord(t) == pc[t] = "rejected" => HasReason(t)

RejectionInv ==
    \A t \in Tools \ CascadeTools :
        pc[t] # "inspected" /\ LinkedRecord(t) /\ RejectedRecord(t)

LEMMA FittingIsAccepted ==
    ASSUME NEW J \in Seq(DecisionRecords), ValidChain(J), NEW record \in DecisionRecords,
           record.prev = IF Len(J) = 0 THEN NoPrev ELSE Len(J),
           ~Taken(J, Len(J) + 1, record.id), record.action \in Verdicts
    PROVE  Accepts(J, record)
<1> DEFINE K == Append(J, record)
<1>1. /\ K \in Seq(DecisionRecords) /\ Len(K) = Len(J) + 1 /\ Len(J) \in Nat
      /\ DOMAIN K = 1..(Len(J) + 1) /\ DOMAIN J = 1..Len(J)
      /\ \A k \in 1..Len(J) : K[k] = J[k]
      /\ K[Len(J) + 1] = record
  OBVIOUS
<1> HIDE DEF K
<1>2. ASSUME NEW i \in 1..Len(J) PROVE ValidRecord(K, i)
  <2>1. ValidRecord(J, i)
    BY <1>1 DEF ValidChain
  <2> QED
    BY <1>1, <2>1 DEF ValidRecord, Taken
<1>3. ValidRecord(K, Len(J) + 1)
  <2>1. record.action # "supersede"
    BY DEF Verdicts
  <2>2. record.prev = IF Len(J) + 1 = 1 THEN NoPrev ELSE (Len(J) + 1) - 1
    BY <1>1
  <2> QED
    BY <1>1, <2>1, <2>2 DEF ValidRecord, Taken
<1>4. ValidChain(K)
  BY <1>1, <1>2, <1>3 DEF ValidChain
<1> QED
  BY <1>4 DEF Accepts, K

LEMMA NextRejection ==
    ASSUME HistoryInv, HistoryInv', RejectionInv, [Next]_vars
    PROVE  RejectionInv'
<1> USE DEF Goto, Keep, LockedRest, UnlockedRest
<1> SUFFICES ASSUME NEW t \in Tools \ CascadeTools
             PROVE  (pc[t] # "inspected" /\ LinkedRecord(t) /\ RejectedRecord(t))'
  BY DEF RejectionInv
<1>a. t \in Actors /\ t \notin Restorers
  BY ConstantsAssumption DEF Actors
<1>t. /\ pc \in [Actors -> Places] /\ DOMAIN work = Actors
      /\ journal \in Seq(DecisionRecords) /\ ValidChain(journal)
  BY DEF HistoryInv, Typed
<1>g. /\ Len(journal) \in Nat /\ Len(journal') \in Nat /\ Len(journal) <= Len(journal')
      /\ \A k \in 1..Len(journal) : journal'[k] = journal[k]
  BY JournalGrows
<1>k. ASSUME NEW id, Taken(journal, Len(journal) + 1, id)
      PROVE  Taken(journal', Len(journal') + 1, id)
  BY <1>k, <1>g DEF Taken
<1>i. pc[t] # "inspected" /\ LinkedRecord(t) /\ RejectedRecord(t)
  BY DEF RejectionInv
<1>r. ASSUME pc[t] \in {"linked", "checked"}, ~Accepts(journal, work[t].record)
      PROVE  HasReason(t)
  <2>1. work[t].at # Len(journal) \/ Taken(journal, Len(journal) + 1, work[t].record.id)
    BY <1>r, <1>t, <1>i, FittingIsAccepted DEF LinkedRecord
  <2> QED
    BY <1>r, <1>i, <1>g, <2>1 DEF LinkedRecord, HasReason
<1>1. CASE pc'[t] = pc[t] /\ work'[t] = work[t]
  <2>1. LinkedRecord(t)'
    BY <1>1, <1>i, <1>g DEF LinkedRecord
  <2>2. RejectedRecord(t)'
    BY <1>1, <1>i, <1>g, <1>k DEF RejectedRecord, HasReason
  <2> QED
    BY <1>1, <1>i, <2>1, <2>2
<1>2. CASE Abort(t)
  BY <1>2, <1>a, <1>t DEF Abort, GiveUp, LinkedRecord, RejectedRecord
<1>3. CASE RecordLink(t)
  <2>1. PICK fact \in ToolFacts, choice \in ToolVerdicts,
             id \in {Nothing} \cup GivenIds \cup DOMAIN journal :
          Keep(t, [file |-> "journal", at |-> Len(journal), seen |-> Nothing,
                   record |-> ToolRecord(fact, choice, NextPrev(journal), id)])
    BY <1>3 DEF RecordLink
  <2>2. /\ pc'[t] = "linked" /\ journal' = journal /\ work'[t].at = Len(journal)
        /\ work'[t].record = ToolRecord(fact, choice, NextPrev(journal), id)
    BY <1>3, <2>1, <1>a, <1>t DEF RecordLink
  <2>3. NextPrev(journal) = IF Len(journal) = 0 THEN NoPrev ELSE Len(journal)
    <3>1. journal = <<>> <=> Len(journal) = 0
      BY <1>t
    <3> QED
      BY <3>1 DEF NextPrev
  <2>4. choice \in Verdicts /\ NextPrev(journal) \in Nat \cup {NoPrev, NoneText}
    BY <2>3, <1>g, ConstantsAssumption
  <2>5. id \in ToolFacts \cup GivenIds \cup Nat \cup {Nothing}
    BY <1>t, <1>g
  <2>6. ToolRecord(fact, choice, NextPrev(journal), id) \in DecisionRecords
    BY <2>4, <2>5 DEF ToolRecord, DecisionRecords
  <2>7. LET record == ToolRecord(fact, choice, NextPrev(journal), id) IN
        record.prev = NextPrev(journal) /\ record.action = choice
    BY DEF ToolRecord
  <2>8. LinkedRecord(t)'
    BY <2>2, <2>3, <2>4, <2>6, <2>7, <1>g DEF LinkedRecord
  <2> QED
    BY <2>2, <2>8 DEF RejectedRecord
<1>4. CASE DryRun(t)
  <2>1. /\ work' = work /\ journal' = journal /\ pc[t] = "linked"
        /\ pc'[t] = IF Accepts(journal, work[t].record) THEN "checked" ELSE "rejected"
    BY <1>4, <1>a, <1>t DEF DryRun
  <2>2. LinkedRecord(t)'
    BY <2>1, <1>i DEF LinkedRecord
  <2>3. RejectedRecord(t)'
    BY <2>1, <1>r DEF RejectedRecord, HasReason
  <2> QED
    BY <2>1, <2>2, <2>3
<1>5. CASE ToolStage(t)
  <2>1. pc[t] = "checked" /\ journal' = journal
    BY <1>5 DEF ToolStage
  <2>2. CASE Goto(t, "staged")
    BY <2>2, <1>a, <1>t DEF LinkedRecord, RejectedRecord
  <2>3. CASE ~Accepts(journal, work[t].record) /\ Goto(t, "rejected") /\ UNCHANGED work
    BY <2>1, <2>3, <1>a, <1>t, <1>r DEF LinkedRecord, RejectedRecord, HasReason
  <2> QED
    BY <1>5, <2>2, <2>3 DEF ToolStage
<1>6. CASE ToolReplace(t) \/ ToolEnds(t)
  BY <1>6, <1>a, <1>t DEF ToolReplace, ToolEnds, LinkedRecord, RejectedRecord
<1>7. ~(CascadeInspect(t) \/ CascadeStage(t) \/ CascadeLink(t))
  BY <1>i DEF CascadeInspect, CascadeStage, CascadeLink
<1> QED
  BY <1>1, <1>2, <1>3, <1>4, <1>5, <1>6, <1>7, <1>a, OneActorSteps DEF ToolStep

\* record-decision is rejected only if another record came between its reading
\* of the journal and its append, or if the decision id its caller gave is taken,
\* by a record that was there or by one that came.
THEOREM JournalToolsAreRejectedForAReason == Spec => []JournalToolRejection
<1>1. Init => RejectionInv
  BY DEF Init, RejectionInv, LinkedRecord, RejectedRecord, Actors
<1>2. HistoryInv /\ HistoryInv' /\ RejectionInv /\ [Next]_vars => RejectionInv'
  BY NextRejection
<1>3. RejectionInv => JournalToolRejection
  <2> SUFFICES ASSUME RejectionInv, NEW t \in Tools \ CascadeTools, pc[t] = "rejected",
                      ~Taken(journal, Len(journal) + 1, work[t].record.id)
               PROVE  work[t].at # Len(journal)
    BY DEF JournalToolRejection
  <2>1. work[t].at \in Nat /\ work[t].at < Len(journal)
    BY DEF RejectionInv, RejectedRecord, HasReason
  <2> QED
    BY <2>1
<1> QED
  BY <1>1, <1>2, <1>3, HistoryInvariant, PTL DEF Spec

-----------------------------------------------------------------------------
(* Receipts *)

\* A receipt tells of a build from the subject it names, or of a subject the world
\* left between the check of its request and the build.
Honest(r, gone) ==
    /\ r.built.facts = r.subject.facts /\ r.built.actions = r.subject.actions
    /\ r.built = r.subject \/ r.subject \in gone

\* What an acceptance of an action rests on.
Backed(d, gone) ==
    d.action = "accept" /\ d.subject \in Nat =>
        d.receipt \in Receipts /\ Acceptable(d.receipt, d.revision) /\ Honest(d.receipt, gone)

\* Under the lock a client knows the facts the journal has now; until it builds,
\* the world has not left what it knows, or that has slipped.
Knows(c) ==
    /\ pc[c] \in LockedPlaces \ {"replaced"} =>
        expected[c].subject.facts = AcceptedFacts(journal)
    /\ pc[c] = "open" => expected[c].subject = Subject \/ expected[c].subject \in slipped

CarriesHonest(c) ==
    pc[c] \in {"built", "truncated", "verified"} => Honest(work[c].receipt, slipped)

PreparesBacked(c) ==
    /\ pc[c] = "prepared" /\ work[c].file = "journal" =>
        \A m \in DOMAIN work[c].additions : Backed(work[c].additions[m], slipped)
    /\ pc[c] = "staged" /\ work[c].file = "journal" =>
        \A m \in DOMAIN work[c].content : Backed(work[c].content[m], slipped)

ReceiptInv ==
    /\ \A r \in receipts : Honest(r, slipped)
    /\ \A i \in DOMAIN journal : Backed(journal[i], slipped)
    /\ \A c \in Restorers : Knows(c) /\ CarriesHonest(c) /\ PreparesBacked(c)

\* What has slipped stays slipped.
LEMMA SlippedStays == ASSUME [Next]_vars PROVE slipped \subseteq slipped'
BY HistorySteps DEF WorldMoves, history

\* An honest receipt stays honest.
LEMMA HonestStays ==
    ASSUME [Next]_vars, NEW r, Honest(r, slipped)
    PROVE  Honest(r, slipped')
BY SlippedStays DEF Honest

LEMMA BackedStays ==
    ASSUME [Next]_vars, NEW d, Backed(d, slipped)
    PROVE  Backed(d, slipped')
BY SlippedStays DEF Backed, Honest

\* What VerifyBuild writes down is honest: under the lock the histories are those
\* the client named, and the world has not left the subject, or it has slipped.
LEMMA BuiltIsHonest ==
    ASSUME HistoryInv, NEW c \in Restorers, Knows(c), pc[c] = "open", NEW exact
    PROVE  Honest([subject |-> expected[c].subject, built |-> Subject, exact |-> exact],
                  slipped)
<1>1. expected[c].subject.actions = Len(manual)
      /\ expected[c].subject.facts = AcceptedFacts(journal)
  BY DEF HistoryInv, Based, Named, LockedPlaces, Knows
<1>2. Subject.actions = Len(manual) /\ Subject.facts = AcceptedFacts(journal)
  BY DEF Subject
<1> QED
  BY <1>1, <1>2 DEF Honest, Knows

\* While a restorer is in a locked place and has not committed, the histories stay.
LEMMA HistoriesStay ==
    ASSUME HistoryInv, HistoryInv', [Next]_vars, NEW c \in Restorers,
           expected'[c] = expected[c],
           pc[c] \in LockedPlaces \ {"replaced"}, pc'[c] \in LockedPlaces \ {"replaced"}
    PROVE  UNCHANGED <<manual, journal>>
<1>1. CASE <<manual, journal>>' # <<manual, journal>>
  <2>1. PICK a \in Actors : pc[a] = "staged" /\ ReplaceBy(work[a])
    BY <1>1, OnlyCommitsChange
  <2>2. Continues(work[a])
    BY <2>1 DEF HistoryInv, Staged
  <2>3. Named(c) /\ Named(c)'
    BY DEF HistoryInv, Based
  <2>4. Len(journal') = Len(journal) /\ Len(manual') = Len(manual)
    BY <2>3 DEF Named
  <2>5. /\ manual \in Seq(ActionRecords) /\ manual' \in Seq(ActionRecords)
        /\ journal \in Seq(DecisionRecords) /\ journal' \in Seq(DecisionRecords)
    BY DEF HistoryInv, Typed
  <2>6. IsStrictPrefix(manual, manual') \/ IsStrictPrefix(journal, journal')
    BY <2>1, <2>2 DEF Continues, ReplaceBy
  <2>7. ~IsStrictPrefix(manual, manual')
    BY <2>4, <2>5 DEF IsStrictPrefix, IsPrefix
  <2>8. ~IsStrictPrefix(journal, journal')
    BY <2>4, <2>5 DEF IsStrictPrefix, IsPrefix
  <2> QED
    BY <2>6, <2>7, <2>8
<1> QED
  BY <1>1

\* Whoever comes to a locked place from another one begins there.
LEMMA BeginsThere ==
    ASSUME HistoryInv, [Next]_vars, NEW c \in Restorers,
           pc[c] \notin LockedPlaces \ {"replaced"}, pc'[c] \in LockedPlaces \ {"replaced"}
    PROVE  Begin(c)
<1> USE DEF Goto, Keep, LockedRest, UnlockedRest
<1>a. c \in Actors /\ c \notin Tools
  BY ConstantsAssumption DEF Actors
<1>t. pc \in [Actors -> Places]
  BY DEF HistoryInv, Typed
<1>1. ~Prepare(c) /\ ~Proceed(c)
  BY <1>a, <1>t DEF Prepare, PrepareEdit, PrepareRollback, PrepareReview,
      VerifyBuild, Proceed, Refuse, GiveUp, Stage, Replace, FinishWrite, Respond,
      PersistTruncate, PersistWrite, FinishVerify, LockedPlaces
<1>2. ~Abort(c)
  BY <1>a, <1>t DEF Abort, GiveUp, LockedPlaces
<1> QED
  BY <1>1, <1>2, <1>a, OneActorSteps

\* Every step of restorer c itself, or of somebody else, keeps what it knows.
LEMMA KnowsStays ==
    ASSUME TypeOK, HistoryInv, HistoryInv', [Next]_vars, NEW c \in Restorers, Knows(c)
    PROVE  Knows(c)'
<1> USE DEF Goto, Keep, LockedRest, UnlockedRest
<1>a. c \in Actors /\ c \notin Tools
  BY ConstantsAssumption DEF Actors
<1>t. /\ pc \in [Actors -> Places] /\ DOMAIN work = Actors
      /\ expected \in [Restorers -> Revisions]
  BY DEF TypeOK
<1>1. CASE expected'[c] = expected[c] /\ pc[c] \notin LockedPlaces \ {"replaced"}
  <2>1. CASE pc'[c] \in LockedPlaces \ {"replaced"}
    <3>1. Begin(c)
      BY <1>1, <2>1, BeginsThere
    <3>2. expected'[c].subject = Subject /\ UNCHANGED <<manual, journal, world>>
      BY <3>1 DEF Begin, IsCurrent, Revision
    <3>3. Subject' = Subject /\ AcceptedFacts(journal)' = AcceptedFacts(journal)
      BY <3>2 DEF Subject, AcceptedFacts, Live, Superseded
    <3> QED
      BY <3>2, <3>3 DEF Knows, Subject
  <2> QED
    BY <2>1 DEF Knows, LockedPlaces
<1>2. CASE expected'[c] = expected[c] /\ pc[c] \in LockedPlaces \ {"replaced"}
           /\ pc'[c] \in LockedPlaces \ {"replaced"}
  <2>1. UNCHANGED <<manual, journal>>
    BY <1>2, HistoriesStay
  <2>2. AcceptedFacts(journal)' = AcceptedFacts(journal)
    BY <2>1 DEF AcceptedFacts, Live, Superseded
  <2>3. expected'[c].subject.facts = AcceptedFacts(journal)'
    BY <1>2, <2>2 DEF Knows
  <2>4. ASSUME pc'[c] = "open"
        PROVE  (expected[c].subject = Subject \/ expected[c].subject \in slipped)'
    <3>1. pc[c] = "open"
      <4>1. ~Prepare(c) /\ ~Proceed(c) /\ ~Abort(c) /\ ~Begin(c)
        BY <1>2, <2>4, <1>a, <1>t DEF Prepare, PrepareEdit, PrepareRollback, PrepareReview,
            VerifyBuild, Proceed, Refuse, GiveUp, Stage, Replace, FinishWrite, Respond,
            PersistTruncate, PersistWrite, FinishVerify, Abort, Begin, LockedPlaces
      <4> QED
        BY <4>1, <2>4, <1>a, OneActorSteps
    <3>2. CASE expected[c].subject \in slipped
      BY <3>2, <1>2, SlippedStays
    <3>3. CASE expected[c].subject = Subject /\ UNCHANGED world
      BY <3>3, <1>2, <2>1, <2>2 DEF Subject
    <3>4. CASE expected[c].subject = Subject /\ WorldMoves
      <4>1. expected[c].decisions = Len(journal)
        BY <3>1 DEF HistoryInv, Based, Named, LockedPlaces
      <4>2. expected[c] = [subject |-> expected[c].subject, decisions |-> expected[c].decisions]
        BY <1>t DEF Revisions
      <4>3. IsCurrent(c)
        BY <3>4, <4>1, <4>2 DEF IsCurrent, Revision
      <4> QED
        BY <3>1, <3>4, <4>3, <1>2 DEF WorldMoves
    <3> QED
      BY <3>1, <3>2, <3>3, <3>4, HistorySteps DEF Knows
  <2> QED
    BY <2>3, <2>4 DEF Knows
<1>3. CASE pc'[c] \notin LockedPlaces \ {"replaced"}
  BY <1>3 DEF Knows, LockedPlaces
<1>4. CASE expected'[c] # expected[c]
  <2>1. Inspect(c) \/ FinishWrite(c) \/ FinishVerify(c)
    <3>1. ASSUME NEW d \in Restorers, Inspect(d) \/ FinishWrite(d) \/ FinishVerify(d)
          PROVE  d = c
      BY <3>1, <1>4, <1>t DEF Inspect, FinishWrite, FinishVerify, Respond
    <3>2. ASSUME NEW d \in Restorers, Begin(d) \/ Prepare(d) \/ Proceed(d)
          PROVE  expected' = expected \/ FinishWrite(d) \/ FinishVerify(d)
      BY <3>2 DEF Begin, Prepare, PrepareEdit, PrepareRollback, PrepareReview, VerifyBuild,
          Proceed, Refuse, GiveUp, Stage, Replace, PersistTruncate, PersistWrite
    <3>3. ASSUME NEW t \in Tools, ToolStep(t) PROVE expected' = expected
      BY <3>3 DEF ToolStep, RecordLink, DryRun, CascadeInspect, CascadeStage, CascadeLink,
          ToolStage, ToolReplace, ToolEnds
    <3>4. ASSUME NEW a \in Actors, Abort(a) PROVE expected' = expected
      BY <3>4 DEF Abort, GiveUp
    <3>5. ChangeAnalysis \/ ChangeSource \/ UNCHANGED vars => expected' = expected
      BY DEF ChangeAnalysis, ChangeSource, WorldMoves, vars
    <3> QED
      BY <1>4, <3>1, <3>2, <3>3, <3>4, <3>5 DEF Next
  <2>2. pc'[c] \notin LockedPlaces
    BY <2>1, <1>a, <1>t DEF Inspect, FinishWrite, FinishVerify, Respond, LockedPlaces
  <2> QED
    BY <2>2, <1>3
<1> QED
  BY <1>1, <1>2, <1>3, <1>4

\* Receipts come to the disk from a verify that carries them.
LEMMA ReceiptsCome ==
    ASSUME [Next]_vars, NEW r \in receipts', r \notin receipts
    PROVE  \E c \in Restorers : pc[c] = "truncated" /\ r = work[c].receipt
<1>1. ASSUME NEW c \in Restorers, Inspect(c) \/ Begin(c) \/ Prepare(c) \/ Proceed(c)
      PROVE  receipts' \subseteq receipts \/ PersistWrite(c)
  BY <1>1 DEF Inspect, Begin, Prepare, PrepareEdit, PrepareRollback, PrepareReview,
      VerifyBuild, Proceed, Refuse, GiveUp, Stage, Replace, FinishWrite, Respond,
      PersistTruncate, PersistWrite, FinishVerify, LockedRest, UnlockedRest
<1>2. ASSUME NEW t \in Tools, ToolStep(t)
      PROVE  receipts' = receipts
  BY <1>2 DEF ToolStep, RecordLink, DryRun, CascadeInspect, CascadeStage, CascadeLink,
      ToolStage, ToolReplace, ToolEnds, LockedRest, UnlockedRest
<1>3. ASSUME NEW a \in Actors, Abort(a) PROVE receipts' = receipts
  BY <1>3 DEF Abort, GiveUp, UnlockedRest
<1>4. ChangeAnalysis \/ ChangeSource \/ UNCHANGED vars => receipts' = receipts
  BY DEF ChangeAnalysis, ChangeSource, WorldMoves, vars
<1>5. PICK c \in Restorers : PersistWrite(c)
  BY <1>1, <1>2, <1>3, <1>4 DEF Next
<1> QED
  BY <1>5 DEF PersistWrite

LEMMA AppendedRecord ==
    ASSUME NEW S, NEW s \in Seq(S), NEW x \in S
    PROVE  /\ DOMAIN Append(s, x) = 1..(Len(s) + 1)
           /\ DOMAIN s = 1..Len(s) /\ Len(s) \in Nat
           /\ \A k \in 1..Len(s) : Append(s, x)[k] = s[k]
           /\ Append(s, x)[Len(s) + 1] = x
OBVIOUS

\* What a commit publishes is backed, record by record.
LEMMA CommitIsBacked ==
    ASSUME HistoryInv, ReviewInv, ReceiptInv, NEW a \in Actors, pc[a] = "staged",
           ReplaceBy(work[a]), NEW i \in DOMAIN journal'
    PROVE  Backed(journal'[i], slipped)
<1>1. journal \in Seq(DecisionRecords)
  BY DEF HistoryInv, Typed
<1>2. CASE work[a].file # "journal"
  BY <1>2 DEF ReplaceBy, ReceiptInv
<1>3. CASE work[a].file = "journal" /\ a \in Restorers
  BY <1>3 DEF ReplaceBy, ReceiptInv, PreparesBacked
<1>4. CASE a \in Tools
  <2>1. PICK record \in DecisionRecords :
            OfTool(record) /\ work[a].content = Append(journal, record)
    BY <1>4 DEF ReviewInv, StagesRecord
  <2>2. journal' = Append(journal, record)
    BY <1>4, <2>1 DEF ReplaceBy, ReviewInv, StagesRecord
  <2>3. Backed(record, slipped)
    BY <2>1, NamesAssumption DEF OfTool, Backed
  <2> DEFINE K == Append(journal, record)
  <2>4. /\ DOMAIN K = 1..(Len(journal) + 1)
        /\ DOMAIN journal = 1..Len(journal) /\ Len(journal) \in Nat
        /\ \A k \in 1..Len(journal) : K[k] = journal[k]
        /\ K[Len(journal) + 1] = record
    BY <1>1, AppendedRecord
  <2>5. journal' = K
    BY <2>2
  <2> HIDE DEF K
  <2>6. i \in 1..Len(journal) \/ i = Len(journal) + 1
    BY <2>4, <2>5
  <2>7. CASE i = Len(journal) + 1
    <3>1. journal'[i] = K[i] /\ K[i] = K[Len(journal) + 1]
      BY <2>5, <2>7
    <3>2. journal'[i] = record
      BY <3>1, <2>4
    <3> QED
      BY <3>2, <2>3
  <2>8. CASE i \in 1..Len(journal)
    <3>1. i \in DOMAIN journal /\ journal'[i] = journal[i]
      BY <2>4, <2>5, <2>8
    <3> QED
      BY <3>1 DEF ReceiptInv
  <2> QED
    BY <2>6, <2>7, <2>8
<1> QED
  BY <1>2, <1>3, <1>4 DEF Actors

\* Every step of restorer c keeps its receipt honest and its acceptances backed.
LEMMA CarriesStays ==
    ASSUME TypeInv, HistoryInv, HistoryInv', ReviewInv, ReceiptInv,
           [Next]_vars, NEW c \in Restorers
    PROVE  CarriesHonest(c)' /\ PreparesBacked(c)'
<1> USE DEF Goto, Keep, LockedRest, UnlockedRest
<1>a. c \in Actors /\ c \notin Tools
  BY ConstantsAssumption DEF Actors
<1>t. /\ pc \in [Actors -> Places] /\ DOMAIN work = Actors
      /\ journal \in Seq(DecisionRecords)
      /\ TypeOK
  BY DEF TypeInv, TypeOK
<1>k. Knows(c) /\ CarriesHonest(c) /\ PreparesBacked(c)
  BY DEF ReceiptInv
<1>h. \A r : Honest(r, slipped) => Honest(r, slipped')
  BY HonestStays
<1>b. \A d : Backed(d, slipped) => Backed(d, slipped')
  BY BackedStays
<1>1. CASE pc'[c] = pc[c] /\ work'[c] = work[c]
  BY <1>1, <1>k, <1>h, <1>b DEF CarriesHonest, PreparesBacked
<1>2. ASSUME pc'[c] \notin {"built", "truncated", "verified", "prepared", "staged"}
      PROVE  CarriesHonest(c)' /\ PreparesBacked(c)'
  BY <1>2 DEF CarriesHonest, PreparesBacked
<1>3. CASE Abort(c) \/ Begin(c)
  BY <1>3, <1>2, <1>a, <1>t DEF Abort, GiveUp, Begin
<1>4. CASE PrepareEdit(c) \/ PrepareRollback(c)
  <2>1. pc'[c] = "prepared"
    BY <1>4, <1>a, <1>t DEF PrepareEdit, PrepareRollback
  <2>2. work'[c].file = "manual"
    <3>1. CASE PrepareEdit(c)
      <4>1. PICK A : work' = [work EXCEPT ![c] = [file |-> "manual", additions |-> A]]
        BY <3>1 DEF PrepareEdit
      <4> QED
        BY <4>1, <1>a, <1>t
    <3>2. CASE PrepareRollback(c)
      <4>1. PICK A : work' = [work EXCEPT ![c] = [file |-> "manual", additions |-> A]]
        BY <3>2 DEF PrepareRollback
      <4> QED
        BY <4>1, <1>a, <1>t
    <3> QED
      BY <1>4, <3>1, <3>2
  <2> QED
    BY <2>1, <2>2 DEF CarriesHonest, PreparesBacked
<1>5. CASE PrepareReview(c)
  <2>1. PICK A : /\ Keep(c, [file |-> "journal", additions |-> A])
                 /\ \A m \in DOMAIN A : A[m].action = "accept" =>
                        A[m].receipt \in receipts /\ Acceptable(A[m].receipt, A[m].revision)
    BY <1>5, <1>t, ReviewPrepared DEF ReviewInv
  <2>2. pc'[c] = "prepared" /\ work'[c].additions = A /\ slipped' = slipped
    BY <1>5, <2>1, <1>a, <1>t DEF PrepareReview, history
  <2>3. \A m \in DOMAIN A : Backed(A[m], slipped)
    BY <2>1, <1>t DEF Backed, ReceiptInv, TypeOK
  <2> QED
    BY <2>2, <2>3 DEF CarriesHonest, PreparesBacked
<1>6. CASE VerifyBuild(c)
  <2>1. PICK exact \in BOOLEAN :
          work' = [work EXCEPT ![c] =
                    [file |-> "receipt",
                     receipt |-> [subject |-> expected[c].subject, built |-> Subject,
                                  exact |-> exact]]]
    BY <1>6 DEF VerifyBuild
  <2>2. pc[c] = "open" /\ pc'[c] = "built" /\ slipped' = slipped
        /\ work'[c].receipt = [subject |-> expected[c].subject, built |-> Subject,
                               exact |-> exact]
    BY <1>6, <2>1, <1>a, <1>t DEF VerifyBuild, history
  <2>3. Honest(work'[c].receipt, slipped)
    BY <2>2, <1>k, BuiltIsHonest
  <2> QED
    BY <2>2, <2>3 DEF CarriesHonest, PreparesBacked
<1>7. CASE Stage(c)
  <2> DEFINE original == IF work[c].file = "manual" THEN manual ELSE journal
             w == [file |-> work[c].file, content |-> Appended(original, work[c].additions)]
  <2>1. /\ pc[c] = "prepared" /\ Keep(c, w) /\ slipped' = slipped /\ pc'[c] = "staged"
    BY <1>7, <1>a, <1>t DEF Stage, history
  <2>2. ASSUME work[c].file = "journal"
        PROVE  \A k \in DOMAIN w.content : Backed(w.content[k], slipped)
    <3>1. w.content = journal \o work[c].additions
      BY <2>2 DEF Appended
    <3>2. work[c].additions \in Seq(DecisionRecords)
      BY <2>1, <2>2 DEF ReviewInv, PreparesReview, Review
    <3>3. \A m \in DOMAIN work[c].additions : Backed(work[c].additions[m], slipped)
      BY <2>1, <2>2, <1>k DEF PreparesBacked
    <3>4. \A i \in DOMAIN journal : Backed(journal[i], slipped)
      BY DEF ReceiptInv
    <3> HIDE DEF w
    <3> SUFFICES ASSUME NEW k \in DOMAIN w.content PROVE Backed(w.content[k], slipped)
      OBVIOUS
    <3> DEFINE A == work[c].additions
    <3>5. /\ DOMAIN (journal \o A) = 1..(Len(journal) + Len(A))
          /\ DOMAIN journal = 1..Len(journal) /\ Len(journal) \in Nat
          /\ DOMAIN A = 1..Len(A) /\ Len(A) \in Nat
          /\ \A i \in 1..Len(journal) : (journal \o A)[i] = journal[i]
          /\ \A i \in 1..(Len(journal) + Len(A)) :
                i > Len(journal) => (journal \o A)[i] = A[i - Len(journal)]
      BY <3>2, <1>t
    <3> HIDE DEF A
    <3>6. CASE k \in 1..Len(journal)
      BY <3>1, <3>4, <3>5, <3>6 DEF A
    <3>7. CASE k \notin 1..Len(journal)
      <4>1. k \in 1..(Len(journal) + Len(A)) /\ k > Len(journal)
            /\ k - Len(journal) \in DOMAIN A
        BY <3>1, <3>5, <3>7 DEF A
      <4>2. w.content[k] = A[k - Len(journal)]
        BY <4>1, <3>1, <3>5 DEF A
      <4> QED
        BY <4>1, <4>2, <3>3 DEF A
    <3> QED
      BY <3>6, <3>7
  <2> HIDE DEF w
  <2>3. work'[c] = w
    BY <2>1, <1>a, <1>t
  <2>4. w.file = work[c].file
    BY DEF w
  <2> QED
    BY <2>1, <2>2, <2>3, <2>4 DEF CarriesHonest, PreparesBacked
<1>8. CASE Refuse(c) \/ Replace(c) \/ FinishWrite(c) \/ FinishVerify(c)
  BY <1>8, <1>2, <1>a, <1>t DEF Refuse, GiveUp, Replace, FinishWrite, FinishVerify, Respond
<1>9. CASE PersistTruncate(c) \/ PersistWrite(c)
  <2>1. /\ pc[c] \in {"built", "truncated"} /\ pc'[c] \in {"truncated", "verified"}
        /\ work'[c] = work[c]
    BY <1>9, <1>a, <1>t DEF PersistTruncate, PersistWrite
  <2> QED
    BY <2>1, <1>k, <1>h DEF CarriesHonest, PreparesBacked
<1> QED
  BY <1>1, <1>3, <1>4, <1>5, <1>6, <1>7, <1>8, <1>9, <1>a, OneActorSteps DEF Prepare, Proceed

LEMMA NextReceipt ==
    ASSUME TypeInv, HistoryInv, HistoryInv', ReviewInv, ReceiptInv, [Next]_vars
    PROVE  ReceiptInv'
<1>t. TypeOK /\ receipts \subseteq Receipts
  BY DEF TypeInv, TypeOK
<1>1. ASSUME NEW r \in receipts' PROVE Honest(r, slipped')
  <2>1. Honest(r, slipped)
    <3>1. CASE r \in receipts
      BY <3>1 DEF ReceiptInv
    <3>2. CASE r \notin receipts
      <4>1. PICK c \in Restorers : pc[c] = "truncated" /\ r = work[c].receipt
        BY <3>2, ReceiptsCome
      <4> QED
        BY <4>1 DEF ReceiptInv, CarriesHonest
    <3> QED
      BY <3>1, <3>2
  <2> QED
    BY <2>1, HonestStays
<1>2. ASSUME NEW i \in DOMAIN journal' PROVE Backed(journal'[i], slipped')
  <2>1. Backed(journal'[i], slipped)
    <3>1. CASE journal' = journal
      BY <3>1 DEF ReceiptInv
    <3>2. CASE journal' # journal
      <4>1. PICK a \in Actors : pc[a] = "staged" /\ ReplaceBy(work[a])
        BY <3>2, OnlyCommitsChange
      <4> QED
        BY <4>1, CommitIsBacked
    <3> QED
      BY <3>1, <3>2
  <2> QED
    BY <2>1, BackedStays
<1>3. ASSUME NEW c \in Restorers PROVE (Knows(c) /\ CarriesHonest(c) /\ PreparesBacked(c))'
  BY <1>t, KnowsStays, CarriesStays DEF ReceiptInv
<1> QED
  BY <1>1, <1>2, <1>3 DEF ReceiptInv

LEMMA InitReceipt == Init => ReceiptInv
<1> SUFFICES ASSUME Init PROVE ReceiptInv
  OBVIOUS
<1>1. \A c \in Restorers : Knows(c)
  BY DEF Init, Knows, Revision, Subject, Actors, LockedPlaces
<1> QED
  BY <1>1 DEF Init, NoFile, ReceiptInv, CarriesHonest, PreparesBacked, Actors

\* What _history shows as accepted and current was rebuilt exactly from what the
\* target is now, wherever the analysis inputs and the program file go, back too,
\* and although a verify does not read the analysis key again.  The exception is a
\* subject the world left while a request on it had been checked and had not built:
\* its rebuild has the same histories and perhaps other inputs.
THEOREM AcceptedAndCurrentWasRebuilt == Spec => []CurrentMeansRebuilt
<1>1. TypeInv /\ HistoryInv /\ HistoryInv' /\ ReviewInv /\ ReceiptInv /\ [Next]_vars
        => ReceiptInv'
  BY NextReceipt
<1>2. Spec => []TypeInv
  BY InitTyped, NextTyped, HistoryInvariant, PTL DEF Spec
<1>3. Spec => []ReceiptInv
  BY <1>1, <1>2, InitReceipt, HistoryInvariant, ReviewInvariant, PTL DEF Spec
<1>4. TypeInv /\ ReceiptInv => CurrentMeansRebuilt
  <2> SUFFICES ASSUME TypeInv, ReceiptInv, NEW i \in Live(journal),
                      journal[i].action = "accept", journal[i].subject \in DOMAIN manual,
                      journal[i].revision = Subject
               PROVE  /\ journal[i].receipt.exact
                      /\ \/ journal[i].receipt.built = Subject
                         \/ /\ Subject \in slipped
                            /\ journal[i].receipt.built.facts = Subject.facts
                            /\ journal[i].receipt.built.actions = Subject.actions
    BY DEF CurrentMeansRebuilt
  <2>1. journal[i].subject \in Nat /\ i \in DOMAIN journal
    BY DEF Live, TypeInv, TypeOK
  <2>2. Backed(journal[i], slipped)
    BY <2>1 DEF ReceiptInv
  <2>3. /\ journal[i].receipt.subject = Subject /\ journal[i].receipt.exact
        /\ Honest(journal[i].receipt, slipped)
    BY <2>1, <2>2 DEF Backed, Acceptable
  <2> QED
    BY <2>3 DEF Honest
<1> QED
  BY <1>3, <1>2, <1>4, PTL

=============================================================================
