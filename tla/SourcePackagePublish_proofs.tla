--------------------- MODULE SourcePackagePublish_proofs ---------------------
(***************************************************************************)
(* Proofs about SourcePackagePublish, for any number of publishers, any    *)
(* files, folders and packages, and any number of publications and edits.  *)
(*                                                                         *)
(* The argument: what a publication may write to is what it owned when it  *)
(* began or found absent or as its caller expected (Known), so it never    *)
(* writes to a file that held the user's text.  And while nobody else      *)
(* writes, the folder is at every moment the one it read with the changes  *)
(* it has noted (Undisturbed), so undoing them leads back to it.           *)
(***************************************************************************)
EXTENDS SourcePackagePublish, TLAPS

Text == Contents \cup {Absent}
Parents == ParentsOf(Paths)
Manifests == Packages \cup {Absent, Foreign}
Parts == UNION {[S -> Contents] : S \in SUBSET Paths}
Snapshots == [disk : [Paths -> Text], folders : SUBSET Parents, manifest : Manifests]
Publications ==
  [stage : Stages, package : Packages \cup {Absent}, expected : Expectations \cup {Absent},
   owned : Parts, originals : SUBSET Paths, backups : Parts, changed : SUBSET Paths,
   made : SUBSET Parents, seen : Snapshots \cup {Absent}, alone : BOOLEAN]

\* The files publication w may write to.
Reach(w) == DOMAIN w.package.files \cup DOMAIN w.owned
Writing == {"backup", "install", "remove", "rollback", "clean"}

\* What publication w knows of the folder it has read, whoever writes to the
\* folder since.
Known(w) ==
  /\ w.stage # "idle" => w.package \in Packages /\ w.seen \in Snapshots
  /\ w.stage = "check" => w.changed = {}
  /\ w.stage # "idle" => \A x \in DOMAIN w.owned : w.seen.disk[x] # UserText
  /\ w.stage \in Writing => \A x \in Reach(w) : w.seen.disk[x] # UserText
  /\ w.stage \in Writing => w.changed \subseteq Reach(w)

FolderInv ==
  /\ disk \in [Paths -> Text] /\ folders \in SUBSET Parents /\ manifest \in Manifests
  /\ \A x \in Paths : disk[x] # Absent => HasFolder(x)
  /\ pub \in [Publishers -> Publications]
  /\ \A p \in Publishers : Known(pub[p])

-----------------------------------------------------------------------------
(* The records of publications                                             *)

LEMMA PartFacts ==
  /\ \A f \in Parts : DOMAIN f \subseteq Paths /\ \A x \in DOMAIN f : f[x] \in Contents
  /\ \A S \in SUBSET Paths : [S -> Contents] \subseteq Parts
  /\ NoFiles \in Parts /\ DOMAIN NoFiles = {}
<1>1. \A S \in SUBSET Paths : [S -> Contents] \subseteq Parts
  BY DEF Parts
<1>2. {} \in SUBSET Paths /\ NoFiles \in [{} -> Contents] /\ DOMAIN NoFiles = {}
  BY DEF NoFiles
<1>3. ASSUME NEW f \in Parts
      PROVE  DOMAIN f \subseteq Paths /\ \A x \in DOMAIN f : f[x] \in Contents
  <2>1. PICK S \in SUBSET Paths : f \in [S -> Contents]
    BY DEF Parts
  <2> QED
    BY <2>1
<1> QED
  BY <1>1, <1>2, <1>3

LEMMA PackageFacts ==
  ASSUME NEW package \in Packages
  PROVE  /\ package.files \in Parts /\ DOMAIN package.files \subseteq Paths
         /\ \A x \in DOMAIN package.files : package.files[x] \in Contents
         /\ \A x \in DOMAIN package.files : package.files[x] # UserText /\ package.files[x] # Absent
         /\ package.source \in Paths /\ Folder[package.source] = Root
<1>1. /\ package.files \in [DOMAIN package.files -> Contents] /\ DOMAIN package.files \subseteq Paths
      /\ package.source \in DOMAIN package.files /\ Folder[package.source] = Root
  BY PackageAssumption DEF PackageAssumption
<1>2. {Absent, Inline, UserText} \cap UNION {{p.files[x] : x \in DOMAIN p.files} : p \in Packages} = {}
  BY PackageAssumption DEF PackageAssumption
<1>3. ASSUME NEW x \in DOMAIN package.files
      PROVE  package.files[x] # UserText /\ package.files[x] # Absent
  <2>1. package.files[x] \in UNION {{p.files[y] : y \in DOMAIN p.files} : p \in Packages}
    OBVIOUS
  <2> QED
    BY <1>2, <2>1
<1> QED
  BY <1>1, <1>3, PartFacts

LEMMA NewStage ==
  ASSUME NEW w \in Publications, NEW s \in Stages, NEW v, v = [w EXCEPT !.stage = s]
  PROVE  /\ v \in Publications /\ v.stage = s
         /\ v.package = w.package /\ v.expected = w.expected /\ v.owned = w.owned
         /\ v.originals = w.originals /\ v.backups = w.backups /\ v.changed = w.changed
         /\ v.made = w.made /\ v.seen = w.seen /\ v.alone = w.alone
BY DEF Publications

LEMMA NotAlone ==
  ASSUME NEW w \in Publications, NEW v, v = [w EXCEPT !.alone = FALSE]
  PROVE  /\ v \in Publications /\ v.stage = w.stage
         /\ v.package = w.package /\ v.expected = w.expected /\ v.owned = w.owned
         /\ v.originals = w.originals /\ v.backups = w.backups /\ v.changed = w.changed
         /\ v.made = w.made /\ v.seen = w.seen /\ v.alone = FALSE
BY DEF Publications

LEMMA NewChanged ==
  ASSUME NEW w \in Publications, NEW S \in SUBSET Paths, NEW v, v = [w EXCEPT !.changed = S]
  PROVE  /\ v \in Publications /\ v.stage = w.stage
         /\ v.package = w.package /\ v.expected = w.expected /\ v.owned = w.owned
         /\ v.originals = w.originals /\ v.backups = w.backups /\ v.changed = S
         /\ v.made = w.made /\ v.seen = w.seen /\ v.alone = w.alone
BY DEF Publications

LEMMA NewMade ==
  ASSUME NEW w \in Publications, NEW S \in SUBSET Parents, NEW v, v = [w EXCEPT !.made = S]
  PROVE  /\ v \in Publications /\ v.stage = w.stage
         /\ v.package = w.package /\ v.expected = w.expected /\ v.owned = w.owned
         /\ v.originals = w.originals /\ v.backups = w.backups /\ v.changed = w.changed
         /\ v.made = S /\ v.seen = w.seen /\ v.alone = w.alone
BY DEF Publications

LEMMA NewBackups ==
  ASSUME NEW w \in Publications, NEW f \in Parts, NEW v, v = [w EXCEPT !.backups = f]
  PROVE  /\ v \in Publications /\ v.stage = w.stage
         /\ v.package = w.package /\ v.expected = w.expected /\ v.owned = w.owned
         /\ v.originals = w.originals /\ v.backups = f /\ v.changed = w.changed
         /\ v.made = w.made /\ v.seen = w.seen /\ v.alone = w.alone
BY DEF Publications

LEMMA NewOriginals ==
  ASSUME NEW w \in Publications, NEW S \in SUBSET Paths, NEW v, v = [w EXCEPT !.originals = S]
  PROVE  /\ v \in Publications /\ v.stage = w.stage
         /\ v.package = w.package /\ v.expected = w.expected /\ v.owned = w.owned
         /\ v.originals = S /\ v.backups = w.backups /\ v.changed = w.changed
         /\ v.made = w.made /\ v.seen = w.seen /\ v.alone = w.alone
BY DEF Publications

LEMMA NewSeen ==
  ASSUME NEW w \in Publications, NEW s \in Snapshots, NEW v, v = [w EXCEPT !.seen = s]
  PROVE  /\ v \in Publications /\ v.stage = w.stage
         /\ v.package = w.package /\ v.expected = w.expected /\ v.owned = w.owned
         /\ v.originals = w.originals /\ v.backups = w.backups /\ v.changed = w.changed
         /\ v.made = w.made /\ v.seen = s /\ v.alone = w.alone
BY DEF Publications

\* What the folder was read to hold where the publication owns nothing is
\* read again when it proceeds.
Reread(w) == [x \in Paths |-> IF x \in DOMAIN w.owned THEN w.seen.disk[x] ELSE disk[x]]

LEMMA RereadFacts ==
  ASSUME NEW w \in Publications, w.seen \in Snapshots, disk \in [Paths -> Text], NEW v,
         v = [w.seen EXCEPT !.disk = Reread(w)]
  PROVE  /\ v \in Snapshots /\ v.disk = Reread(w)
         /\ v.folders = w.seen.folders /\ v.manifest = w.seen.manifest
<1>1. Reread(w) \in [Paths -> Text]
  BY DEF Reread, Snapshots
<1> HIDE DEF Reread
<1> QED
  BY <1>1 DEF Snapshots

\* The record of a publication that proceeds, or has copied what it changes.
LEMMA ProceedFacts ==
  ASSUME NEW p \in Publishers, Proceed(p), pub[p] \in Publications, Known(pub[p]), disk \in [Paths -> Text]
  PROVE  \E v \in Publications :
           /\ Goes(p, v) /\ v.stage = "backup"
           /\ v.package = pub[p].package /\ v.owned = pub[p].owned /\ v.changed = pub[p].changed
           /\ v.made = pub[p].made /\ v.alone = pub[p].alone /\ v.seen \in Snapshots
           /\ v.originals = DOMAIN pub[p].owned \cup {x \in DOMAIN Files(p) : disk[x] # Absent}
           /\ v.seen.disk = Reread(pub[p])
           /\ v.seen.folders = pub[p].seen.folders /\ v.seen.manifest = pub[p].seen.manifest
<1> DEFINE originals == DOMAIN pub[p].owned \cup {x \in DOMAIN Files(p) : disk[x] # Absent}
           snapshot == [pub[p].seen EXCEPT !.disk = Reread(pub[p])]
           w == [pub[p] EXCEPT !.stage = "backup"]
           u == [w EXCEPT !.seen = snapshot]
           v == [u EXCEPT !.originals = originals]
<1>1. pub[p].package \in Packages /\ pub[p].seen \in Snapshots
  BY DEF Proceed, Known, At
<1>2. originals \in SUBSET Paths
  BY <1>1, PartFacts, PackageFacts DEF Publications, Files
<1>3. w.seen = pub[p].seen /\ w.owned = pub[p].owned
  BY NewStage DEF Stages
<1>4. snapshot = [w.seen EXCEPT !.disk = [x \in Paths |-> IF x \in DOMAIN pub[p].owned THEN @[x] ELSE disk[x]]]
  <2>1. Reread(pub[p]) = [x \in Paths |-> IF x \in DOMAIN pub[p].owned THEN w.seen.disk[x] ELSE disk[x]]
    BY <1>3 DEF Reread
  <2> HIDE DEF w, Reread
  <2> QED
    BY <1>3, <2>1
<1>5. Goes(p, v)
  BY <1>4 DEF Proceed
<1>6. /\ snapshot \in Snapshots /\ snapshot.disk = Reread(pub[p])
      /\ snapshot.folders = pub[p].seen.folders /\ snapshot.manifest = pub[p].seen.manifest
  BY <1>1, RereadFacts
<1> HIDE DEF snapshot, originals
<1>7. /\ w \in Publications /\ w.stage = "backup"
      /\ w.package = pub[p].package /\ w.owned = pub[p].owned /\ w.changed = pub[p].changed
      /\ w.made = pub[p].made /\ w.alone = pub[p].alone
  BY NewStage DEF Stages
<1> HIDE DEF w
<1>8. /\ u \in Publications /\ u.stage = w.stage /\ u.package = w.package /\ u.owned = w.owned
      /\ u.changed = w.changed /\ u.made = w.made /\ u.alone = w.alone /\ u.seen = snapshot
  BY <1>6, <1>7, NewSeen
<1> HIDE DEF u
<1>9. /\ v \in Publications /\ v.stage = u.stage /\ v.package = u.package /\ v.owned = u.owned
      /\ v.changed = u.changed /\ v.made = u.made /\ v.alone = u.alone /\ v.seen = u.seen
      /\ v.originals = originals
  BY <1>2, <1>8, NewOriginals
<1> HIDE DEF v
<1> QED
  BY <1>5, <1>6, <1>7, <1>8, <1>9 DEF originals

LEMMA BackUpFacts ==
  ASSUME NEW p \in Publishers, BackUp(p), pub[p] \in Publications, disk \in [Paths -> Text]
  PROVE  \E v \in Publications :
           /\ Goes(p, v) /\ v.stage = "install"
           /\ v.package = pub[p].package /\ v.owned = pub[p].owned /\ v.changed = pub[p].changed
           /\ v.made = pub[p].made /\ v.alone = pub[p].alone /\ v.seen = pub[p].seen
           /\ v.backups = [x \in pub[p].originals |-> disk[x]]
<1> DEFINE copies == [x \in pub[p].originals |-> disk[x]]
           w == [pub[p] EXCEPT !.stage = "install"]
           v == [w EXCEPT !.backups = copies]
<1>1. copies \in Parts
  <2>1. pub[p].originals \in SUBSET Paths
    BY DEF Publications
  <2>2. copies \in [pub[p].originals -> Contents]
    BY <2>1 DEF Text, BackUp
  <2> QED
    BY <2>1, <2>2, PartFacts
<1>2. Goes(p, v)
  BY DEF BackUp
<1>3. /\ w \in Publications /\ w.stage = "install"
      /\ w.package = pub[p].package /\ w.owned = pub[p].owned /\ w.changed = pub[p].changed
      /\ w.made = pub[p].made /\ w.alone = pub[p].alone /\ w.seen = pub[p].seen
  BY NewStage DEF Stages
<1> HIDE DEF w, copies
<1>4. /\ v \in Publications /\ v.stage = w.stage /\ v.package = w.package /\ v.owned = w.owned
      /\ v.changed = w.changed /\ v.made = w.made /\ v.alone = w.alone /\ v.seen = w.seen
      /\ v.backups = copies
  BY <1>1, <1>3, NewBackups
<1> HIDE DEF v
<1> QED
  BY <1>2, <1>3, <1>4 DEF copies

-----------------------------------------------------------------------------
(* The folder and what the publications know of it                         *)

LEMMA OneMoves ==
  ASSUME pub \in [Publishers -> Publications], NEW p \in Publishers, NEW w \in Publications,
         Goes(p, w) \/ Disturbs(p, w)
  PROVE  /\ pub' \in [Publishers -> Publications] /\ pub'[p] = w
         /\ \A q \in Publishers \ {p} :
              IF Goes(p, w) THEN pub'[q] = pub[q] ELSE pub'[q] = [pub[q] EXCEPT !.alone = FALSE]
<1>1. CASE Goes(p, w)
  BY <1>1 DEF Goes
<1>2. CASE ~Goes(p, w)
  <2>1. pub' = [q \in Publishers |-> IF q = p THEN w ELSE [pub[q] EXCEPT !.alone = FALSE]]
    BY <1>2 DEF Disturbs
  <2>2. \A q \in Publishers : [pub[q] EXCEPT !.alone = FALSE] \in Publications
    BY NotAlone
  <2> QED
    BY <1>2, <2>1, <2>2
<1> QED
  BY <1>1, <1>2

LEMMA KnownStays ==
  ASSUME NEW w \in Publications, Known(w)
  PROVE  Known([w EXCEPT !.alone = FALSE])
<1> DEFINE v == [w EXCEPT !.alone = FALSE]
<1>1. /\ v.stage = w.stage /\ v.package = w.package /\ v.owned = w.owned
      /\ v.changed = w.changed /\ v.seen = w.seen
  BY NotAlone
<1> HIDE DEF v
<1>2. Known(v)
  BY <1>1 DEF Known, Reach
<1> QED
  BY <1>2 DEF v

LEMMA KnownByOne ==
  ASSUME FolderInv, NEW p \in Publishers, NEW w \in Publications, Known(w),
         Goes(p, w) \/ Disturbs(p, w)
  PROVE  pub' \in [Publishers -> Publications] /\ \A q \in Publishers : Known(pub'[q])
<1>1. pub \in [Publishers -> Publications] /\ \A q \in Publishers : Known(pub[q])
  BY DEF FolderInv
<1>2. /\ pub' \in [Publishers -> Publications] /\ pub'[p] = w
      /\ \A q \in Publishers \ {p} :
           pub'[q] = pub[q] \/ pub'[q] = [pub[q] EXCEPT !.alone = FALSE]
  BY <1>1, OneMoves
<1>3. ASSUME NEW q \in Publishers \ {p}
      PROVE  Known(pub'[q])
  BY <1>1, <1>2, KnownStays
<1> QED
  BY <1>2, <1>3

LEMMA KnownStage ==
  ASSUME NEW w \in Publications, Known(w), NEW s \in Stages \ {"check"},
         w.stage # "idle", s \in Writing => w.stage \in Writing,
         NEW v, v = [w EXCEPT !.stage = s]
  PROVE  v \in Publications /\ Known(v)
<1>1. /\ v \in Publications /\ v.stage = s /\ v.package = w.package /\ v.owned = w.owned
      /\ v.changed = w.changed /\ v.seen = w.seen
  BY NewStage
<1> QED
  BY <1>1 DEF Known, Reach

LEMMA KnownEnd ==
  ASSUME FolderInv, NEW p \in Publishers, NEW s \in Stages \ {"check"}, Ends(p, s), UNCHANGED folderVars,
         pub[p].stage # "idle", s \in Writing => pub[p].stage \in Writing
  PROVE  FolderInv'
<1> DEFINE w == [pub[p] EXCEPT !.stage = s]
<1>1. pub[p] \in Publications /\ Known(pub[p]) /\ Goes(p, w)
  BY DEF FolderInv, Ends
<1>2. w \in Publications /\ Known(w)
  BY <1>1, KnownStage
<1> HIDE DEF w
<1>3. pub' \in [Publishers -> Publications] /\ \A q \in Publishers : Known(pub'[q])
  BY <1>1, <1>2, KnownByOne
<1> QED
  BY <1>3 DEF FolderInv, folderVars, HasFolder

\* The publication changes the folder and notes the change, or is interrupted.
LEMMA KnownWrite ==
  ASSUME FolderInv, NEW p \in Publishers, NEW w \in Publications, Known(w), Writes(p, w),
         pub[p].stage \in Writing
  PROVE  pub' \in [Publishers -> Publications] /\ \A q \in Publishers : Known(pub'[q])
<1> DEFINE v == [pub[p] EXCEPT !.stage = "rollback"]
<1>1. Disturbs(p, w) \/ Disturbs(p, v)
  BY DEF Writes
<1>2. pub[p] \in Publications /\ Known(pub[p])
  BY DEF FolderInv
<1>3. v \in Publications /\ Known(v)
  BY <1>2, KnownStage DEF Stages, Writing
<1> HIDE DEF v
<1> QED
  BY <1>1, <1>3, KnownByOne

LEMMA BeginFacts ==
  ASSUME FolderInv, NEW p \in Publishers, Begin(p)
  PROVE  /\ UNCHANGED folderVars
         /\ \E w \in Publications :
              /\ Goes(p, w) /\ w.stage \in {"check", "refused"} /\ w.package \in Packages
              /\ w.changed = {} /\ w.made = {} /\ w.seen \in Snapshots
              /\ w.seen = [disk |-> disk, folders |-> folders, manifest |-> manifest]
              /\ \A x \in DOMAIN w.owned : disk[x] = w.owned[x] /\ disk[x] # UserText
<1>1. PICK package \in Packages, expected \in Expectations :
        LET accepts == Intact /\ (manifest # Absent => manifest.source = package.source) IN
        /\ Goes(p, [Idle EXCEPT !.stage = IF accepts THEN "check" ELSE "refused",
                                !.package = package, !.expected = expected,
                                !.owned = IF accepts THEN Owned ELSE NoFiles,
                                !.seen = [disk |-> disk, folders |-> folders, manifest |-> manifest]])
        /\ UNCHANGED folderVars
  BY DEF Begin
<1> DEFINE accepts == Intact /\ (manifest # Absent => manifest.source = package.source)
           stage == IF accepts THEN "check" ELSE "refused"
           owned == IF accepts THEN Owned ELSE NoFiles
           snapshot == [disk |-> disk, folders |-> folders, manifest |-> manifest]
           w == [Idle EXCEPT !.stage = stage, !.package = package, !.expected = expected,
                             !.owned = owned, !.seen = snapshot]
<1>2. Goes(p, w) /\ UNCHANGED folderVars
  BY <1>1
<1>3. snapshot \in Snapshots /\ stage \in {"check", "refused"}
  BY DEF FolderInv, Snapshots
<1>4. owned \in Parts /\ \A x \in DOMAIN owned : disk[x] = owned[x] /\ disk[x] # UserText
  <2>1. CASE ~accepts \/ manifest = Absent
    BY <2>1, PartFacts DEF Owned
  <2>2. CASE accepts /\ manifest # Absent
    <3>1. manifest \in Packages /\ owned = manifest.files
      BY <2>2 DEF Intact, Owned, FolderInv, Manifests
    <3>2. \A x \in DOMAIN owned : disk[x] = owned[x]
      BY <2>2 DEF Intact
    <3> HIDE DEF owned
    <3> QED
      BY <3>1, <3>2, PackageFacts
  <2> QED
    BY <2>1, <2>2
<1> HIDE DEF accepts, stage, owned, snapshot
<1>5. /\ w \in Publications /\ w.stage = stage /\ w.package = package
      /\ w.owned = owned /\ w.seen = snapshot /\ w.changed = {} /\ w.made = {}
  BY <1>3, <1>4, PartFacts DEF Idle, Publications, Stages
<1> HIDE DEF w
<1> QED
  BY <1>2, <1>3, <1>4, <1>5 DEF snapshot

LEMMA BeginKeepsFolder ==
  ASSUME FolderInv, NEW p \in Publishers, Begin(p)
  PROVE  FolderInv'
<1>1. PICK w \in Publications :
        /\ Goes(p, w) /\ w.stage \in {"check", "refused"} /\ w.package \in Packages
        /\ w.changed = {} /\ w.seen \in Snapshots
        /\ w.seen = [disk |-> disk, folders |-> folders, manifest |-> manifest]
        /\ \A x \in DOMAIN w.owned : disk[x] # UserText
  BY BeginFacts
<1>2. w.seen.disk = disk
  BY <1>1
<1>3. Known(w)
  BY <1>1, <1>2 DEF Known, Writing
<1>4. pub' \in [Publishers -> Publications] /\ \A q \in Publishers : Known(pub'[q])
  BY <1>1, <1>3, KnownByOne
<1> QED
  BY <1>4, BeginFacts DEF FolderInv, folderVars, HasFolder

\* Past the check, what a publication may write to and does not own is there
\* only as the text the caller expects.
LEMMA ProceedKeepsFolder ==
  ASSUME FolderInv, NEW p \in Publishers, Proceed(p)
  PROVE  FolderInv'
<1>1. At(p, "check") /\ ~Collides(p) /\ UNCHANGED folderVars
  BY DEF Proceed
<1>2. pub[p] \in Publications /\ Known(pub[p]) /\ disk \in [Paths -> Text]
  BY DEF FolderInv
<1>3. pub[p].package \in Packages
  BY <1>1, <1>2 DEF Known, At
<1>4. DOMAIN pub[p].owned \subseteq Paths /\ DOMAIN Files(p) \subseteq Paths
  BY <1>2, <1>3, PartFacts, PackageFacts DEF Publications, Files
<1>5. PICK w \in Publications :
        /\ Goes(p, w) /\ w.stage = "backup"
        /\ w.package = pub[p].package /\ w.owned = pub[p].owned /\ w.changed = pub[p].changed
        /\ w.seen \in Snapshots /\ w.seen.disk = Reread(pub[p])
  BY <1>2, ProceedFacts
<1>6. ASSUME NEW x \in Reach(w)
      PROVE  w.seen.disk[x] # UserText
  <2>1. x \in Paths
    BY <1>4, <1>5 DEF Reach, Files
  <2>2. CASE x \in DOMAIN pub[p].owned
    BY <1>1, <1>2, <1>5, <2>1, <2>2 DEF Reread, Known, At
  <2>3. CASE x \notin DOMAIN pub[p].owned
    <3>1. x \in DOMAIN Files(p) \ DOMAIN pub[p].owned
      BY <1>5, <2>3 DEF Reach, Files
    <3>2. disk[x] = Absent \/ disk[x] = pub[p].expected
      BY <1>1, <3>1 DEF Collides
    <3>3. pub[p].expected \in {Inline, Absent}
      BY <1>2, PackageAssumption DEF Publications, PackageAssumption
    <3>4. w.seen.disk[x] = disk[x]
      BY <1>5, <2>1, <2>3 DEF Reread
    <3> QED
      BY <3>2, <3>3, <3>4, PackageAssumption DEF PackageAssumption
  <2> QED
    BY <2>2, <2>3
<1>7. w.changed = {}
  BY <1>1, <1>2, <1>5 DEF Known, At
<1>8. Known(w)
  BY <1>3, <1>5, <1>6, <1>7 DEF Known, Reach
<1>9. pub' \in [Publishers -> Publications] /\ \A q \in Publishers : Known(pub'[q])
  BY <1>5, <1>8, KnownByOne
<1> QED
  BY <1>1, <1>9 DEF FolderInv, folderVars, HasFolder

LEMMA BackUpKeepsFolder ==
  ASSUME FolderInv, NEW p \in Publishers, BackUp(p)
  PROVE  FolderInv'
<1>1. At(p, "backup") /\ UNCHANGED folderVars
  BY DEF BackUp
<1>2. pub[p] \in Publications /\ Known(pub[p]) /\ disk \in [Paths -> Text]
  BY DEF FolderInv
<1>3. PICK w \in Publications :
        /\ Goes(p, w) /\ w.stage = "install" /\ w.package = pub[p].package
        /\ w.owned = pub[p].owned /\ w.changed = pub[p].changed /\ w.seen = pub[p].seen
  BY <1>2, BackUpFacts
<1>4. Known(w)
  BY <1>1, <1>2, <1>3 DEF Known, Reach, At, Writing
<1>5. pub' \in [Publishers -> Publications] /\ \A q \in Publishers : Known(pub'[q])
  BY <1>3, <1>4, KnownByOne
<1> QED
  BY <1>1, <1>5 DEF FolderInv, folderVars, HasFolder

LEMMA MakeFolderKeepsFolder ==
  ASSUME FolderInv, NEW p \in Publishers, MakeFolder(p)
  PROVE  FolderInv'
<1>1. PICK x \in Firsts(ToInstall(p)) :
        /\ ~HasFolder(x) /\ folders' = folders \cup {Folder[x]}
        /\ Writes(p, [pub[p] EXCEPT !.made = @ \cup {Folder[x]}])
        /\ UNCHANGED <<disk, manifest>>
  BY DEF MakeFolder
<1> DEFINE made == pub[p].made \cup {Folder[x]}
           w == [pub[p] EXCEPT !.made = made]
<1>2. pub[p] \in Publications /\ Known(pub[p]) /\ pub[p].stage = "install"
  BY DEF FolderInv, MakeFolder, At
<1>3. Folder[x] \in Parents
  <2>1. pub[p].package \in Packages
    BY <1>2 DEF Known
  <2>2. x \in Paths
    BY <1>1, <2>1, PackageFacts DEF Firsts, ToInstall, Files
  <2> QED
    BY <1>1, <2>2 DEF Parents, ParentsOf, HasFolder
<1>4. made \in SUBSET Parents
  BY <1>2, <1>3 DEF Publications
<1>5. Writes(p, w)
  BY <1>1
<1> HIDE DEF made
<1>6. /\ w \in Publications /\ w.stage = "install" /\ w.package = pub[p].package
      /\ w.owned = pub[p].owned /\ w.changed = pub[p].changed /\ w.seen = pub[p].seen
  BY <1>2, <1>4, NewMade
<1> HIDE DEF w
<1>7. Known(w)
  BY <1>2, <1>6 DEF Known, Reach, Writing
<1>8. pub' \in [Publishers -> Publications] /\ \A q \in Publishers : Known(pub'[q])
  BY <1>2, <1>5, <1>6, <1>7, KnownWrite DEF Writing
<1>9. folders' \in SUBSET Parents
  BY <1>1, <1>3 DEF FolderInv
<1> QED
  BY <1>1, <1>8, <1>9 DEF FolderInv, HasFolder

\* A change of what is noted to be changed.
LEMMA KnownChange ==
  ASSUME NEW w \in Publications, Known(w), w.stage \in Writing, NEW S, S \subseteq Reach(w),
         NEW v, v = [w EXCEPT !.changed = S]
  PROVE  v \in Publications /\ Known(v)
<1>1. w.package \in Packages
  BY DEF Known, Writing
<1>2. S \in SUBSET Paths
  BY <1>1, PackageFacts, PartFacts DEF Reach, Publications
<1>3. /\ v \in Publications /\ v.stage = w.stage /\ v.package = w.package /\ v.owned = w.owned
      /\ v.changed = S /\ v.seen = w.seen
  BY <1>2, NewChanged
<1> QED
  BY <1>3 DEF Known, Reach, Writing

LEMMA ReachFacts ==
  ASSUME NEW p \in Publishers, pub[p] \in Publications, Known(pub[p]), pub[p].stage \in Writing
  PROVE  /\ pub[p].package \in Packages /\ pub[p].seen \in Snapshots
         /\ Reach(pub[p]) \subseteq Paths /\ DOMAIN Files(p) \subseteq Reach(pub[p])
         /\ Obsolete(p) \subseteq Reach(pub[p])
         /\ pub[p].changed \subseteq Reach(pub[p])
         /\ \A x \in Reach(pub[p]) : pub[p].seen.disk[x] # UserText
<1>1. pub[p].package \in Packages
  BY DEF Known, Writing
<1>2. Reach(pub[p]) \subseteq Paths
  BY <1>1, PackageFacts, PartFacts DEF Reach, Publications
<1> QED
  BY <1>1, <1>2 DEF Reach, Files, Obsolete, Known, Writing

\* The three steps that change a file: it is in reach, and what it is made
\* to hold may be there.
LEMMA ChangeKeepsFolder ==
  ASSUME FolderInv, NEW p \in Publishers, ChangesFile(p)
  PROVE  /\ FolderInv'
         /\ pub[p].stage \in Writing
         /\ \E x \in Reach(pub[p]) : \E text \in Text : disk' = [disk EXCEPT ![x] = text]
<1>1. pub[p] \in Publications /\ Known(pub[p]) /\ disk \in [Paths -> Text]
  BY DEF FolderInv
<1>2. pub[p].stage \in Writing
  BY DEF ChangesFile, Install, Remove, RollBack, At, Writing
<1>3. /\ Reach(pub[p]) \subseteq Paths /\ DOMAIN Files(p) \subseteq Reach(pub[p])
      /\ Obsolete(p) \subseteq Reach(pub[p]) /\ pub[p].changed \subseteq Reach(pub[p])
      /\ pub[p].package \in Packages
  BY <1>1, <1>2, ReachFacts
<1>4. PICK x \in Reach(pub[p]), text \in Text :
        /\ disk' = [disk EXCEPT ![x] = text]
        /\ text # Absent => HasFolder(x)
        /\ UNCHANGED <<folders, manifest>>
        /\ \E S \in SUBSET Reach(pub[p]) :
             \/ Writes(p, [pub[p] EXCEPT !.changed = S])
             \/ Disturbs(p, [pub[p] EXCEPT !.changed = S])
  <2>1. CASE Install(p)
    <3>1. PICK x \in ToInstall(p) :
            /\ HasFolder(x) /\ disk' = [disk EXCEPT ![x] = Files(p)[x]]
            /\ Writes(p, [pub[p] EXCEPT !.changed = @ \cup {x}])
            /\ UNCHANGED <<folders, manifest>>
      BY <2>1 DEF Install, Firsts
    <3>2. x \in Reach(pub[p]) /\ Files(p)[x] \in Text /\ pub[p].changed \cup {x} \in SUBSET Reach(pub[p])
      BY <1>3, PackageFacts DEF ToInstall, Files, Text
    <3> QED
      BY <3>1, <3>2
  <2>2. CASE Remove(p)
    <3>1. PICK x \in ToRemove(p) :
            /\ disk' = [disk EXCEPT ![x] = Absent]
            /\ Writes(p, [pub[p] EXCEPT !.changed = @ \cup {x}])
            /\ UNCHANGED <<folders, manifest>>
      BY <2>2 DEF Remove, Firsts
    <3>2. x \in Reach(pub[p]) /\ Absent \in Text /\ pub[p].changed \cup {x} \in SUBSET Reach(pub[p])
      BY <1>3 DEF ToRemove, Text
    <3> QED
      BY <3>1, <3>2
  <2>3. CASE RollBack(p)
    <3>1. PICK x \in LastChanged(p) :
            /\ x \in DOMAIN pub[p].backups => HasFolder(x)
            /\ disk' = [disk EXCEPT ![x] = IF x \in DOMAIN pub[p].backups THEN pub[p].backups[x] ELSE Absent]
            /\ Disturbs(p, [pub[p] EXCEPT !.changed = @ \ {x}])
            /\ UNCHANGED <<folders, manifest>>
      BY <2>3 DEF RollBack
    <3>2. x \in pub[p].changed
      BY DEF LastChanged, Lasts
    <3>3. \A y \in DOMAIN pub[p].backups : pub[p].backups[y] \in Text
      BY <1>1, PartFacts DEF Publications, Text
    <3>4. x \in Reach(pub[p]) /\ Absent \in Text /\ pub[p].changed \ {x} \in SUBSET Reach(pub[p])
      BY <1>3, <3>2 DEF Text
    <3>5. CASE x \in DOMAIN pub[p].backups
      BY <3>1, <3>3, <3>4, <3>5
    <3>6. CASE x \notin DOMAIN pub[p].backups
      BY <3>1, <3>4, <3>6
    <3> QED
      BY <3>5, <3>6
  <2> QED
    BY <2>1, <2>2, <2>3 DEF ChangesFile
<1>5. pub' \in [Publishers -> Publications] /\ \A q \in Publishers : Known(pub'[q])
  <2>1. PICK S \in SUBSET Reach(pub[p]) :
          \/ Writes(p, [pub[p] EXCEPT !.changed = S])
          \/ Disturbs(p, [pub[p] EXCEPT !.changed = S])
    BY <1>4
  <2> DEFINE w == [pub[p] EXCEPT !.changed = S]
  <2>2. w \in Publications /\ Known(w)
    BY <1>1, <1>2, KnownChange
  <2>3. Writes(p, w) \/ Disturbs(p, w)
    BY <2>1
  <2> HIDE DEF w
  <2> QED
    BY <1>2, <2>2, <2>3, KnownWrite, KnownByOne
<1>6. disk' \in [Paths -> Text] /\ \A y \in Paths : disk'[y] # Absent => HasFolder(y)'
  BY <1>1, <1>3, <1>4 DEF FolderInv, HasFolder
<1>7. FolderInv'
  BY <1>4, <1>5, <1>6 DEF FolderInv
<1> QED
  BY <1>2, <1>4, <1>7

LEMMA CommitKeepsFolder ==
  ASSUME FolderInv, NEW p \in Publishers, Commit(p)
  PROVE  FolderInv'
<1> DEFINE w == [pub[p] EXCEPT !.stage = "clean"]
<1>1. /\ pub[p].stage = "remove" /\ Writes(p, w)
      /\ manifest' = pub[p].package /\ UNCHANGED <<disk, folders>>
  BY DEF Commit, At
<1>2. pub[p] \in Publications /\ Known(pub[p])
  BY DEF FolderInv
<1>3. w \in Publications /\ Known(w)
  BY <1>1, <1>2, KnownStage DEF Stages, Writing
<1> HIDE DEF w
<1>4. pub' \in [Publishers -> Publications] /\ \A q \in Publishers : Known(pub'[q])
  BY <1>1, <1>3, KnownWrite DEF Writing
<1>5. manifest' \in Manifests
  BY <1>1, <1>2 DEF Known, Manifests
<1> QED
  BY <1>1, <1>4, <1>5 DEF FolderInv, HasFolder

\* Only empty subfolders are removed.
LEMMA EmptiedKeepsFolder ==
  ASSUME FolderInv, NEW p \in Publishers, NEW s \in Stages \ Writing, s # "check", NEW S,
         folders' = folders \ S, \A f \in S : IsEmpty(f), UNCHANGED <<disk, manifest>>,
         Disturbs(p, [pub[p] EXCEPT !.stage = s]), pub[p].stage # "idle"
  PROVE  FolderInv'
<1> DEFINE w == [pub[p] EXCEPT !.stage = s]
<1>1. pub[p] \in Publications /\ Known(pub[p])
  BY DEF FolderInv
<1>2. w \in Publications /\ Known(w)
  BY <1>1, KnownStage
<1>3. Disturbs(p, w)
  OBVIOUS
<1> HIDE DEF w
<1>4. pub' \in [Publishers -> Publications] /\ \A q \in Publishers : Known(pub'[q])
  BY <1>2, <1>3, KnownByOne
<1>5. \A x \in Paths : disk'[x] # Absent => HasFolder(x)'
  BY DEF FolderInv, HasFolder, IsEmpty
<1> QED
  BY <1>4, <1>5 DEF FolderInv

LEMMA CrashKeepsFolder ==
  ASSUME FolderInv, NEW p \in Publishers, Crash(p)
  PROVE  FolderInv'
<1>1. Idle \in Publications /\ Idle.stage = "idle"
  BY PartFacts DEF Idle, Publications, Stages
<1>2. Known(Idle)
  BY <1>1 DEF Known, Writing
<1>3. Goes(p, Idle) /\ UNCHANGED folderVars
  BY DEF Crash
<1>4. pub' \in [Publishers -> Publications] /\ \A q \in Publishers : Known(pub'[q])
  BY <1>1, <1>2, <1>3, KnownByOne
<1> QED
  BY <1>3, <1>4 DEF FolderInv, folderVars, HasFolder

LEMMA OthersKeepFolder ==
  ASSUME FolderInv, WriteInline \/ Edit
  PROVE  FolderInv'
<1>1. pub' \in [Publishers -> Publications] /\ \A q \in Publishers : Known(pub'[q])
  <2>1. pub' = [q \in Publishers |-> [pub[q] EXCEPT !.alone = FALSE]]
    BY DEF WriteInline, Edit, Others
  <2>2. \A q \in Publishers : pub[q] \in Publications /\ Known(pub[q])
    BY DEF FolderInv
  <2>3. \A q \in Publishers : [pub[q] EXCEPT !.alone = FALSE] \in Publications
    BY <2>2, NotAlone
  <2> QED
    BY <2>1, <2>2, <2>3, KnownStays
<1>2. /\ disk' \in [Paths -> Text] /\ folders' \in SUBSET Parents /\ manifest' \in Manifests
      /\ \A x \in Paths : disk'[x] # Absent => HasFolder(x)'
  <2>1. Inline \in Text /\ UserText \in Text /\ Absent \in Text
    BY DEF Text, Contents
  <2>2. CASE WriteInline
    <3>1. PICK package \in Packages : disk' = [disk EXCEPT ![package.source] = Inline]
      BY <2>2 DEF WriteInline
    <3>2. UNCHANGED <<folders, manifest>>
      BY <2>2 DEF WriteInline
    <3>3. package.source \in Paths /\ Folder[package.source] = Root
      BY PackageFacts
    <3> QED
      BY <2>1, <3>1, <3>2, <3>3 DEF FolderInv, HasFolder
  <2>3. ASSUME NEW x \in Paths, disk' = [disk EXCEPT ![x] = UserText],
               folders' = folders \cup ({Folder[x]} \ {Root}), UNCHANGED manifest
        PROVE  /\ disk' \in [Paths -> Text] /\ folders' \in SUBSET Parents /\ manifest' \in Manifests
               /\ \A y \in Paths : disk'[y] # Absent => HasFolder(y)'
    BY <2>1, <2>3 DEF FolderInv, HasFolder, Parents, ParentsOf
  <2>4. CASE UNCHANGED folders /\ (\E x \in Paths : disk' = [disk EXCEPT ![x] = Absent]) /\ UNCHANGED manifest
    BY <2>1, <2>4 DEF FolderInv, HasFolder
  <2>5. CASE UNCHANGED <<disk, folders>> /\ manifest' \in {Foreign, Absent}
    BY <2>5 DEF FolderInv, HasFolder, Manifests
  <2>6. CASE Edit
    <3>1. \/ \E x \in Paths :
               disk' = [disk EXCEPT ![x] = UserText] /\ folders' = folders \cup ({Folder[x]} \ {Root}) /\ UNCHANGED manifest
          \/ UNCHANGED folders /\ (\E x \in Paths : disk' = [disk EXCEPT ![x] = Absent]) /\ UNCHANGED manifest
          \/ UNCHANGED <<disk, folders>> /\ manifest' \in {Foreign, Absent}
      BY <2>6 DEF Edit
    <3> QED
      BY <2>3, <2>4, <2>5, <3>1
  <2> QED
    BY <2>2, <2>6
<1> QED
  BY <1>1, <1>2 DEF FolderInv

LEMMA InitFolder ==
  ASSUME Init
  PROVE  FolderInv
<1>1. Idle \in Publications /\ Idle.stage = "idle"
  BY PartFacts DEF Idle, Publications, Stages
<1>2. Known(Idle)
  BY <1>1 DEF Known, Writing
<1>3. pub \in [Publishers -> Publications] /\ \A p \in Publishers : Known(pub[p])
  BY <1>1, <1>2 DEF Init
<1>4. disk \in [Paths -> Text] /\ folders \in SUBSET Parents /\ manifest \in Manifests
  BY DEF Init, Text, Manifests
<1> QED
  BY <1>3, <1>4 DEF FolderInv, Init

LEMMA NextFolder ==
  ASSUME FolderInv, [Next]_vars
  PROVE  FolderInv'
<1>1. CASE UNCHANGED vars
  BY <1>1 DEF vars, FolderInv, HasFolder
<1>2. CASE WriteInline \/ Edit
  BY <1>2, OthersKeepFolder
<1>3. ASSUME NEW p \in Publishers, Publish(p)
      PROVE  FolderInv'
  <2>1. CASE Begin(p)
    BY <2>1, BeginKeepsFolder
  <2>2. CASE Refuse(p) \/ FindPublished(p) \/ BackUpFails(p) \/ Installed(p) \/ WriteFails(p)
             \/ RollBackFails(p) \/ Staged(p)
    <3>1. PICK s \in Stages \ {"check"} :
            /\ Ends(p, s) /\ UNCHANGED folderVars
            /\ pub[p].stage # "idle" /\ (s \in Writing => pub[p].stage \in Writing)
      BY <2>2 DEF Refuse, FindPublished, BackUpFails, Installed, WriteFails, RollBackFails, Staged,
                  At, Stages, Writing
    <3> QED
      BY <3>1, KnownEnd
  <2>3. CASE Proceed(p)
    BY <2>3, ProceedKeepsFolder
  <2>4. CASE BackUp(p)
    BY <2>4, BackUpKeepsFolder
  <2>5. CASE MakeFolder(p)
    BY <2>5, MakeFolderKeepsFolder
  <2>6. CASE Commit(p)
    BY <2>6, CommitKeepsFolder
  <2>7. CASE ChangesFile(p)
    BY <2>7, ChangeKeepsFolder
  <2>8. CASE RolledBack(p)
    <3>1. /\ folders' = folders \ pub[p].made /\ \A f \in pub[p].made : IsEmpty(f)
          /\ UNCHANGED <<disk, manifest>> /\ Disturbs(p, [pub[p] EXCEPT !.stage = "restored"])
          /\ pub[p].stage # "idle"
      BY <2>8 DEF RolledBack, At
    <3>2. "restored" \in Stages \ Writing
      BY DEF Stages, Writing
    <3> QED
      BY <3>1, <3>2, EmptiedKeepsFolder
  <2>9. CASE CleanUp(p)
    <3>1. /\ folders' = folders \ Removable(p) /\ \A f \in Removable(p) : IsEmpty(f)
          /\ UNCHANGED <<disk, manifest>> /\ Disturbs(p, [pub[p] EXCEPT !.stage = "returned"])
          /\ pub[p].stage # "idle"
      BY <2>9 DEF CleanUp, At, Removable
    <3>2. "returned" \in Stages \ Writing
      BY DEF Stages, Writing
    <3> QED
      BY <3>1, <3>2, EmptiedKeepsFolder
  <2>10. CASE Crash(p)
    BY <2>10, CrashKeepsFolder
  <2> QED
    BY <1>3, <2>1, <2>2, <2>3, <2>4, <2>5, <2>6, <2>7, <2>8, <2>9, <2>10 DEF Publish
<1> QED
  BY <1>1, <1>2, <1>3 DEF Next

LEMMA FolderInvariant == Spec => []FolderInv
<1>1. Init => FolderInv
  BY InitFolder
<1>2. FolderInv /\ [Next]_vars => FolderInv'
  BY NextFolder
<1> QED
  BY <1>1, <1>2, PTL DEF Spec

\* The type invariant, and with it that every file is in a subfolder that is
\* there (mkdir, rmdir in publish_source_package).
THEOREM PublishTyped == Spec => []TypeOK
<1>1. ASSUME FolderInv
      PROVE  TypeOK
  <2>1. \A p \in Publishers : pub[p].stage \in Stages /\ pub[p].changed \subseteq Paths
    BY <1>1 DEF FolderInv, Publications
  <2> QED
    BY <1>1, <2>1 DEF FolderInv, TypeOK, Text, Manifests
<1> QED
  BY <1>1, FolderInvariant, PTL

\* No publication replaces or removes a file that held the user's text when it
\* read the folder (the collision checks of publish_source_package), whoever
\* else writes to the folder, whatever fails and wherever it is interrupted.
THEOREM PublishKeepsUserFiles == Spec => UserFilesKept
<1> DEFINE Kept == \A p \in Publishers : ChangesFile(p) =>
             \A x \in Paths : disk[x] = UserText /\ disk'[x] # UserText => pub[p].seen.disk[x] # UserText
<1>1. ASSUME FolderInv, NEW p \in Publishers, ChangesFile(p), NEW x \in Paths,
             disk[x] = UserText, disk'[x] # UserText
      PROVE  pub[p].seen.disk[x] # UserText
  <2>1. /\ pub[p] \in Publications /\ Known(pub[p]) /\ pub[p].stage \in Writing
        /\ disk \in [Paths -> Text]
    <3>1. \A q \in Publishers : pub[q] \in Publications /\ Known(pub[q])
      BY <1>1 DEF FolderInv
    <3>2. disk \in [Paths -> Text]
      BY <1>1 DEF FolderInv
    <3> QED
      BY <1>1, <3>1, <3>2, ChangeKeepsFolder
  <2>2. PICK y \in Reach(pub[p]), text \in Text : disk' = [disk EXCEPT ![y] = text]
    BY <1>1, ChangeKeepsFolder
  <2>3. x = y
    BY <1>1, <2>1, <2>2
  <2> QED
    BY <2>1, <2>2, <2>3, ReachFacts
<1>2. FolderInv /\ [Next]_vars => [Kept]_vars
  BY <1>1
<1> QED
  BY <1>2, FolderInvariant, PTL DEF Spec, UserFilesKept
-----------------------------------------------------------------------------
(* How publications end                                                    *)

\* What publication w makes of the files it may write to.
Target(w, x) == IF x \in DOMAIN w.package.files THEN w.package.files[x] ELSE Absent

\* Files d, subfolders f and manifest m are what the publication has read.
AsRead(w, d, f, m) == d = w.seen.disk /\ f = w.seen.folders /\ m = w.seen.manifest

\* They are that with the changes it has noted, each of which it can undo.
Undoable(w, d, f, m) ==
  /\ m = w.seen.manifest
  /\ \A x \in Paths : d[x] = IF x \in w.changed THEN Target(w, x) ELSE w.seen.disk[x]
  /\ f = w.seen.folders \cup w.made /\ w.made \cap w.seen.folders = {}
  /\ \A x \in Reach(w) :
       IF x \in DOMAIN w.backups THEN w.backups[x] = w.seen.disk[x] ELSE w.seen.disk[x] = Absent

\* They are what it publishes.
AsPublished(w, d, m) ==
  /\ m = w.package
  /\ \A x \in Paths : d[x] = IF x \in Reach(w) THEN Target(w, x) ELSE w.seen.disk[x]

\* The folder at every moment of a publication that is alone with it.
Undisturbed(w, d, f, m) ==
  w.alone =>
    /\ w.stage \in {"check", "backup", "refused", "restored"} => AsRead(w, d, f, m)
    /\ w.stage \in {"check", "backup"} => w.changed = {} /\ w.made = {}
    /\ w.stage = "check" => \A x \in DOMAIN w.owned : d[x] = w.owned[x]
    /\ w.stage = "backup" =>
         w.originals = DOMAIN w.owned \cup {x \in DOMAIN w.package.files : d[x] # Absent}
    /\ w.stage \in {"install", "remove", "rollback"} => Undoable(w, d, f, m)
    /\ w.stage = "remove" => DOMAIN w.package.files \subseteq w.changed
    /\ w.stage \in {"clean", "late", "returned"} => AsPublished(w, d, m)
    /\ w.stage = "returned" =>
         \A g \in ParentsOf(DOMAIN w.owned \ DOMAIN w.package.files) \cap f :
           \E x \in Paths : Folder[x] = g /\ d[x] # Absent

EndsInv == \A p \in Publishers : Undisturbed(pub[p], disk, folders, manifest)

LEMMA EndsByOne ==
  ASSUME FolderInv, EndsInv, NEW p \in Publishers, NEW w \in Publications,
         (Goes(p, w) /\ UNCHANGED folderVars) \/ Disturbs(p, w),
         Undisturbed(w, disk', folders', manifest')
  PROVE  EndsInv'
<1>1. pub \in [Publishers -> Publications]
  BY DEF FolderInv
<1>2. pub'[p] = w /\ \A q \in Publishers \ {p} :
        IF Goes(p, w) THEN pub'[q] = pub[q] ELSE pub'[q] = [pub[q] EXCEPT !.alone = FALSE]
  BY <1>1, OneMoves
<1>3. ASSUME NEW q \in Publishers \ {p}
      PROVE  Undisturbed(pub'[q], disk', folders', manifest')
  <2>1. CASE Goes(p, w) /\ UNCHANGED folderVars
    BY <1>2, <2>1 DEF EndsInv, folderVars
  <2>2. CASE Disturbs(p, w)
    <3>1. pub'[q] = [pub[q] EXCEPT !.alone = FALSE]
      BY <1>1, <2>2 DEF Disturbs
    <3>2. pub'[q].alone = FALSE
      BY <1>1, <3>1, NotAlone
    <3> QED
      BY <3>2 DEF Undisturbed
  <2> QED
    BY <2>1, <2>2
<1> QED
  BY <1>2, <1>3 DEF EndsInv

LEMMA BeginEnds ==
  ASSUME FolderInv, EndsInv, NEW p \in Publishers, Begin(p)
  PROVE  EndsInv'
<1>1. PICK w \in Publications :
        /\ Goes(p, w) /\ w.stage \in {"check", "refused"}
        /\ w.changed = {} /\ w.made = {}
        /\ w.seen = [disk |-> disk, folders |-> folders, manifest |-> manifest]
        /\ \A x \in DOMAIN w.owned : disk[x] = w.owned[x]
  BY BeginFacts
<1>2. UNCHANGED folderVars
  BY BeginFacts
<1>3. w.seen.disk = disk /\ w.seen.folders = folders /\ w.seen.manifest = manifest
  BY <1>1
<1>4. Undisturbed(w, disk', folders', manifest')
  BY <1>1, <1>2, <1>3 DEF Undisturbed, AsRead, folderVars
<1> QED
  BY <1>1, <1>2, <1>4, EndsByOne

\* The steps after which nothing has changed but the stage.
LEMMA StageEnds ==
  ASSUME FolderInv, EndsInv, NEW p \in Publishers, NEW s \in Stages, Ends(p, s), UNCHANGED folderVars,
         \/ s = "refused" /\ pub[p].stage \in {"check", "backup"}
         \/ s = "remove" /\ pub[p].stage = "install" /\ ToInstall(p) = {}
         \/ s = "rollback" /\ pub[p].stage \in {"install", "remove"}
         \/ s = "late" /\ pub[p].stage = "clean"
         \/ s = "broken"
  PROVE  EndsInv'
<1> DEFINE w == [pub[p] EXCEPT !.stage = s]
<1>1. Goes(p, w)
  BY DEF Ends
<1>2. pub[p] \in Publications /\ Undisturbed(pub[p], disk, folders, manifest)
  BY DEF FolderInv, EndsInv
<1>3. /\ w \in Publications /\ w.stage = s
      /\ w.package = pub[p].package /\ w.owned = pub[p].owned
      /\ w.originals = pub[p].originals /\ w.backups = pub[p].backups /\ w.changed = pub[p].changed
      /\ w.made = pub[p].made /\ w.seen = pub[p].seen /\ w.alone = pub[p].alone
  BY <1>2, NewStage
<1> HIDE DEF w
<1>4. s = "remove" => DOMAIN w.package.files \subseteq w.changed
  BY <1>3 DEF ToInstall, Files
<1>5. Undisturbed(w, disk, folders, manifest)
  BY <1>2, <1>3, <1>4 DEF Undisturbed, AsRead, Undoable, AsPublished, Target, Reach
<1> QED
  BY <1>1, <1>3, <1>5, EndsByOne DEF folderVars

LEMMA FindPublishedEnds ==
  ASSUME FolderInv, EndsInv, NEW p \in Publishers, FindPublished(p)
  PROVE  EndsInv'
<1> DEFINE w == [pub[p] EXCEPT !.stage = "returned"]
<1>1. Goes(p, w) /\ UNCHANGED folderVars /\ pub[p].stage = "check"
  BY DEF FindPublished, Ends, At
<1>2. /\ pub[p] \in Publications /\ Undisturbed(pub[p], disk, folders, manifest)
      /\ disk \in [Paths -> Text]
  BY DEF FolderInv, EndsInv
<1>3. /\ w \in Publications /\ w.stage = "returned"
      /\ w.package = pub[p].package /\ w.owned = pub[p].owned
      /\ w.seen = pub[p].seen /\ w.alone = pub[p].alone
  BY <1>2, NewStage DEF Stages
<1> HIDE DEF w
<1>4. w.package.files = w.owned /\ manifest = w.package
  BY <1>3 DEF FindPublished, IsPublished, Files
<1>5. ASSUME w.alone
      PROVE  AsPublished(w, disk, manifest)
  <2>1. /\ \A x \in DOMAIN w.owned : disk[x] = w.owned[x]
        /\ disk = w.seen.disk
    BY <1>1, <1>2, <1>3, <1>5 DEF Undisturbed, AsRead
  <2> QED
    BY <1>4, <2>1 DEF AsPublished, Reach, Target
<1>6. ParentsOf(DOMAIN w.owned \ DOMAIN w.package.files) = {}
  BY <1>4 DEF ParentsOf
<1>7. Undisturbed(w, disk, folders, manifest)
  BY <1>3, <1>5, <1>6 DEF Undisturbed
<1> QED
  BY <1>1, <1>3, <1>7, EndsByOne DEF folderVars

LEMMA ProceedEnds ==
  ASSUME FolderInv, EndsInv, NEW p \in Publishers, Proceed(p)
  PROVE  EndsInv'
<1>1. UNCHANGED folderVars /\ pub[p].stage = "check"
  BY DEF Proceed, At
<1>2. /\ pub[p] \in Publications /\ Known(pub[p]) /\ disk \in [Paths -> Text]
      /\ Undisturbed(pub[p], disk, folders, manifest)
  BY DEF FolderInv, EndsInv
<1>3. PICK w \in Publications :
        /\ Goes(p, w) /\ w.stage = "backup"
        /\ w.package = pub[p].package /\ w.owned = pub[p].owned /\ w.changed = pub[p].changed
        /\ w.made = pub[p].made /\ w.alone = pub[p].alone /\ w.seen \in Snapshots
        /\ w.originals = DOMAIN pub[p].owned \cup {x \in DOMAIN Files(p) : disk[x] # Absent}
        /\ w.seen.disk = Reread(pub[p])
        /\ w.seen.folders = pub[p].seen.folders /\ w.seen.manifest = pub[p].seen.manifest
  BY <1>2, ProceedFacts
<1>4. ASSUME w.alone
      PROVE  AsRead(w, disk, folders, manifest)
  <2>1. AsRead(pub[p], disk, folders, manifest)
    BY <1>1, <1>2, <1>3, <1>4 DEF Undisturbed
  <2>2. w.seen.disk = disk
    BY <1>2, <1>3, <2>1 DEF Reread, AsRead
  <2> QED
    BY <1>3, <2>1, <2>2 DEF AsRead
<1>5. w.alone => w.changed = {} /\ w.made = {}
  BY <1>1, <1>2, <1>3 DEF Undisturbed
<1>6. Undisturbed(w, disk, folders, manifest)
  BY <1>3, <1>4, <1>5 DEF Undisturbed, Files
<1> QED
  BY <1>1, <1>3, <1>6, EndsByOne DEF folderVars

LEMMA BackUpEnds ==
  ASSUME FolderInv, EndsInv, NEW p \in Publishers, BackUp(p)
  PROVE  EndsInv'
<1>1. UNCHANGED folderVars /\ pub[p].stage = "backup" /\ \A x \in pub[p].originals : disk[x] # Absent
  BY DEF BackUp, At
<1>2. /\ pub[p] \in Publications /\ Known(pub[p]) /\ disk \in [Paths -> Text]
      /\ Undisturbed(pub[p], disk, folders, manifest)
  BY DEF FolderInv, EndsInv
<1>3. PICK w \in Publications :
        /\ Goes(p, w) /\ w.stage = "install"
        /\ w.package = pub[p].package /\ w.owned = pub[p].owned /\ w.changed = pub[p].changed
        /\ w.made = pub[p].made /\ w.alone = pub[p].alone /\ w.seen = pub[p].seen
        /\ w.backups = [x \in pub[p].originals |-> disk[x]]
  BY <1>2, BackUpFacts
<1>4. ASSUME w.alone
      PROVE  Undoable(w, disk, folders, manifest)
  <2>1. /\ AsRead(pub[p], disk, folders, manifest) /\ w.changed = {} /\ w.made = {}
        /\ pub[p].originals = DOMAIN w.owned \cup {x \in DOMAIN w.package.files : disk[x] # Absent}
    BY <1>1, <1>2, <1>3, <1>4 DEF Undisturbed
  <2>2. ASSUME NEW x \in Reach(w)
        PROVE  IF x \in DOMAIN w.backups THEN w.backups[x] = w.seen.disk[x] ELSE w.seen.disk[x] = Absent
    <3>1. DOMAIN w.backups = pub[p].originals /\ w.seen.disk = disk
      BY <1>3, <2>1 DEF AsRead
    <3>2. CASE x \in pub[p].originals
      BY <1>3, <3>1, <3>2
    <3>3. CASE x \notin pub[p].originals
      BY <2>1, <3>1, <3>3 DEF Reach
    <3> QED
      BY <3>2, <3>3
  <2> QED
    BY <1>3, <2>1, <2>2 DEF Undoable, AsRead
<1>5. Undisturbed(w, disk, folders, manifest)
  BY <1>3, <1>4 DEF Undisturbed
<1> QED
  BY <1>1, <1>3, <1>5, EndsByOne DEF folderVars

LEMMA MakeFolderEnds ==
  ASSUME Interrupts = FALSE, FolderInv, EndsInv, NEW p \in Publishers, MakeFolder(p)
  PROVE  EndsInv'
<1>1. PICK x \in Firsts(ToInstall(p)) :
        /\ ~HasFolder(x) /\ folders' = folders \cup {Folder[x]}
        /\ Disturbs(p, [pub[p] EXCEPT !.made = @ \cup {Folder[x]}])
        /\ UNCHANGED <<disk, manifest>>
  BY DEF MakeFolder, Writes
<1> DEFINE made == pub[p].made \cup {Folder[x]}
           w == [pub[p] EXCEPT !.made = made]
<1>2. /\ pub[p] \in Publications /\ Known(pub[p]) /\ pub[p].stage = "install"
      /\ Undisturbed(pub[p], disk, folders, manifest)
  BY DEF FolderInv, EndsInv, MakeFolder, At
<1>3. made \in SUBSET Parents
  <2>1. pub[p].package \in Packages
    BY <1>2 DEF Known
  <2>2. x \in Paths
    BY <1>1, <2>1, PackageFacts DEF Firsts, ToInstall, Files
  <2>3. Folder[x] \in Parents
    BY <1>1, <2>2 DEF Parents, ParentsOf, HasFolder
  <2> QED
    BY <1>2, <2>3 DEF Publications
<1>4. Disturbs(p, w)
  BY <1>1
<1>5. /\ w \in Publications /\ w.stage = "install" /\ w.package = pub[p].package
      /\ w.owned = pub[p].owned /\ w.backups = pub[p].backups /\ w.changed = pub[p].changed
      /\ w.seen = pub[p].seen /\ w.alone = pub[p].alone /\ w.made = pub[p].made \cup {Folder[x]}
  BY <1>2, <1>3, NewMade
<1> HIDE DEF w, made
<1>6. ASSUME w.alone
      PROVE  Undoable(w, disk', folders', manifest')
  <2>1. Undoable(pub[p], disk, folders, manifest)
    BY <1>2, <1>5, <1>6 DEF Undisturbed
  <2>2. folders' = w.seen.folders \cup w.made /\ w.made \cap w.seen.folders = {}
    BY <1>1, <1>5, <2>1 DEF Undoable, HasFolder
  <2> QED
    BY <1>1, <1>5, <2>1, <2>2 DEF Undoable, Reach, Target
<1>7. Undisturbed(w, disk', folders', manifest')
  BY <1>5, <1>6 DEF Undisturbed
<1> QED
  BY <1>4, <1>5, <1>7, EndsByOne

\* A file is written or removed, and the change is noted.
LEMMA ChangeEnds ==
  ASSUME Interrupts = FALSE, FolderInv, EndsInv, NEW p \in Publishers, Install(p) \/ Remove(p)
  PROVE  EndsInv'
<1>1. /\ pub[p] \in Publications /\ Known(pub[p]) /\ pub[p].stage \in {"install", "remove"}
      /\ Undisturbed(pub[p], disk, folders, manifest) /\ disk \in [Paths -> Text]
  BY DEF FolderInv, EndsInv, Install, Remove, At
<1>2. PICK x \in Reach(pub[p]) :
        /\ disk' = [disk EXCEPT ![x] = Target(pub[p], x)]
        /\ Disturbs(p, [pub[p] EXCEPT !.changed = @ \cup {x}])
        /\ UNCHANGED <<folders, manifest>>
  <2>1. CASE Install(p)
    <3>1. PICK x \in ToInstall(p) :
            /\ disk' = [disk EXCEPT ![x] = Files(p)[x]]
            /\ Disturbs(p, [pub[p] EXCEPT !.changed = @ \cup {x}])
            /\ UNCHANGED <<folders, manifest>>
      BY <2>1 DEF Install, Firsts, Writes
    <3>2. x \in Reach(pub[p]) /\ Target(pub[p], x) = Files(p)[x]
      BY <3>1 DEF ToInstall, Reach, Target, Files
    <3> QED
      BY <3>1, <3>2
  <2>2. CASE Remove(p)
    <3>1. PICK x \in ToRemove(p) :
            /\ disk' = [disk EXCEPT ![x] = Absent]
            /\ Disturbs(p, [pub[p] EXCEPT !.changed = @ \cup {x}])
            /\ UNCHANGED <<folders, manifest>>
      BY <2>2 DEF Remove, Firsts, Writes
    <3>2. x \in Reach(pub[p]) /\ Target(pub[p], x) = Absent
      BY <3>1 DEF ToRemove, Obsolete, Reach, Target, Files
    <3> QED
      BY <3>1, <3>2
  <2> QED
    BY <2>1, <2>2
<1> DEFINE changed == pub[p].changed \cup {x}
           w == [pub[p] EXCEPT !.changed = changed]
<1>3. Reach(pub[p]) \subseteq Paths /\ pub[p].changed \subseteq Reach(pub[p])
  BY <1>1, ReachFacts DEF Writing
<1>4. changed \in SUBSET Paths
  BY <1>3
<1>5. Disturbs(p, w)
  BY <1>2
<1> HIDE DEF changed
<1>6. /\ w \in Publications /\ w.stage = pub[p].stage /\ w.package = pub[p].package
      /\ w.owned = pub[p].owned /\ w.backups = pub[p].backups /\ w.seen = pub[p].seen
      /\ w.made = pub[p].made /\ w.alone = pub[p].alone /\ w.changed = pub[p].changed \cup {x}
  <2>1. pub[p] \in Publications
    BY <1>1
  <2>2. /\ w \in Publications /\ w.stage = pub[p].stage /\ w.package = pub[p].package
        /\ w.owned = pub[p].owned /\ w.backups = pub[p].backups /\ w.seen = pub[p].seen
        /\ w.made = pub[p].made /\ w.alone = pub[p].alone /\ w.changed = changed
    BY <1>4, <2>1, NewChanged
  <2> QED
    BY <2>2 DEF changed
<1> HIDE DEF w
<1>7. ASSUME w.alone
      PROVE  Undoable(w, disk', folders', manifest')
  <2>1. Undoable(pub[p], disk, folders, manifest)
    BY <1>1, <1>6, <1>7 DEF Undisturbed
  <2>2. ASSUME NEW y \in Paths
        PROVE  disk'[y] = IF y \in w.changed THEN Target(w, y) ELSE w.seen.disk[y]
    <3>1. disk[y] = IF y \in pub[p].changed THEN Target(w, y) ELSE w.seen.disk[y]
      BY <1>6, <2>1 DEF Undoable, Target
    <3>2. Target(pub[p], x) = Target(w, x)
      BY <1>6 DEF Target
    <3> QED
      BY <1>1, <1>2, <1>3, <1>6, <3>1, <3>2
  <2> QED
    BY <1>2, <1>6, <2>1, <2>2 DEF Undoable, Reach
<1>8. w.alone /\ w.stage = "remove" => DOMAIN w.package.files \subseteq w.changed
  BY <1>1, <1>6 DEF Undisturbed
<1>9. Undisturbed(w, disk', folders', manifest')
  BY <1>1, <1>6, <1>7, <1>8 DEF Undisturbed
<1> QED
  BY <1>5, <1>6, <1>9, EndsByOne

LEMMA CommitEnds ==
  ASSUME Interrupts = FALSE, FolderInv, EndsInv, NEW p \in Publishers, Commit(p)
  PROVE  EndsInv'
<1> DEFINE w == [pub[p] EXCEPT !.stage = "clean"]
<1>1. /\ pub[p].stage = "remove" /\ ToRemove(p) = {} /\ Disturbs(p, w)
      /\ manifest' = pub[p].package /\ UNCHANGED <<disk, folders>>
  BY DEF Commit, At, Writes
<1>2. /\ pub[p] \in Publications /\ Known(pub[p])
      /\ Undisturbed(pub[p], disk, folders, manifest)
  BY DEF FolderInv, EndsInv
<1>3. /\ w \in Publications /\ w.stage = "clean" /\ w.package = pub[p].package
      /\ w.owned = pub[p].owned /\ w.changed = pub[p].changed /\ w.seen = pub[p].seen
      /\ w.alone = pub[p].alone
  BY <1>2, NewStage DEF Stages
<1> HIDE DEF w
<1>4. ASSUME w.alone
      PROVE  AsPublished(w, disk', manifest')
  <2>1. Undoable(pub[p], disk, folders, manifest) /\ DOMAIN w.package.files \subseteq w.changed
    BY <1>1, <1>2, <1>3, <1>4 DEF Undisturbed
  <2>2. w.changed = Reach(w)
    BY <1>1, <1>2, <1>3, <2>1 DEF Known, Writing, Reach, ToRemove, Obsolete, Files
  <2> QED
    BY <1>1, <1>3, <2>1, <2>2 DEF Undoable, AsPublished, Target
<1>5. Undisturbed(w, disk', folders', manifest')
  BY <1>3, <1>4 DEF Undisturbed
<1> QED
  BY <1>1, <1>3, <1>5, EndsByOne

\* The last change is undone.
LEMMA RollBackEnds ==
  ASSUME FolderInv, EndsInv, NEW p \in Publishers, RollBack(p)
  PROVE  EndsInv'
<1>1. /\ pub[p] \in Publications /\ Known(pub[p]) /\ pub[p].stage = "rollback"
      /\ Undisturbed(pub[p], disk, folders, manifest) /\ disk \in [Paths -> Text]
  BY DEF FolderInv, EndsInv, RollBack, At
<1>2. PICK x \in pub[p].changed :
        /\ disk' = [disk EXCEPT ![x] = IF x \in DOMAIN pub[p].backups THEN pub[p].backups[x] ELSE Absent]
        /\ Disturbs(p, [pub[p] EXCEPT !.changed = @ \ {x}])
        /\ UNCHANGED <<folders, manifest>>
  BY DEF RollBack, LastChanged, Lasts
<1> DEFINE changed == pub[p].changed \ {x}
           w == [pub[p] EXCEPT !.changed = changed]
<1>3. Reach(pub[p]) \subseteq Paths /\ pub[p].changed \subseteq Reach(pub[p])
  BY <1>1, ReachFacts DEF Writing
<1>4. changed \in SUBSET Paths
  BY <1>3
<1>5. Disturbs(p, w)
  BY <1>2
<1>6. /\ w \in Publications /\ w.stage = "rollback" /\ w.package = pub[p].package
      /\ w.owned = pub[p].owned /\ w.backups = pub[p].backups /\ w.seen = pub[p].seen
      /\ w.made = pub[p].made /\ w.alone = pub[p].alone /\ w.changed = pub[p].changed \ {x}
  BY <1>1, <1>4, NewChanged
<1> HIDE DEF w, changed
<1>7. ASSUME w.alone
      PROVE  Undoable(w, disk', folders', manifest')
  <2>1. Undoable(pub[p], disk, folders, manifest)
    BY <1>1, <1>6, <1>7 DEF Undisturbed
  <2>2. disk'[x] = w.seen.disk[x]
    BY <1>1, <1>2, <1>3, <1>6, <2>1 DEF Undoable
  <2>3. ASSUME NEW y \in Paths
        PROVE  disk'[y] = IF y \in w.changed THEN Target(w, y) ELSE w.seen.disk[y]
    <3>1. disk[y] = IF y \in pub[p].changed THEN Target(w, y) ELSE w.seen.disk[y]
      BY <1>6, <2>1 DEF Undoable, Target
    <3>2. CASE y = x
      BY <1>6, <2>2, <3>2
    <3>3. CASE y # x
      BY <1>1, <1>2, <1>6, <3>1, <3>3
    <3> QED
      BY <3>2, <3>3
  <2> QED
    BY <1>2, <1>6, <2>1, <2>3 DEF Undoable, Reach
<1>8. Undisturbed(w, disk', folders', manifest')
  BY <1>6, <1>7 DEF Undisturbed
<1> QED
  BY <1>5, <1>6, <1>8, EndsByOne

LEMMA RolledBackEnds ==
  ASSUME FolderInv, EndsInv, NEW p \in Publishers, RolledBack(p)
  PROVE  EndsInv'
<1> DEFINE w == [pub[p] EXCEPT !.stage = "restored"]
<1>1. /\ pub[p].stage = "rollback" /\ pub[p].changed = {}
      /\ folders' = folders \ pub[p].made /\ Disturbs(p, w) /\ UNCHANGED <<disk, manifest>>
  BY DEF RolledBack, At
<1>2. /\ pub[p] \in Publications /\ Known(pub[p]) /\ disk \in [Paths -> Text]
      /\ Undisturbed(pub[p], disk, folders, manifest)
  BY DEF FolderInv, EndsInv
<1>3. /\ w \in Publications /\ w.stage = "restored" /\ w.seen = pub[p].seen /\ w.alone = pub[p].alone
  BY <1>2, NewStage DEF Stages
<1> HIDE DEF w
<1>4. ASSUME w.alone
      PROVE  AsRead(w, disk', folders', manifest')
  <2>1. Undoable(pub[p], disk, folders, manifest)
    BY <1>1, <1>2, <1>3, <1>4 DEF Undisturbed
  <2>2. \A x \in Paths : disk[x] = w.seen.disk[x]
    BY <1>1, <1>3, <2>1 DEF Undoable
  <2>3. w.seen.disk \in [Paths -> Text]
    BY <1>1, <1>2, <1>3 DEF Known, Snapshots
  <2>4. disk = w.seen.disk
    BY <1>2, <2>2, <2>3
  <2> QED
    BY <1>1, <1>3, <2>1, <2>4 DEF Undoable, AsRead
<1>5. Undisturbed(w, disk', folders', manifest')
  BY <1>3, <1>4 DEF Undisturbed
<1> QED
  BY <1>1, <1>3, <1>5, EndsByOne

LEMMA CleanUpEnds ==
  ASSUME FolderInv, EndsInv, NEW p \in Publishers, CleanUp(p)
  PROVE  EndsInv'
<1> DEFINE w == [pub[p] EXCEPT !.stage = "returned"]
<1>1. /\ pub[p].stage = "clean" /\ folders' = folders \ Removable(p)
      /\ Disturbs(p, w) /\ UNCHANGED <<disk, manifest>>
  BY DEF CleanUp, At
<1>2. /\ pub[p] \in Publications /\ Undisturbed(pub[p], disk, folders, manifest)
  BY DEF FolderInv, EndsInv
<1>3. /\ w \in Publications /\ w.stage = "returned" /\ w.package = pub[p].package
      /\ w.owned = pub[p].owned /\ w.seen = pub[p].seen /\ w.alone = pub[p].alone
  BY <1>2, NewStage DEF Stages
<1> HIDE DEF w
<1>4. ASSUME w.alone
      PROVE  AsPublished(w, disk', manifest')
  <2>1. AsPublished(pub[p], disk, manifest)
    BY <1>1, <1>2, <1>3, <1>4 DEF Undisturbed
  <2> QED
    BY <1>1, <1>3, <2>1 DEF AsPublished, Reach, Target
<1>5. ASSUME NEW g \in ParentsOf(DOMAIN w.owned \ DOMAIN w.package.files) \cap folders'
      PROVE  \E x \in Paths : Folder[x] = g /\ disk'[x] # Absent
  <2>1. g \in ParentsOf(Obsolete(p)) /\ g \notin Removable(p)
    BY <1>1, <1>3 DEF Obsolete, Files
  <2> QED
    BY <1>1, <2>1 DEF Removable, IsEmpty
<1>6. Undisturbed(w, disk', folders', manifest')
  BY <1>3, <1>4, <1>5 DEF Undisturbed
<1> QED
  BY <1>1, <1>3, <1>6, EndsByOne

LEMMA CrashEnds ==
  ASSUME FolderInv, EndsInv, NEW p \in Publishers, Crash(p)
  PROVE  EndsInv'
<1>1. Idle \in Publications /\ Idle.stage = "idle"
  BY PartFacts DEF Idle, Publications, Stages
<1>2. Undisturbed(Idle, disk', folders', manifest')
  BY <1>1 DEF Undisturbed
<1> QED
  BY <1>1, <1>2, EndsByOne DEF Crash

LEMMA OthersEnd ==
  ASSUME FolderInv, WriteInline \/ Edit
  PROVE  EndsInv'
<1>1. pub' = [q \in Publishers |-> [pub[q] EXCEPT !.alone = FALSE]]
  BY DEF WriteInline, Edit, Others
<1>2. \A q \in Publishers : pub'[q].alone = FALSE
  BY <1>1, NotAlone DEF FolderInv
<1> QED
  BY <1>2 DEF EndsInv, Undisturbed

LEMMA InitEnds ==
  ASSUME Init
  PROVE  EndsInv
<1>1. Idle.stage = "idle"
  BY DEF Idle
<1>2. \A p \in Publishers : pub[p].stage = "idle"
  BY <1>1 DEF Init
<1> QED
  BY <1>2 DEF EndsInv, Undisturbed

LEMMA NextEnds ==
  ASSUME Interrupts = FALSE, FolderInv, EndsInv, [Next]_vars
  PROVE  EndsInv'
<1>1. CASE UNCHANGED vars
  BY <1>1 DEF vars, EndsInv
<1>2. CASE WriteInline \/ Edit
  BY <1>2, OthersEnd
<1>3. ASSUME NEW p \in Publishers, Publish(p)
      PROVE  EndsInv'
  <2>1. CASE Begin(p)
    BY <2>1, BeginEnds
  <2>2. CASE Refuse(p) \/ BackUpFails(p) \/ Installed(p) \/ WriteFails(p) \/ RollBackFails(p) \/ Staged(p)
    <3>1. PICK s \in Stages :
            /\ Ends(p, s) /\ UNCHANGED folderVars
            /\ \/ s = "refused" /\ pub[p].stage \in {"check", "backup"}
               \/ s = "remove" /\ pub[p].stage = "install" /\ ToInstall(p) = {}
               \/ s = "rollback" /\ pub[p].stage \in {"install", "remove"}
               \/ s = "late" /\ pub[p].stage = "clean"
               \/ s = "broken"
      BY <2>2 DEF Refuse, BackUpFails, Installed, WriteFails, RollBackFails, Staged, At, Stages
    <3> QED
      BY <3>1, StageEnds
  <2>3. CASE FindPublished(p)
    BY <2>3, FindPublishedEnds
  <2>4. CASE Proceed(p)
    BY <2>4, ProceedEnds
  <2>5. CASE BackUp(p)
    BY <2>5, BackUpEnds
  <2>6. CASE MakeFolder(p)
    BY <2>6, MakeFolderEnds
  <2>7. CASE Install(p) \/ Remove(p)
    BY <2>7, ChangeEnds
  <2>8. CASE Commit(p)
    BY <2>8, CommitEnds
  <2>9. CASE RollBack(p)
    BY <2>9, RollBackEnds
  <2>10. CASE RolledBack(p)
    BY <2>10, RolledBackEnds
  <2>11. CASE CleanUp(p)
    BY <2>11, CleanUpEnds
  <2>12. CASE Crash(p)
    BY <2>12, CrashEnds
  <2> QED
    BY <1>3, <2>1, <2>2, <2>3, <2>4, <2>5, <2>6, <2>7, <2>8, <2>9, <2>10, <2>11, <2>12
    DEF Publish, ChangesFile
<1> QED
  BY <1>1, <1>2, <1>3 DEF Next

\* Whatever step of a publication fails, it ends with the folder as it was or
\* as it shall be (the rollback and the order of publish_source_package), as
\* long as nobody else writes to the folder, no interrupt falls between a
\* change and its note, and the rollback itself does not fail.
THEOREM PublishEndsOldOrNew ==
  ASSUME Interrupts = FALSE
  PROVE  Spec => []EndsOldOrNew
<1>1. ASSUME FolderInv, EndsInv
      PROVE  EndsOldOrNew
  <2>1. SUFFICES ASSUME NEW p \in Publishers, pub[p].alone
                 PROVE  /\ pub[p].stage \in {"refused", "restored"} => IsOld(p)
                        /\ pub[p].stage \in {"returned", "late"} => IsNew(p)
                        /\ pub[p].stage = "returned" =>
                             \A f \in ParentsOf(Obsolete(p)) \cap folders : ~IsEmpty(f)
    BY DEF EndsOldOrNew
  <2>2. /\ Undisturbed(pub[p], disk, folders, manifest) /\ Known(pub[p])
        /\ disk \in [Paths -> Text]
    BY <1>1 DEF EndsInv, FolderInv
  <2>3. ASSUME pub[p].stage \in {"refused", "restored"}
        PROVE  IsOld(p)
    <3>1. AsRead(pub[p], disk, folders, manifest) /\ pub[p].seen \in Snapshots
      BY <2>1, <2>2, <2>3 DEF Undisturbed, Known
    <3> QED
      BY <3>1 DEF AsRead, IsOld, Snapshots
  <2>4. ASSUME pub[p].stage \in {"returned", "late"}
        PROVE  IsNew(p)
    <3>1. AsPublished(pub[p], disk, manifest)
      BY <2>1, <2>2, <2>4 DEF Undisturbed
    <3>2. disk = [x \in Paths |-> disk[x]]
      BY <2>2
    <3>3. \A x \in Paths : disk[x] = IF x \in DOMAIN Files(p) THEN Files(p)[x]
                                     ELSE IF x \in Obsolete(p) THEN Absent ELSE pub[p].seen.disk[x]
      BY <3>1 DEF AsPublished, Reach, Target, Files, Obsolete
    <3>4. disk = [x \in Paths |-> IF x \in DOMAIN Files(p) THEN Files(p)[x]
                                  ELSE IF x \in Obsolete(p) THEN Absent ELSE pub[p].seen.disk[x]]
      BY <3>2, <3>3
    <3> QED
      BY <3>1, <3>4 DEF AsPublished, IsNew
  <2>5. pub[p].stage = "returned" => \A f \in ParentsOf(Obsolete(p)) \cap folders : ~IsEmpty(f)
    BY <2>1, <2>2 DEF Undisturbed, Obsolete, Files, IsEmpty
  <2> QED
    BY <2>3, <2>4, <2>5
<1>2. Init => EndsInv
  BY InitEnds
<1>3. FolderInv /\ EndsInv /\ [Next]_vars => EndsInv'
  BY NextEnds
<1> QED
  BY <1>1, <1>2, <1>3, FolderInvariant, PTL DEF Spec

=============================================================================
