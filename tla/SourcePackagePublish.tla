------------------------ MODULE SourcePackagePublish -------------------------
(***************************************************************************)
(* Publication of a source package into the folder of a target             *)
(* (amiga_reversing/disasm/source_package_publish.py).                     *)
(*                                                                         *)
(* A package is a canonical source with companions.  The manifest in the   *)
(* folder names the files the publisher owns; it is replaced last.  Every  *)
(* call that touches the folder is a step, and each can fail: what was     *)
(* changed is then rolled back from copies.  Publications run in processes *)
(* of their own without a common lock, and the user edits the folder at    *)
(* any time.                                                               *)
(***************************************************************************)
EXTENDS Naturals

CONSTANTS
  Publishers,      \* processes that publish
  Paths,           \* files of the folder, numbered in the order of a package
  Folder,          \* the subfolder of each path, or Root
  Root,
  Packages,        \* what is published: [source, files]
  Inline,          \* the source text without a package
  Expectations,    \* the source text the callers expect, Absent for none
  UserText,        \* what the user writes
  Absent,          \* no such file, no manifest
  Foreign,         \* a manifest the publisher did not write
  Interrupts,      \* may the process be interrupted between two statements
  MaxPublications, \* bound
  MaxEdits         \* bound

VARIABLES
  disk,        \* the files of the folder
  folders,     \* its subfolders
  manifest,    \* source-package-manifest.json: the package it lists
  pub,         \* what each publisher is doing
  begun,       \* publications so far
  edits        \* edits of the user so far

vars == <<disk, folders, manifest, pub, begun, edits>>
folderVars == <<disk, folders, manifest>>

Contents == (UNION {{p.files[x] : x \in DOMAIN p.files} : p \in Packages}) \cup {Inline, UserText}
NoFiles == [x \in {} |-> Absent]
Stages == {"idle", "check", "backup", "install", "remove", "rollback", "clean",
           "returned", "refused", "restored", "late", "broken"}
Ended == {"returned", "refused", "restored", "late", "broken"}

PackageAssumption ==
  /\ Paths \subseteq Nat /\ Expectations \subseteq {Inline, Absent} /\ Interrupts \in BOOLEAN
  /\ \A p \in Packages :
       /\ p.files \in [DOMAIN p.files -> Contents] /\ DOMAIN p.files \subseteq Paths
       /\ p.source \in DOMAIN p.files /\ Folder[p.source] = Root
  /\ UserText \notin {Absent, Inline}
  /\ {Absent, Inline, UserText} \cap UNION {{p.files[x] : x \in DOMAIN p.files} : p \in Packages} = {}
ASSUME PackageAssumption

ParentsOf(S) == {Folder[x] : x \in S} \ {Root}
IsEmpty(f) == \A x \in Paths : Folder[x] = f => disk[x] = Absent

\* "seen" and "alone" are for the properties: what the publication has read of
\* the folder, and whether nobody else has written to it since.
Idle == [stage |-> "idle", package |-> Absent, expected |-> Absent, owned |-> NoFiles,
         originals |-> {}, backups |-> NoFiles, changed |-> {}, made |-> {},
         seen |-> Absent, alone |-> TRUE]

Init ==
  /\ disk = [x \in Paths |-> Absent] /\ folders = {} /\ manifest = Absent
  /\ pub = [p \in Publishers |-> Idle]
  /\ begun = 0 /\ edits = 0

\* A step of p that leaves the folder alone; one that changes it and then
\* notes the change for the rollback, unless an interrupt comes between.
Goes(p, record) == pub' = [pub EXCEPT ![p] = record]
Disturbs(p, record) ==
  pub' = [q \in Publishers |-> IF q = p THEN record ELSE [pub[q] EXCEPT !.alone = FALSE]]
Writes(p, noted) ==
  \/ Disturbs(p, noted)
  \/ Interrupts /\ Disturbs(p, [pub[p] EXCEPT !.stage = "rollback"])
At(p, stage) == pub[p].stage = stage
Files(p) == pub[p].package.files
Obsolete(p) == DOMAIN pub[p].owned \ DOMAIN Files(p)
Ends(p, stage) == Goes(p, [pub[p] EXCEPT !.stage = stage]) /\ UNCHANGED <<begun, edits>>

---------------------------------------------------------------------------
(* Reading the folder                                                      *)

\* _previous: the files the manifest lists, if each is as it was published
Owned == IF manifest = Absent THEN NoFiles ELSE manifest.files
Intact == manifest # Foreign /\ \A x \in DOMAIN Owned : disk[x] = Owned[x]

Begin(p) ==
  \E package \in Packages, expected \in Expectations :
    LET accepts == Intact /\ (manifest # Absent => manifest.source = package.source) IN
    /\ pub[p].stage \in Ended \cup {"idle"} /\ begun < MaxPublications
    /\ begun' = begun + 1
    /\ Goes(p, [Idle EXCEPT !.stage = IF accepts THEN "check" ELSE "refused",
                            !.package = package, !.expected = expected,
                            !.owned = IF accepts THEN Owned ELSE NoFiles,
                            !.seen = [disk |-> disk, folders |-> folders, manifest |-> manifest]])
    /\ UNCHANGED <<folderVars, edits>>

\* What a check would be that trusts the canonical source to be generated.
CollidesBeside(p) ==
  \E x \in DOMAIN Files(p) \ DOMAIN pub[p].owned : disk[x] # Absent /\ x # pub[p].package.source

\* A file that is there and not owned may only be the canonical source, with
\* the text the caller expects.
Collides(p) ==
  \E x \in DOMAIN Files(p) \ DOMAIN pub[p].owned :
    disk[x] # Absent /\ (x # pub[p].package.source \/ disk[x] # pub[p].expected)
IsPublished(p) == Files(p) = pub[p].owned /\ manifest = pub[p].package

\* The manifest to compare with has gone since.
CannotCompare(p) == Files(p) = pub[p].owned /\ manifest = Absent
Refuse(p) ==
  At(p, "check") /\ (Collides(p) \/ CannotCompare(p)) /\ Ends(p, "refused") /\ UNCHANGED folderVars
FindPublished(p) ==
  At(p, "check") /\ ~Collides(p) /\ IsPublished(p) /\ Ends(p, "returned") /\ UNCHANGED folderVars
Proceed(p) ==
  /\ At(p, "check") /\ ~Collides(p) /\ ~CannotCompare(p) /\ ~IsPublished(p)
  /\ Goes(p, [pub[p] EXCEPT !.stage = "backup",
                            !.seen.disk = [x \in Paths |-> IF x \in DOMAIN pub[p].owned THEN @[x] ELSE disk[x]],
                            !.originals = DOMAIN pub[p].owned \cup {x \in DOMAIN Files(p) : disk[x] # Absent}])
  /\ UNCHANGED <<folderVars, begun, edits>>

---------------------------------------------------------------------------
(* Writing it                                                              *)

\* Everything new and a copy of everything old is staged first.
BackUp(p) ==
  /\ At(p, "backup") /\ \A x \in pub[p].originals : disk[x] # Absent
  /\ Goes(p, [pub[p] EXCEPT !.stage = "install", !.backups = [x \in pub[p].originals |-> disk[x]]])
  /\ UNCHANGED <<folderVars, begun, edits>>
BackUpFails(p) == At(p, "backup") /\ Ends(p, "refused") /\ UNCHANGED folderVars

ToInstall(p) == DOMAIN Files(p) \ pub[p].changed
ToRemove(p) == Obsolete(p) \ pub[p].changed
HasFolder(x) == Folder[x] \in folders \cup {Root}
Firsts(S) == {x \in S : \A y \in S : x <= y}
Lasts(S) == {x \in S : \A y \in S : y <= x}

MakeFolder(p) ==
  At(p, "install") /\ \E x \in Firsts(ToInstall(p)) :
    /\ ~HasFolder(x)
    /\ folders' = folders \cup {Folder[x]}
    /\ Writes(p, [pub[p] EXCEPT !.made = @ \cup {Folder[x]}])
    /\ UNCHANGED <<disk, manifest, begun, edits>>

Install(p) ==
  At(p, "install") /\ \E x \in Firsts(ToInstall(p)) :
    /\ HasFolder(x)
    /\ disk' = [disk EXCEPT ![x] = Files(p)[x]]
    /\ Writes(p, [pub[p] EXCEPT !.changed = @ \cup {x}])
    /\ UNCHANGED <<folders, manifest, begun, edits>>
Installed(p) == At(p, "install") /\ ToInstall(p) = {} /\ Ends(p, "remove") /\ UNCHANGED folderVars

\* What a removal would be that the rollback does not know of.
RemoveUnnoted(p) ==
  At(p, "remove") /\ \E x \in Firsts(ToRemove(p)) :
    /\ disk[x] # Absent
    /\ disk' = [disk EXCEPT ![x] = Absent]
    /\ Writes(p, [pub[p] EXCEPT !.owned = [y \in DOMAIN @ \ {x} |-> @[y]]])
    /\ UNCHANGED <<folders, manifest, begun, edits>>

Remove(p) ==
  At(p, "remove") /\ \E x \in Firsts(ToRemove(p)) :
    /\ disk[x] # Absent
    /\ disk' = [disk EXCEPT ![x] = Absent]
    /\ Writes(p, [pub[p] EXCEPT !.changed = @ \cup {x}])
    /\ UNCHANGED <<folders, manifest, begun, edits>>

\* The new inventory becomes authoritative only after every write.
Commit(p) ==
  /\ At(p, "remove") /\ ToRemove(p) = {}
  /\ manifest' = pub[p].package
  /\ Writes(p, [pub[p] EXCEPT !.stage = "clean"])
  /\ UNCHANGED <<disk, folders, begun, edits>>

\* mkdir, os.replace or unlink raises; a file to be removed may be gone.
WriteFails(p) == pub[p].stage \in {"install", "remove"} /\ Ends(p, "rollback") /\ UNCHANGED folderVars

---------------------------------------------------------------------------
(* Rolling back and cleaning up                                            *)
LastChanged(p) ==
  LET removed == pub[p].changed \cap Obsolete(p) IN Lasts(IF removed # {} THEN removed ELSE pub[p].changed)
RollBack(p) ==
  At(p, "rollback") /\ \E x \in LastChanged(p) :
    /\ x \in DOMAIN pub[p].backups => HasFolder(x)
    /\ disk' = [disk EXCEPT ![x] = IF x \in DOMAIN pub[p].backups THEN pub[p].backups[x] ELSE Absent]
    /\ Disturbs(p, [pub[p] EXCEPT !.changed = @ \ {x}])
    /\ UNCHANGED <<folders, manifest, begun, edits>>
RollBackFails(p) == At(p, "rollback") /\ Ends(p, "broken") /\ UNCHANGED folderVars

\* rmdir of the new subfolders; one that is gone or in use raises
RolledBack(p) ==
  /\ At(p, "rollback") /\ pub[p].changed = {}
  /\ \A f \in pub[p].made : f \in folders /\ IsEmpty(f)
  /\ folders' = folders \ pub[p].made
  /\ Disturbs(p, [pub[p] EXCEPT !.stage = "restored"])
  /\ UNCHANGED <<disk, manifest, begun, edits>>

\* The staging folder is removed; that may raise when all is published.
Staged(p) == At(p, "clean") /\ Ends(p, "late") /\ UNCHANGED folderVars

\* Emptied subfolders of obsolete files go; rmdir refuses one in use, which
\* a removal of the tree would not.
WithTheirFiles(p) == ParentsOf(Obsolete(p))
Removable(p) == {f \in ParentsOf(Obsolete(p)) : IsEmpty(f)}
CleanUp(p) ==
  /\ At(p, "clean")
  /\ folders' = folders \ Removable(p)
  /\ Disturbs(p, [pub[p] EXCEPT !.stage = "returned"])
  /\ UNCHANGED <<disk, manifest, begun, edits>>

\* The process dies; nobody rolls back.
Crash(p) == pub[p].stage \notin Ended \cup {"idle"} /\ Goes(p, Idle) /\ UNCHANGED <<folderVars, begun, edits>>

---------------------------------------------------------------------------
(* The others                                                              *)
Others == pub' = [q \in Publishers |-> [pub[q] EXCEPT !.alone = FALSE]]

\* publish_rendered_source without a package and without a manifest
WriteInline ==
  /\ manifest = Absent
  /\ \E package \in Packages : disk' = [disk EXCEPT ![package.source] = Inline]
  /\ Others /\ UNCHANGED <<folders, manifest, begun, edits>>

Edit ==
  /\ edits < MaxEdits /\ edits' = edits + 1 /\ Others /\ UNCHANGED begun
  /\ \/ \E x \in Paths :
          /\ disk' = [disk EXCEPT ![x] = UserText]
          /\ folders' = folders \cup ({Folder[x]} \ {Root})
          /\ UNCHANGED manifest
     \/ \E x \in Paths : disk[x] # Absent /\ disk' = [disk EXCEPT ![x] = Absent] /\ UNCHANGED <<folders, manifest>>
     \/ manifest' = Foreign /\ UNCHANGED <<disk, folders>>
     \/ manifest # Absent /\ manifest' = Absent /\ UNCHANGED <<disk, folders>>

ChangesFile(p) == Install(p) \/ Remove(p) \/ RollBack(p)
Publish(p) ==
  \/ Begin(p) \/ Refuse(p) \/ FindPublished(p) \/ Proceed(p) \/ BackUp(p) \/ BackUpFails(p)
  \/ MakeFolder(p) \/ Installed(p) \/ Commit(p) \/ WriteFails(p) \/ ChangesFile(p)
  \/ RollBackFails(p) \/ RolledBack(p) \/ Staged(p) \/ CleanUp(p) \/ Crash(p)
Next == (\E p \in Publishers : Publish(p)) \/ WriteInline \/ Edit
Spec == Init /\ [][Next]_vars

---------------------------------------------------------------------------
(* Properties                                                              *)
TypeOK ==
  /\ disk \in [Paths -> Contents \cup {Absent}] /\ manifest \in Packages \cup {Absent, Foreign}
  /\ \A x \in Paths : disk[x] # Absent => HasFolder(x)
  /\ \A p \in Publishers : pub[p].stage \in Stages /\ pub[p].changed \subseteq Paths

\* Whatever step of a publication fails, it ends with the folder as it was or
\* as it shall be: files, manifest and subfolders, old companions gone and
\* the user's files in place.  Only a second failure, in the rollback itself,
\* the death of the process or another writer can leave anything else.
IsOld(p) == [disk |-> disk, folders |-> folders, manifest |-> manifest] = pub[p].seen
IsNew(p) ==
  /\ manifest = pub[p].package
  /\ disk = [x \in Paths |-> IF x \in DOMAIN Files(p) THEN Files(p)[x]
                             ELSE IF x \in Obsolete(p) THEN Absent ELSE pub[p].seen.disk[x]]
EndsOldOrNew ==
  \A p \in Publishers : pub[p].alone =>
    /\ pub[p].stage \in {"refused", "restored"} => IsOld(p)
    /\ pub[p].stage \in {"returned", "late"} => IsNew(p)
    /\ pub[p].stage = "returned" => \A f \in ParentsOf(Obsolete(p)) \cap folders : ~IsEmpty(f)

\* No publication replaces or removes a file that held the user's text when it
\* read the folder: after refusals, rollbacks and crashes, and however an
\* earlier publication left its own files around it.
UserFilesKept ==
  [][\A p \in Publishers : ChangesFile(p) =>
       \A x \in Paths : disk[x] = UserText /\ disk'[x] # UserText => pub[p].seen.disk[x] # UserText]_vars

=============================================================================
