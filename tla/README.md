# Verification of the M68k Reversing Toolkit

TLA+ models of the toolkit, model-checked with TLC, with theorems checked by
TLAPS. The toolkit restores the source of 68000 programs: native C code
disassembles and analyses a program file, and a Python server, a command line
and an MCP adapter let clients name, annotate, rebuild and review the result.
What clients decide is kept in two append-only histories per target; this
project starts there, because everything else can be recomputed from them. It
then follows the result: the builds the server runs, the search for code and
the memory of the native analysis, the assembler, the file it writes, and the
publication of the source.

Paths below are relative to `src/`; `disasm/` is `amiga_reversing/disasm/` and
`C/` is `src/` below it (the native sources).

## 1. Inventory

### Components that keep state

| Component | State | Operations | Correct when |
|---|---|---|---|
| Target lock, `disasm/target_history.py` | per process an RLock per target, a thread-local set of held keys, flock on a sidecar file | `target_lock`, `atomic_append_history` | one thread of one process is inside; nesting never blocks; failure and death give the lock back; a history is replaced whole |
| Restoration operations, `disasm/restoration.py`, `disasm/restoration_verification.py` | receipts on disk; otherwise the histories | state, history, query, interpret, command, rollback, review, verify, run | a write lands only on the revision the client named; an acceptance rests on an exact rebuild of the present subject |
| Decision Journal, `disasm/decision_journal.py` | `decision_journal.jsonl` | append, supersede, packets, dry runs | one chain, never rewritten; one decision in force per action |
| Manual Action Log, `disasm/manual_actions.py` | `manual_actions.jsonl`, replayed into layouts, elements, names | append batch, undo, redo | never rewritten; each prefix replays |
| Decision tools, `amiga_reversing/reversing_loop.py` | none of their own | record-decision, cascade verify / apply | append only what is still true of the target |
| Effective metadata, `disasm/effective_metadata.py` | derived from target files and both histories | merge of layers, overlay of accepted facts | superseded facts disappear |
| Listing jobs and HTTP server, `disasm/server.py` | `_ASYNC_JOBS`, `_JOB_CACHE`, subscribers, worker threads | request routing, background listing builds and reproductions, events, cancellation | one build per key, every job ends, subscribers see the end |
| Listing projection, `disasm/listing_projection.py` | artifacts, current artifact per target, rows | replace, lease, query, project | a reader never sees two artifacts mixed; edits keep their place |
| Layout export cache, source packages, `disasm/layout_export_cache.py`, `disasm/source_package_publish.py` | cached exports with leases; published directories | acquire, release, publish | no export evicted while leased; a package is old or new, never half |
| Reproduction, `disasm/reproduction*.py` | worker processes, progress and output files | sweep, worker, compare | every case reported once; a dead worker is noticed |
| Runtime observation, `amiga_reversing/tools/copperline_*.py` | session with an external emulator | start, checkpoint, run, stop | bounded runs; the session ends |
| Arena, `C/util_arena.c` | chain of blocks, pools, builders | alloc, mark, rewind, reset, freeze | memory in use is never handed out again |
| Native analysis, `C/m68k_analysis_facts_v2.c` | work queue, accepted starts, byte map, facts, labels | seed, solve, demote, rebuild, seed wrappers, prune | what the flow reaches is code or named in a fact; it ends |
| Assembly of sources, `C/m68k_source_file_emit.c` and what it calls | passes over the statements, symbols, section writers, fixups | layout, emit, write | what is written lies where the layout says and means what the source says |

### Components that compute

The render lookup and dataflow of the analysis (`C/m68k_analysis_*.c`,
`C/platform_facts_v2.c`), the renderer (`C/m68k_render_*.c`), the parser of
sources, the encoder, disassembler and IR codec, the simulator, the readers of program
files and disks, the runtime map and memory layout, the import of disks
(`amiga_reversing/amiga_disk`), the native bridge (`disasm/c_backend.py`), the
web client and the generators of the knowledge base.

### How they interact

Every client operation passes `disasm/server.py` (directly or through the CLI
and MCP adapters) and reaches `restoration.execute`, which takes `target_lock`,
checks that the revision the client names is the present one, and then edits,
reviews, verifies or runs. The revision names the subject (the program file,
the analysis inputs including accepted facts, the Manual Action Log) and both
histories. The analysis key inside it is memoized per request in the snapshot
of the server. The decision tools are processes of their own: they read the
journal and take the lock only to append. Target metadata, the renderer and the
program file change under no lock at all. Listing and reproduction jobs are
threads of the server that share its job table, and reproduction workers are
processes that report through files.

### What is hard

* Requests decided on a state that is gone when they run; responses that are
  lost, so that a client repeats a request that took effect.
* Writers with different disciplines on the same files: locked for the whole
  operation (restoration), locked for the append only (tools), not at all (the
  world).
* A review is up to two records per action over a batch: supersession and
  replacement must not come apart.
* A verification takes minutes; what it rebuilt may not be what its receipt
  says.
* A lock of three layers with nesting, failures in each layer and process death.
* Jobs cancelled, superseded, deduplicated and observed by several threads.
* A folder that a publisher, a second one and the user change, call by call.
* A search for code whose later steps take back what earlier steps decided.
* Memory that is given back in bulk while something allocated in between lives on.
* Sizes that depend on symbols whose values depend on sizes.

`PROJECT.json` lists these hazards at their lines, with those of parts that are
not modelled.

## 2. Plan

In order of importance to the user's data, then to the result:

1. **Done.** `Mutex`, `TargetLock`: the lock. `DecisionJournal`,
   `ManualActionLog`: the histories as pure definitions. `HistoryPromise`,
   `Restoration`: clients, tools and the world on one target.
2. **Done.** `ListingJobs`: the job table of the server, the builder threads,
   cancellation, events and their subscribers, and the projection service that
   keeps the artifact; liveness of a waiting client.
3. **Done.** `SourcePackagePublish`: staged publication with failures, crashes,
   a second publisher and the user's own edits; the promise "old or new".
4. **Done.** `ReachableCode`: how the native analysis decides which bytes are
   code. `ScratchMemory`, `Arena`, `ScratchArena`: the memory it works in, as an
   implementation of scratch memory; `AnalysisMemory`: one user of it that does
   not follow the discipline.
5. **Done.** `SourceAssembly` with `HunkFile`: how a source becomes an object and
   a file, with the loader as the judge.
6. **Done.** Proofs of every invariant, safety step property and refinement that
   the passing runs check, and that a hunk file gives back what was written to
   it; `EndsOldOrNew` under the condition its run has too. The others hold
   without one; where the code has an exception, the property states it.
7. Would come next if the project grew: the replay of the Manual Action Log
   (layouts, elements, overlaps), reproduction workers and their files, leases of
   cached exports.

Abstract specifications: `Mutex` (lock), `HistoryPromise` (histories),
`ScratchMemory` (arena); "old or new" is stated over what a publication has
seen, because two publishers and a user have no common abstract state.

## 3. What is modelled

### TargetLock

Threads belong to processes (`ProcessOf`). `rlock` is the RLock of each process
with its recursion count, `flock` the owner of the exclusive lock on the sidecar
file, `held` the thread-local note. `pc` walks through `target_lock` statement by
statement: `Enter`, `AcquireRLock`, `EnterNested` or `OpenSidecar`,
`AcquireFlock`, and on the way out `LeaveNested` or `LeaveOutermost`,
`ReleaseFlock`, `ReleaseRLock`. `EntryFails` is an error of mkdir, open or
flock after the RLock was taken, `Crash` the death of a process with all its
threads. An open file description belongs to one entry, so two threads of one
process would exclude each other as well; the RLock is what makes nesting
possible. The POSIX branch is modelled.

`Mutex` is the promise: nobody or one thread is inside. `TargetLock` implements
it, and `Restoration` uses it (`Acquire`, `lock`).

### DecisionJournal and ManualActionLog

Pure definitions over sequences of records. A record is identified by its
position. `Superseded` and `Live` are the projection of the journal,
`DecisionsOn` the decisions in force on one action, `NextPrev` the link a new
record needs, `Taken` a decision id that came before, `ValidChain` what `validate_decision_journal_records` accepts,
`AcceptedFacts` the facts that reach the effective metadata. `Undone` and
`Active` replay the undo and redo of the Manual Action Log, `SourceActions` are
those that can be rolled back.

### Restoration

| Definition | Code |
|---|---|
| `Inspect` | state, history or query: the client learns the revision |
| `Begin` | `execute`: `target_lock`, `require_revision` |
| `PrepareEdit`, `PrepareRollback` | interpret, interpret_batch, command, rollback |
| `PrepareReview`, `ReviewSteps`, `Orders`, `ReviewRecord`, `Decision`, `Supersession`, `Linked` | review, review_batch, `_prepare_review_records` |
| `Stage`, `Replace`, `FinishWrite` | `append_*`, `atomic_append_history`, the response |
| `VerifyBuild`, `PersistTruncate`, `PersistWrite`, `FinishVerify` | verify, `_persist`, the check at its end |
| `Refuse` | errors `execute` raises itself |
| `Abort` | I/O errors and death at any point while the lock is held |
| `RecordLink`, `DryRun`, `ToolStage`, `ToolReplace` | record-decision, with a fresh decision id or one the caller gives (`--decision-id`) |
| `CascadeInspect`, `CascadeStage`, `CascadeLink` | cascade-verify and cascade-apply |
| `ToolEnds` | a tool stops, by error or by its user |
| `ChangeAnalysis`, `ChangeSource`, `WorldMoves` | another renderer, metadata or program file, or the one before |

Abstractions, and why they are sound for the properties:

* The digest of an append-only file is its length. `HistoryPromise` shows that
  the files only grow, so equal lengths mean equal contents.
* The subject, a digest of program file, analysis key, and Manual Action Log, is
  a record of versions and of the accepted facts (`Subject`).
* `Begin` reads all parts of the revision at once. The histories cannot change
  between the reads except through a tool that is inside the lock; the world
  can, and a change just after `Begin` has the same effect as one between.
* A receipt is named by its content, as on disk. Its field `built` is not in the
  file: it is a history variable that remembers which world the build saw. The
  build reads the world once; a build that mixes two versions is one more
  subject that differs from the receipt's.
* Analysis inputs and program file go to any other of their versions, also back to
  one they had: a file is restored, an edit of the metadata is taken back.
  `slipped` is a history variable: the subjects the world left while a request on
  them had been checked and had not yet built. `CurrentMeansRebuilt` excepts these
  and no others.
* A decision id is fresh (`Nothing`), the id of a record (its position), or a
  name: one the cascade tool derives from a fact, or one a caller makes up
  (`GivenIds`). A caller may give a name of his own or the id of any record that is
  in the journal.
* A review that defers or rejects may name receipts too; they have no effect
  and are left out.
* All tools record facts (`ToolFacts`); reviews of actions come from clients.

### ListingJobs

One target as the server sees it. `jobs` is `_ASYNC_JOBS` with status and cache
key of each listing job, `service` the artifact, its key and the presentation
mark in `ListingProjectionService`, `closed` the artifacts that were closed (an
artifact is named by the job that built it), `worker` the thread of each job,
`client` a server thread with the browser behind it, `lock` the holder of
`target_lock`. `key` numbers the states of the inputs, of which the cache key is
a digest.

| Definition | Code |
|---|---|
| `OpenBegin` ... `OpenAnswer` | listing/open, `start_listing_job`: the artifact is there, somebody's job is joined, a failed job is shown, or a job and its thread are made |
| `Read`, `ReadEnd` | routes that need the exact artifact (`valid_artifact`) or may display an older one (`read_artifact`) |
| `EditBegin`, `EditPresentation`, `EditCancel`, `EditInvalidate`, `EditFails` | `_apply_manual_action_commands` after its append |
| `Rollback` | rollback in `restoration.py` |
| `WatchBegin`, `Subscribe`, `Hear`, `Disconnect` | `_handle_job_events` |
| `WorkerStart`, `Build`, `CacheArtifact`, `WorkerLocks`, `FindStale`, `FindFresh`, `Drop`, `Install`, `Prewarm`, `Announce`, `Report`, `WorkerQuits`, `WorkerFails` | `_build_rows_job` |
| `WriteCorrections`, `InvalidateAll`, `CancelAll` | `_write_api_input_type_override` from another target |
| `InputsChange` | everything else that goes into the cache key |

`Changes` says which kinds of change of the inputs happen, so that a run can tell
which of them a property depends on. A change leads to any other state of the
inputs, also to one that was there before: undo, redo and a file that is put back
do that, and the key is a digest. `returned` is a history variable: the jobs
whose inputs came back (`Deceived`) after the build had used others and before the
thread compared its key, so that the comparison cannot find it.
`ExactReadsAreCurrent` and `ReadyMeansAsAsked` except these jobs and no others.
Abstractions:

* A section under `_JOB_LOCK` is one step. A change of a job and its
  publication are one step too: nobody else changes the same job but a
  cancellation, which publishes itself.
* The native build reads its inputs at one moment, `Build`.
* Phases and progress of a job do not matter to anybody and are left out.
* An artifact that a thread drops without closing it is closed by its
  destructor, which is the same to all others.
* `Rollback` comes from the restoration interface, `EditBegin` from the command
  route; both hold the lock until their answer.

### SourcePackagePublish

A package is a canonical source with companions; `disk`, `folders` and
`manifest` are the folder of a target, and `pub` is what each publishing process
has read and done so far.

| Definition | Code (`disasm/source_package_publish.py`) |
|---|---|
| `Begin`, `Intact`, `Owned` | `publish_source_package` up to `_previous`, which reads the manifest and the files it lists |
| `Collides`, `CannotCompare`, `Refuse`, `FindPublished`, `Proceed` | the checks on destinations, and the comparison with what is published already |
| `BackUp`, `BackUpFails` | the staging folder with new texts and copies of old ones |
| `MakeFolder`, `Install`, `Installed`, `Remove`, `Commit`, `Firsts`, `Lasts` | mkdir and os.replace of one file after the other, unlink of obsolete companions, the manifest last |
| `WriteFails`, `RollBack`, `RollBackFails`, `RolledBack` | any of these raises; the changes are undone in reverse order |
| `Staged`, `CleanUp` | removal of the staging folder and of emptied subfolders |
| `Crash` | the process dies at any point |
| `WriteInline` | `publish_rendered_source` for a source without a package |
| `Edit` | the user writes or deletes a file, breaks or deletes the manifest |

Abstractions: reading the manifest and the owned files is one step, reading the
destinations another. That a file is as it was published (size and digest) is
equality of contents. Symbolic links, names that differ only in case, reserved
names and staging folders left by a crash are out, and so is a text torn within
one `write_text`. `seen` and `alone` are history variables: what a publication
read, and whether nobody else has written since. A crash leaves a folder that
later publications refuse until the user repairs it; that is the code's choice
and the properties allow it.

### ReachableCode

The search for code of `C/m68k_analysis_facts_v2.c` on one section of `Size`
words. What is at each word (`case.code`) is given by the case: the flow of the
instruction, its length, its direct target, what it loads into the one
traced register, whether it encodes back exactly.

| Definition | Code |
|---|---|
| `Push`, `Enqueue`, `SameStart` | `work_queue_push`, `enqueue_code_start_runtime_evidence_ex` |
| `SeedRequired`, `Seeded` | `seed_facts_from_object` |
| `Pop...` | one turn of `run_reachable_fixed_point`, by its early returns: outside, a platform call, undecodable, accepted already, rejected, accepted, a continuation of a start accepted before |
| `Overlaps`, `CanReplace`, `Replaced`, `Rejects` | may the candidate be accepted, and which inferred targets does it evict |
| `Flow`, `NextInstruction`, `FlowRequests`, `FlowViolations` | targets that are direct, relocated or in the register, inline payloads, fallthrough, and the facts they leave |
| `ReplayStep` | `replay_runtime_sink_provenance_fallthrough` |
| `DemoteLabel`, `DemoteRelocation`, `Covering` | `demote_required_label_conflicts`, `demote_opcode_relocation_conflicts` over the accepted candidate index |
| `Rebuild` | `rebuild_accepted_bytes_from_starts`, `materialize_safe_required_labels` |
| `Wrapper`, `LinkageEntries`, `BoundaryEntries`, `SeedEntries`, `SeedEntry` | the passes that seed wrappers of platform calls, over the byte map |
| `Prune` | `prune_unreachable_accepted_code` |

Abstractions: words stand for bytes (all lengths are even); entries and labels
are taken in any order where the code takes the object's; one address register
is traced. Left out are the runtime address space, discovery of jump tables and
stubs, callback fields, stack continuations, interrupt vectors and a second
section: each adds starts to the same queue by way of the same `Enqueue`.

### Arena, ScratchMemory, ScratchArena, AnalysisMemory

`Arena` is `C/util_arena.c` as operators on the chain of blocks, with memory by
cell and a malloc that may return any address not in use: `Alloc`
(`arena_alloc`), `TakenMark` (`arena_mark`), `Rewind` (`arena_rewind`), `Reset`
(`arena_reset`), and the counters of `arena_stats`. Sizes wrap around at
`SizeMod`. `ScratchArena` brings callers as the sources have them: `Calloc`,
`Memdup`, `ReallocCopy`, `Strndup`, writes, scopes that are rewound
(`CloseScope`), and scopes that are left without a rewind because what they made
is kept (`KeepScope`, as in `typed_flow_build_predecessors`). `ScratchMemory` is
what this discipline promises, and `ScratchArena` implements it: an object holds
what was written to it until its scope is left. Pools and builders on top of the
arena have no caller but their tests and are left out.

`AnalysisMemory` is a caller that breaks the discipline: the stages of
`facts_v2_collect_profile_internal` in their order, those that create labels
(`CreateLabel`, with the growth of the array of points), and those that open and
close the index of accepted candidates or the maps of the prune
(`OpenScratch`, `CloseScratch`). Everything else the analysis allocates is left
out, as it can only move the same objects within the chain.

### SourceAssembly, HunkFile

`SourceAssembly` takes the statements of a parsed source through the passes of
`m68k_source_file_layout` and through `m68k_source_file_emit_object`, and the
object through `HunkFile` into a file and back.

| Definition | Code |
|---|---|
| `Lookup`, `Evaluate` | `m68k_source_model_lookup_symbol`, the linear expressions |
| `Encoded`, `Resolved` | size and field of an instruction from the value of its symbol: `m68k_source_resolve_instruction_operands`, `m68k_ir_encode_one` |
| `LayoutLabel`, `LayoutOrg`, `LayoutEven`, `LayoutData`, `LayoutReserve`, `LayoutInstruction`, `LayoutFails`, `NextPass`, `DidNotStabilize`, `LayoutDone` | `m68k_source_file_layout` |
| `Emit...`, `Kept`, `Finish`, `AllocationTooSmall` | `m68k_source_file_emit_object`, `emit_data_statement`, `emit_instruction_statement`, `should_emit_internal_abs_fixup` |
| `IrDataSize` | `m68k_source_file_build_ir` |
| `Writable`, `Written`, `Payload`, `Blocks` | `validate_writable_object`, `amiga_hunk_write_buffer`, `write_section_payload`, `write_preserved_internal_relocs_for_section` |
| `Parsed` | `amiga_hunk_read_buffer`, `parse_reloc_block`, `add_section_from_hunk` |

Fields of 8, 16 and 32 bits become fields of `Holds` values. An instruction has
at most one operand with a symbol and one of seven forms, which are all the ways
in which sizes and fields depend on symbols. The sizes of the forms are those of
the encoder. Offsets are `uint32_t` and wrap around at `Holds[4]`. `WellFormed` is
what the code leaves to the author: every label has one definition (the last one
wins otherwise), ORG does not turn odd into even (EVEN counts logical offsets in
the layout and bytes in the emission), and a section ends within the 32 bits of an
offset.

Three things are silently written though they cannot be right:

* `Inexpressible`: 16-bit references relative to a section in an Amiga executable,
  for which `should_emit_internal_abs_fixup` leaves the fixup out, and distances
  between places that do not move together, as a branch into another section. Such
  a field must in fact move (`Moves`); one that does not has to be right.
* `TooWide`: values that do not fit into their field. Apart from absolute words
  the encoder checks no range: it masks short branches, word branches,
  displacements, PC-relative values (`C/m68k_assembler.c:541`, `566`, `731`), and
  `emit_data_statement` casts data. What is read from a field is stated by
  `Readings`: the CPU extends the sign of a field of an instruction, data may be
  meant with a sign or without. `LinkedAsWritten` asks that a value which fits is
  read back as itself, and of one that does not only that its low bits are there.
  Absolute words from half of their range on belong to the latter, although
  `FitsAbsoluteWord` lets them pass.
* Data in BSS sections: nothing refuses it, `write_section_payload` writes the size
  only and `add_section_from_hunk` reads no data. `ReadAsWritten` says so, and of
  what is read `LinkedAsWritten` speaks only where there is data (`Held`). The
  relocations of such a section are written and read like any others.

Left out: the parser, END, strings, statements before the first SECTION,
MOVEM and 8(An) whose word displacement is forced, the byte $FF of a branch that
means a long one to a 68020, division of label differences, the encoder's tables, external, symbol and debug records, short
and other relocation kinds, overlays, memory types and the other file formats.

## 4. What the runs check

| Run | Question | Answer |
|---|---|---|
| `target_lock` | Are the layers one mutex; can nesting block on its own flock; does waiting end? | holds |
| `restoration_reviews` | Two clients edit, roll back and review with failures everywhere: lost updates, decisions on undone actions, double or vanished decisions, a lock that stays taken? | holds |
| `restoration_outside` | A client, a journal command and the cascade tool while renderer, metadata and program change and change back: is what is shown as accepted and current rebuilt from the present subject, other than a subject the world left before a build; can writers that read without the lock disturb a client, invalidate a prepared review or break the journal; is a journal command refused although the head stands and its id is free? | holds |
| `listing_jobs` | Can a build be read or reported for other inputs than its own, other than by inputs that come back before the comparison; closed under a reader; or made twice at a time? | holds |
| `listing_live` | Does every job end, and is everybody told, also when commands bring an old cache key back during a build? | holds, if commands are the only changes |
| `job_abandoned` | And if a label changes? | violated |
| `native_reachability` | Does the search for code keep its maps consistent, name what it drops, honour labels and relocations, bound its queue, and end? | holds |
| `native_overlap` | Can accepted instructions share bytes though no required start is refused? | violated |
| `arena` | Do objects keep their contents until their scope is left, over growth, nesting and reallocation? | holds |
| `label_points` | Do the label points live until they are read? | violated |
| `source_assembly` | Does what is written lie where the layout put it (`EmittedAsLaidOut`), come back from the file as it went in (`ReadAsWritten`), and mean what the source says wherever it is loaded, before and after the file (`LinkedAsWritten`)? | holds, other than for what is silently dropped or cut |
| `package_publish` | Does a publication end with the old or the new folder, and can text of the user be lost? | holds |

### Findings

1. The thread of a listing job computes the cache key anew when it starts. If an
   edit that cancels nothing, such as a label, comes between the request and the
   thread, the thread builds for the new key and at the end returns without
   setting a state, because its job has the old key: the job stays "building"
   (`job_abandoned`). Opening the listing of the old inputs joins it.
2. `replace_overlapping_inferred_targets_if_preferred` looks at accepted starts
   inside the range of the candidate, not at an earlier instruction whose last
   words lie there. Two accepted instructions then share bytes, and
   `rebuild_accepted_bytes_from_starts` fails the whole analysis
   (`native_overlap`). `OverlapsNeedAThird` shows that two instructions alone never
   get there: it takes a third one that overlaps one of the two and was accepted
   at some time, or a required start that cannot be honoured.
3. The array of label points may grow while the index of accepted candidates is
   open, in the arena that is rewound when the index is closed; the prune then
   writes over it before the render lookup reads it (`label_points`).

### Disagreements that no run repeats

Each of these is one change of a constant or of a property away from a run.

* `_cascade_record_with_current_prev` and `_cascade_a5_decision_record`
  (`reversing_loop.py:4223`) apply `str()` to the link of the next record. On an
  empty journal it is null and becomes the text `None`, so the first decision of
  a target cannot come from the cascade tool: `Restoration!CascadeRejection`
  fails.
* The check at the end of verify (`disasm/restoration.py:542`) reads the
  analysis key from the snapshot taken at the beginning of the request and
  notices only changes of the program file. If analysis inputs change before the
  build and change back later, the receipt supports an acceptance that was never
  rebuilt: `CurrentMeansRebuilt` fails without its exception (`slipped`), with one
  client and two changes.
* Rollback invalidates but does not cancel (`disasm/restoration.py:572`). Undo
  and redo during a build leave the artifact of the inputs in between under the
  present key: `StaleDoesNotSatisfy` fails with `Changes = {"rollback"}`, one job
  and two changes. This is the exception (`returned`) of `listing_jobs`.
* The event stream reads the state of a job before it subscribes to it
  (`disasm/server.py:3692`); an end in between reaches nobody: `WatchersAreTold`
  fails under `FairSpec` with one job and no changes.
* An interrupt between `os.replace` and the note for the rollback
  (`disasm/source_package_publish.py:171`) leaves one new file in an old folder:
  `EndsOldOrNew` fails with `Interrupts = TRUE`.
* The bytes of an accepted platform call are lost when the byte map is rebuilt
  (`C/m68k_analysis_facts_v2.c:8703`), so data spans lie over accepted code:
  `ReachableCode!CodeIsNotData` fails in the cases of `native_reachability`.
* A required start that overlaps accepted code is accepted and counted as a
  failure, and the rebuild fails the analysis before that count is reported.
* A short branch whose byte would be zero is silently given a word
  (`C/m68k_assembler.c:560`); for `bra.b next` directly before `next:` the two
  sizes alternate and the layout does not stabilize.
* A branch, displacement, PC-relative value or datum out of range is cut without a
  diagnostic (`C/m68k_assembler.c:541`, `566`, `731`,
  `C/m68k_source_file_emit.c:267`), so an out-of-range `bra.b` goes elsewhere:
  `LinkedAsWritten` fails without `TooWide`. Absolute words from $8000 to $FFFF are
  accepted as they are (`m68k_asm_value_fits_absolute_word`, and
  `C/test_m68k_ir.c:1805` asserts it), though the CPU reads them as $FFFF8000 to
  $FFFFFFFF.
* Statements with data in a BSS section are assembled, and the data disappears when
  the file is written (`C/platform_amiga_hunk.c:1279`); its relocations stay, and
  point into a section without data: `ReadAsWritten` fails without its exception.
* Space reserved at the end of a section counts for nothing in its size unless
  SECTION has a third argument, while `docs/reproduction.md:195-209` renders the
  allocated tail of a section as such space, for exact object layout.

Two more orders of steps are in the models without a property that would forbid
them, because the code does not: the cascade tool compares its verdict with the
target and appends under different locks, and a change of the corrections
invalidates the artifacts before it cancels the builds, so that one installed
in between stays valid. They are listed as hazards.

### Bounds

`target_lock`: two threads of one process, a third of another, nesting to depth
two: nesting, contention in the process and between processes.

`restoration_reviews`: two clients, two actions, batches of two, four journal
records: enough for an accepted action, its supersession and replacement, a
batch on two actions of which one is decided, an undo between review and commit,
and a lost response. The analysis inputs stand still; the other run moves them.
`restoration_outside`: one client, one journal command and one cascade tool with
two records, one receipt, two versions each of analysis and program, never the
second of both (`MaxVersions`), and two changes: one away and one back. Each of them can come between two steps of another, a
receipt can be of either subject, the verdict of a cascade can be stale when it is
used, and an acceptance can outlive its subject, get it back, or lose it to a
fact that is accepted. The ids a caller gives are those of the journal
(`GivenIds` is empty): a made-up id counts only once it is there. The four
properties are also proved for every number of records, changes and ids
(section 5), `PreparedIsValid` for batches of any size.

`listing_jobs` and `listing_live`: two clients, two jobs, two states of the
inputs and two changes, of which the second may go back: enough for a job that is replaced while its thread still builds, a reader
while the next build is installed, and a client listening while another cancels.
The clients of `listing_jobs` are alike, and its properties are invariants, so symmetry
is sound. Jobs get new names, so a behaviour ends when the names are used up; deadlock is
not checked there for that reason, and nothing else in it waits (a worker waits
for the lock only, which `JobsEnd` covers).

`native_reachability`: sections of 11 words whose last five words are filled in
every way from a menu of instructions per mechanism (flow, traced register,
relocations, also over instructions that overlap, platform calls), 384 sections
with two runs that may be wrappers, and two cases of evictions: one over a shared
tail, and one in which a start that gave way takes another's place in its turn.
One state variant per start instead of eight, replays of eight steps: both
limits are reached. A
wrapper needs three instructions, as in the code. `native_overlap` has seven
words and the flow menu.

`arena`: three blocks of four bytes with words of two, sizes of three bits so
that they wrap around, three objects and two nested scopes: a scope that grows
the chain twice, a copy across blocks, a mark in a block that is given back.
`label_points`: first capacity 1 instead of 64, so that one growth happens.

`source_assembly`: every source of four statements over two sections and two
labels with fields of 3, 5 and 6 bits, in which short branches, absolute words
and logical offsets all overflow, and sources of five statements for the groups
and blocks of the relocation table, with every choice of BSS sections. A few more
have an allocation, BSS without data, or a branch out of reach behind reserved
space. Forward references take part in all of them. `MaxPasses` is the limit of the code, eight; some of the sources reach it.

`package_publish`: two publishers with two publications between them or one after
the other, three packages over four paths, two of them in a subfolder, one edit
of the user. A package can share its companion's name with the other's source.
Publishers are interchangeable and the properties are safety properties, so
symmetry is sound. Deadlock is not checked because the publications are used up.

The bounds are constants (`Max...`) and guards of the actions that would pass them.

### Fairness

`TargetLock!FairSpec` and `Restoration!FairSpec` ask weak fairness of code that
runs inside the lock and of nothing else: it is straight-line code that the
operating system schedules. Clients may stay away, tools may be stopped
outside the lock, the world may stand still, and no failure ever has to happen.
`ListingJobs!FairSpec` asks that a request that has begun, a stream
that has something to do and a thread that can go on are scheduled. A thread
needs `target_lock` at its end; requests that keep taking it may starve it,
hence the first disjunct of the liveness properties.
Waiting is not promised to be first come, first served: RLock and flock queue
nobody in a defined order, so `WaitersProgress` says that a waiter gets in or
somebody else is inside again and again.

## 5. What is proved

Each theorem holds for every value of the constants that satisfies the named
assumptions of its module; TLC evaluates these on every run. Where a theorem has
a hypothesis of its own, the bullet says so.

### TargetLock_proofs

From `ConstantsAssumption`, for any threads, processes and nesting depth:

* `TargetLockTyped`: the type invariant; above all no RLock is counted below zero.
  It needs no run any more, nor does `TypeCorrect` of `SourceAssembly_proofs`.
* `InsidersOwnBothLocks`: whoever is inside owns the RLock and the flock.
* `TargetLockNests`: no thread waits for a flock it has itself.
* `TargetLockExcludes`: at most one thread is inside. No run states it by itself;
  `ImplementsMutex` implies it.
* `TargetLockImplementsMutex`: the layers implement `Mutex`.

The inductive invariant `LockInv` ties the layers together: whoever has passed
the first layer owns the RLock of its process, whoever has noted itself in `held`
owns the flock, and recursion counts are positive exactly while owned. Mutual
exclusion alone is not inductive, because it says nothing of a thread between two
layers.

### Restoration_proofs

From `ConstantsAssumption` and `NamesAssumption`, for any clients, tools, facts,
batches and histories of any length:

* `RestorationTyped`: the type invariant.
* `ClientWritesAreCurrent`: a write of a client lands on exactly the histories
  its expected revision names.
* `HistoriesKeepPromise`: every step appends to one history or leaves both alone,
  and every published journal is a valid chain.
* `PreparedReviewsAreValid`, `DecisionsFallOnActiveActions`,
  `ActionsHaveOneDecision`, `DecidedActionsStayDecided`: what was checked when a
  review was prepared is still so when it is committed; no action ever has two
  decisions in force, and none loses the one it has.
* `JournalToolsAreRejectedForAReason`: a journal command is refused only if
  another record came in between, or if the decision id its caller gave is taken.
* `AcceptedAndCurrentWasRebuilt`: what is shown as accepted and current was rebuilt
  from the present subject, wherever analysis inputs and program go and come back.
  The exception is in the statement: a subject in `slipped`, whose rebuild had the
  same histories and perhaps other inputs (see the disagreements).

Three invariants stand on each other. `HistoryInv`: histories are sequences
(`Typed`); whoever stands in a locked place has the lock (`Exclusive`); the
histories are still those its expected revision names (`Based`); what is staged
extends the history it will replace and is a valid chain (`Staged`). `Based` is
what makes the optimistic check at the beginning good for the whole operation,
and it needs `Exclusive` and `Staged` of everybody else.

`ReviewInv` says in one relation, `Review`, what a batch does to the histories it
was prepared from: its decisions are on different active actions, they
supersede all that is in force on these, and nothing is superseded without being
replaced. The relation does not mention the order of the records, so that a
batch of any length needs no induction; `HistoryInv` carries it to the commit.
It also says that tools decide on facts only, which is why two disciplines of
writing do not meet on an action.

`RejectionInv` relates the link a journal command has computed to the length of
the journal it read: as long as nobody appends, the record fits, and a record
that fits and has an id of its own is accepted. `ReceiptInv` is about evidence: a
receipt was built from its subject, or from the same histories for a subject that
has slipped (`Honest`); acceptances, prepared, staged or published, name such
receipts (`Backed`); and a client that has been checked and has not built knows
the present subject, or one that has slipped (`Knows`). It needs the lock twice:
the histories stay while the client is inside (`HistoriesStay`), so that only the
world can take the subject away, and the step that does so is the one that
notes it.

### ListingJobs_proofs

From `ConstantsAssumption`, for any number of clients and jobs and any changes:

* `ListingTyped`: the type invariant.
* `ReadersKeepArtifacts`: no artifact is closed while a request reads it.
* `BuildsAreNotRepeated`: two jobs never build the same inputs at a time.
* `ReadsAreExact`, `ReadyJobsAreAsAsked`: what is read or reported as exact was
  built from the inputs of its key, whatever changes and comes back. The one
  exception is in the statement: a job in `returned`, whose inputs came back
  between the build and the comparison (see the disagreements).

The inductive invariant `IInv` adds what the code takes for granted: whoever stands in
a place under `target_lock` has it (`Exclusive`); the artifact in the service and
those of readers are open and their builds are over (`Kept`, `ReadersKept`), so
that a thread which closes what it has not installed (`ClosedAfter`) closes
nobody else's; a job that has ended has no thread left to set it back to
building (`JobsFollowThreads`); and the request that made a job is the one that
starts its thread (`Starting`). `ExactInv` adds that every thread is `Honest`: if the
comparison would find its key present now, or has found it so, then it has built
from the inputs of that key, or it is in `returned`. A change of the inputs is
the only step that can make a comparison succeed which would have failed before,
and the threads for which it does so wrongly are the ones it adds to `returned`.

### SourcePackagePublish_proofs

From `PackageAssumption`, for any packages, paths, publishers and edits:

* `PublishTyped`: the type invariant, with no file in a folder that is not there.
* `PublishKeepsUserFiles`: no publication touches a file that held text of the user
  when it read the folder, whoever writes and wherever it stops.
* `PublishEndsOldOrNew`: a publication that nobody disturbed ends with the folder
  as it was or as it shall be, whichever of its steps fails, if
  `Interrupts = FALSE`; an interrupt between a change and its note breaks it.

`FolderInv` keeps what a publication knows of the folder it has read (`Known`): all
it may write to is its own or was free. `EndsInv` describes the folder at every
moment of an undisturbed publication (`Undisturbed`): as read, then as read with
exactly the noted changes, each of which the backups can undo, then as published.

### ScratchArena_proofs

From `ArenaAssumption` and `CallersAssumption`, for any sizes of blocks, alignment,
width of sizes, objects and scopes:

* `ArenaTyped`: the type invariant.
* `RewindGivesBack`: closing a scope gives back exactly the chain it was opened
  on.
* `ArenaImplementsScratch`: the arena implements `ScratchMemory`.
* `ArenaCountersAreExact`: the counters of `arena_stats` agree with the blocks.

`ScratchInv` is three parts: the chain is well-formed (`Chained`); live objects lie
in its used part and apart from each other (`Placed`); and what a mark has seen is
a beginning of the present chain, and of what every inner mark has seen
(`Nested`), with every object made before a mark within the chain that mark has
seen. Chains of marks are history variables of the model;
without them the invariant could not say what a rewind returns to. Counters are
sums over blocks. That two sums over chains with a common beginning agree is shown
from the least place where they would not.

### ReachableCode_proofs

From `CaseAssumption`, for sections of any size and any object, policy and limits:

* `AnalysisTyped`: the type invariant, with the limits of every counter.
* `QueueStaysBounded`: no more than `VariantLimit + 1` items of one start at one
  confidence.
* `AnalysisAdvances`: every step uses up something that is not put back; with the
  bounds of the types, the analysis ends on every input. That is termination
  without fairness, which TLC could only show by liveness.
* `EntriesAnswered`: every entry ends as code, is counted, or is named.
* `FixedPointClosed`: no instruction that accepted code continues with is forgotten.
* `ConflictsDemoted`: an instruction that had its bytes alone keeps no conflict
  with a required label or a relocation.
* `BytesFollow`, `OverlapTakesAThird`: the byte map follows the starts, and two
  instructions alone never come to overlap.
* `SeedingCompletes`: the passes over wrappers end at their fixed point and
  never at their limit.

The invariant `Typed` holds the queue together (`QueueInv`): items are queued once
without a register state and at most `VariantLimit` times with one, required
starts first. `AnswersInv` says that what was popped is settled, that required
starts were honoured, and that everything accepted code continues with is settled,
named or queued (`Continued`); that no item is ever removed or reordered makes
it last. `DemotionInv` says of each loop over labels or relocations that what it has
been over stays clear. `OverlapInv` needs more than its conclusion: that a byte
an instruction misses was held by one that gave way to yet another (`DamageInv`),
because bytes that are missing are what lets the overlap test err. `SeedsInv`
counts: a pass in which something is accepted has queued a start as a seed that
was not one before (`CountInv`), so there are no more passes than words, and the
limit of `Size + 2` passes is not what ends them.

### HunkFile_proofs

`HunkFile` has neither constants nor state. `ReadBack` says of every object the
assembler can make (`NewObject`: any number of sections and fixups, none of them
read from a file before) and that can be written: reading its file gives back the
data except that of BSS sections, which is dropped, and the sizes of BSS sections
and, of an executable, of all; what was read can be written and gives the same
file; and the fixups that are read are those of the object in another order
(`Arranges`: a one-to-one relation of positions up to block and group).

The writer cuts the fixups of a section into runs, twice: into blocks of one kind
and into groups of one target. The reader numbers what it finds and joins it. The
lemmas say what a cut is (`CutsInto`, `Filtered` of all positions), that joining
the pieces gives the sequence back (`FlattenPieces`), that numbered fixups are cut
in the same places as those without numbers, and that fixups of one section keep
their order among those of the others (`Enumerates`). A recursive function over a
sequence is shown to be what it should by the least position where it would not
be (`Least`), which needs no induction over operators.

### SourceAssembly_proofs

From `SourceAssumption`, for any sources, sections, equates, widths of fields,
limit of passes and places of the sections:

* `TypeCorrect`: the type invariant.
* `EmissionKeepsLayout` (`EmittedAsLaidOut`): every statement is written where the
  last pass of the layout put it, with the size it had there.
* `FileGivesBack` (`ReadAsWritten`): the file of the object gives it back, without
  what was put into BSS sections.
* `FieldsLink` (`LinkedAsWritten`): every field of the object, and of what is read
  from the file, is read as what the source says wherever the sections are loaded,
  or is one the file has no relocation for, or holds the low bits of a value that
  is too wide for it.

The first and the third hold for every source; the other two for those that are
`WellFormed`, as the properties say.

The inductive invariant `IInv` has four parts besides the types. `LayoutInv`
carries the fixed point: while no size has changed in a pass after the first, the
statements that were placed again are where they were and their labels have the
values they had, so the places of this pass and those of the previous one are
one layout, and the sizes found so far follow from the symbols as they are now.
When the pass ends unchanged that holds of all statements, and emission, which
resolves every instruction anew, must find the same sizes. The first pass needs a
clause of its own: sizes begin at zero, so it ends unchanged only if there is no
instruction. The clause on the statements that this pass has not reached yet is
what makes the invariant inductive: an instruction may refer to a label further
on, which still has the value of the previous pass.

`EmissionInv` says how far each section is written. `FieldInv` keeps the fields
and the fixups together: a field is that of one operand or item, no two lie at
the same place, and each has exactly one fixup if it needs one and the format can
express it, so that no relocation is missing or applied twice. `ObjectInv` is the
way through the file; with `ReadBack` it says that the relocations which are read
are those of the object.

That a field then means what the source says is arithmetic on single fields: the
value of an expression and its meaning differ by the base of its target, modulo
the width of the field (`Cong`). Widths divide each other (`SourceAssumption`),
which is what makes it sound to compute in 32 bits and cut afterwards. That the
field is then read as the value itself takes a value that fits (`ReadingIs`).

### What the proofs changed

Four properties of `ReachableCode` held on its runs, but the attempts to prove
them showed that larger sections or other objects break them. They were restated
as what the code does ensure, and the runs were extended:

* An instruction that gave way may itself evict another, so that two overlapping
  instructions need not both have met the one that was evicted. What is true is
  `OverlapsNeedAThird`; the section (`ReturningCase`) is now among the cases.
* `BytesFollowStarts` asked for the bytes of every instruction while no required
  start had failed; it now says, without that condition, which bytes may be missing
  and why.
* `FixedPointIsClosed` said that a continuation that is not code lies inside
  accepted code. What it gave way to may have given way too; it now says that it
  was accepted once and gave way.
* `ConflictsAreDemoted` holds for instructions that have their bytes alone. Of two
  that overlap, `accepted_candidate_index` finds one. Relocations over overlapping
  instructions are now among the cases.

So did the proofs about `SourceAssembly`:

* Offsets were numbers without a limit, which the code's `uint32_t` are not. They
  wrap around now. A label or space behind 2^32 bytes is then back at the beginning
  of its section, so `WellFormed` says that a section ends before.
* Whether a field moves was asked by comparing the places in `Bases` with each
  other; with one place nothing moved. It is now compared with the sections where
  the object has them (`Moves`).
* `ReadAsWritten` was part of `EmittedAsLaidOut` and had its hypothesis. It needs
  none, and is a property of its own.

### Only model-checked

* Liveness: `WaitersProgress`, `LockReturned`, `JobsEnd`, `SubscribersAreTold`. The
  prover does not treat fairness and ENABLED.
* The properties of the runs that expect a violation are false and
  cannot be proved.


## 6. What is not modelled

Every part is listed with its reason under "components" in `PROJECT.json`. In
short:

* The render lookup and dataflow of the native analysis, the renderer, the
  simulator, the encoder and the disassembler compute over some 200000 lines,
  half of them generated tables. A model of them would repeat them. What they
  must get right together, that the rendered source rebuilds the program
  byte for byte, is checked by the program itself at every verification, and
  that verification is modelled in `Restoration`.
* Readers of file formats and disks, the native bridge, the import of disks and
  the generators work once over fixed inputs, with no state that outlives a call.
* The semantic replay of the Manual Action Log (forty kinds of actions over
  layouts, elements and names) is a fold without concurrency; of it the models
  have undo and redo.
* Reproduction workers, runtime observation and leases of cached exports keep
  little state: files that are compared and dropped, a session with an emulator
  whose behaviour the sources do not contain, one lease at a time under the
  target lock.
* The web client is a reader of the routes that `ListingJobs` models.
