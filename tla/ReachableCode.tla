---------------------------- MODULE ReachableCode ----------------------------
(***************************************************************************)
(* Which bytes of a section are code (src/m68k_analysis_facts_v2.c).       *)
(*                                                                         *)
(* A work queue of code starts is solved to a fixed point: each start is   *)
(* decoded, checked against what is accepted already, accepted, and the    *)
(* places its control flow can reach are queued with the register state    *)
(* that holds there.  Instructions that conflict with the labels and the   *)
(* relocations of the object are then taken back, the byte map is rebuilt, *)
(* wrappers of platform calls are seeded and solved in further passes, and *)
(* what no seed reaches is pruned.                                         *)
(*                                                                         *)
(* One section of Size words; one address register is traced.  What is at  *)
(* each word - an instruction, a platform call in the A-line, nothing that *)
(* decodes - is part of the case analysed.                                 *)
(***************************************************************************)
EXTENDS Naturals, Sequences, FiniteSets

CONSTANTS
  Size,          \* words of the section
  Cases,         \* what may be analysed: code, entries, relocations, structured data
  VariantLimit,  \* M68K_FACTS_V2_TRACE_INDIRECT_STATE_VARIANT_LIMIT
  ReplayLimit,   \* replay_limit and the scan limits of the prefix walks
  WrapperLength  \* fewest instructions of a wrapper of a platform call

Offsets == 0 .. Size - 1
Outside == Size        \* a target that is not in the section
Nowhere == Size + 1    \* no target; a register whose content is not known

Speculative == 1
Inferred == 2
Required == 3

Unknown == [to |-> Nowhere, resume |-> FALSE]
Keep == [to |-> Outside, resume |-> FALSE]
Traces == [to : Offsets \cup {Nowhere}, resume : BOOLEAN]

Flows == {"plain", "branch", "if", "call", "jump", "through", "stop"}
Decoded == [kind : Flows \cup {"none", "linea"}, len : 1 .. Size, to : 0 .. Nowhere,
            sets : Traces \cup {Keep}, exact : BOOLEAN, payload : 0 .. Size, api : BOOLEAN]
Reasons == {"entry", "control", "fallthrough", "resume", "linkage", "boundary", "none"}
Items == [at : 0 .. Size, conf : 1 .. 3, reason : Reasons, trace : Traces, variant : 0 .. 2]

CaseAssumption ==
  /\ Size \in Nat \ {0}
  /\ VariantLimit \in Nat \ {0} /\ ReplayLimit \in Nat \ {0} /\ WrapperLength \in Nat
  /\ \A c \in Cases :
       /\ c.code \in [Offsets -> Decoded]
       /\ \A o \in Offsets : o + c.code[o].len <= Size
       /\ c.entries \subseteq 0 .. Size
       /\ c.relocations \subseteq [at : Offsets, to : Offsets]
       /\ c.structured \subseteq Offsets
       \* a relocated operand holds the offset of its target
       /\ \A o \in Offsets, r \in c.relocations :
            r.at > o /\ r.at + 2 <= o + c.code[o].len /\ c.code[o].kind \in {"jump", "if", "branch", "call"} => c.code[o].to = r.to
ASSUME CaseAssumption

VARIABLES
  case,        \* the object and the policy
  phase,       \* the pass of the workflow
  items,       \* queue->items, never shortened
  cursor,      \* queue->cursor
  queued,      \* queue->queued_confidence
  starts,      \* accepted_start
  bytes,       \* accepted_bytes, by word
  accepted,    \* the last CODE_ACCEPTED fact of each offset
  origins,     \* offsets with a CODE_START fact that may seed the prune
  requests,    \* label requests: <<offset, confidence>>
  labels,      \* label_lookup->labels
  violations,  \* VIOLATION facts: <<offset, about>>
  failures,    \* offsets counted in required_instruction_failures
  replay,      \* the walk of replay_runtime_sink_provenance_fallthrough
  todo,        \* what the loop of the current pass has still to visit
  indexed,     \* the accepted candidate index
  fresh,       \* accepted_count of the current fixed point
  passes       \* api_entry_seed_pass

queueVars == <<items, cursor, queued, origins>>
mapVars == <<starts, bytes, accepted>>
factVars == <<requests, labels, violations, failures>>
vars == <<case, phase, queueVars, mapVars, factVars, replay, todo, indexed, fresh, passes>>

NoReplay == [at |-> Nowhere, trace |-> Unknown, left |-> 0]
NoFact == [conf |-> 0, reason |-> "none"]

---------------------------------------------------------------------------
(* What is at an offset                                                    *)
At(o) == case.code[o]
Decodes(o) == o \in Offsets /\ At(o).kind \in Flows
End(o) == o + At(o).len
Extent(o) == o .. End(o) - 1
Extents(S) == UNION {Extent(o) : o \in S}

\* candidate_has_normal_fallthrough
Falls(o) == At(o).kind \in {"plain", "if", "call"}
HasTarget(o) == At(o).kind \in {"branch", "if", "call", "jump"} /\ At(o).to # Nowhere

\* The relocation that covers the direct target operand of an instruction.
OperandRelocations(o) ==
  {r \in case.relocations : r.at > o /\ r.at + 2 <= End(o)}
IsRelocated(o) == HasTarget(o) /\ OperandRelocations(o) # {}

\* accepted_offset_is_interior, over a given pair of maps
InteriorOf(o, S, B) == o \in Offsets /\ o \in B /\ o \notin S

\* trace_state_after_candidate
After(o, trace) ==
  IF At(o).sets = Keep THEN trace ELSE At(o).sets

Drives(trace) == trace.to # Nowhere

\* trace_state_mark_inline_resume: the register holds the address that
\* follows an unconditional jump.
MarksResume(o, trace) ==
  /\ At(o).kind \in {"branch", "jump", "through"}
  /\ trace.to = End(o) /\ End(o) < Size /\ ~trace.resume
Marked(o, trace) == [trace EXCEPT !.resume = @ \/ MarksResume(o, trace)]

\* target_prefix_uses_trace_indirect_control
PrefixUsesTrace(o, trace) ==
  LET uses[k \in 0 .. ReplayLimit, p \in 0 .. Size] ==
        /\ k > 0 /\ Decodes(p)
        /\ \/ At(p).kind = "through"
           \/ (Falls(p) /\ ~HasTarget(p) /\ uses[k - 1, End(p)])
  IN  Drives(trace) /\ uses[ReplayLimit, o]

---------------------------------------------------------------------------
(* The work queue                                                          *)
EmptyQueue == [items |-> <<>>, queued |-> [o \in Offsets |-> 0], origins |-> {}]
TheQueue == [items |-> items, queued |-> queued, origins |-> origins]

\* The items a stateful push is compared with.
SameStart(q, it) ==
  {k \in 1 .. Len(q.items) : /\ q.items[k].variant # 0 /\ q.items[k].at = it.at
                             /\ q.items[k].conf >= it.conf}

PushUnlimited(q, it) ==
  IF IF it.variant = 0 THEN it.at \in Offsets /\ q.queued[it.at] >= it.conf
     ELSE \E k \in SameStart(q, it) : q.items[k].trace = it.trace
  THEN q
  ELSE [items |-> Append(q.items, it),
        queued |-> [o \in Offsets |-> IF o = it.at /\ it.variant = 0 THEN it.conf ELSE q.queued[o]],
        origins |-> q.origins]

\* work_queue_push
Push(q, it) ==
  IF it.variant = 0
  THEN IF it.at \in Offsets /\ q.queued[it.at] >= it.conf THEN q
       ELSE [items |-> Append(q.items, it),
             queued |-> [o \in Offsets |-> IF o = it.at THEN it.conf ELSE q.queued[o]],
             origins |-> q.origins]
  ELSE IF \/ \E k \in SameStart(q, it) :
               /\ q.items[k].trace = it.trace
               /\ it.variant = 2 => q.items[k].variant = 2
          \/ Cardinality(SameStart(q, it)) >= VariantLimit
       THEN q
       ELSE [items |-> Append(q.items, it), queued |-> q.queued, origins |-> q.origins]

\* enqueue_code_start_runtime_evidence_ex: the fact is kept even when the
\* queue drops the item.
Enqueue(q, it) ==
  Push([items |-> q.items, queued |-> q.queued,
        origins |-> IF it.reason = "fallthrough" THEN q.origins ELSE q.origins \cup {it.at}], it)
EnqueueIf(cond, q, it) == IF cond THEN Enqueue(q, it) ELSE q

Item(at, conf, reason, trace, variant) ==
  [at |-> at, conf |-> conf, reason |-> reason, trace |-> trace, variant |-> variant]

---------------------------------------------------------------------------
(* What an accepted instruction adds                                       *)

\* A target can be queued: inside the section, not inside accepted code,
\* and something decodes there.
Reaches(t, S, B) == t \in Offsets /\ ~InteriorOf(t, S, B) /\ Decodes(t)

\* The direct target of an instruction whose operand carries no relocation.
DirectTarget(o, it, S, B, q) ==
  LET t == At(o).to
      trace == IF At(o).kind = "jump" THEN it.trace ELSE After(o, it.trace)
      variant == IF it.variant = 2 \/ trace.resume THEN 2
                 ELSE IF PrefixUsesTrace(t, trace) THEN 1 ELSE 0
  IN  EnqueueIf(HasTarget(o) /\ ~IsRelocated(o) /\ Reaches(t, S, B), q,
                Item(t, Inferred, "control", trace, variant))

\* enqueue_relocated_control_target
RelocatedTarget(o, S, B, q) ==
  LET t == (CHOOSE r \in OperandRelocations(o) : TRUE).to
  IN  EnqueueIf(IsRelocated(o) /\ t \notin S /\ Reaches(t, S, B), q,
                Item(t, Inferred, "control", Unknown, 0))

\* enqueue_traced_indirect_control_target and the enqueue it ends in
TracedTarget(o, trace, S, B, q) ==
  EnqueueIf(At(o).kind = "through" /\ Drives(trace) /\ Reaches(trace.to, S, B), q,
            Item(trace.to, Inferred, "control", trace, IF trace.resume THEN 2 ELSE 0))

NextUnlessLast(o, it, q) ==
  EnqueueIf(Falls(o) /\ End(o) + 1 < Size, q, Item(End(o), Speculative, "fallthrough", After(o, it.trace), 0))

\* The tail of the loop: the inline payload of a call, or the next instruction.
NextInstruction(o, it, q) ==
  LET trace == IF it.variant = 2 /\ At(o).kind = "call" THEN Unknown ELSE After(o, it.trace)
      variant == IF it.variant = 2 THEN 2 ELSE IF it.variant = 1 /\ Drives(trace) THEN 1 ELSE 0
      conf == IF At(o).kind = "if" THEN Inferred ELSE Speculative
      resume == End(o) + At(o).payload
  IN  IF At(o).kind = "call" /\ At(o).payload > 0
      THEN EnqueueIf(resume < Size, q, Item(resume, Inferred, "resume", trace, variant))
      ELSE EnqueueIf(Falls(o) /\ End(o) < Size, q,
                     Item(End(o), conf, "fallthrough", trace, variant))

Flow(o, it, S, B, q) ==
  NextInstruction(o, it, TracedTarget(o, it.trace, S, B, RelocatedTarget(o, S, B, DirectTarget(o, it, S, B, q))))

AnyTargets(o) == IF HasTarget(o) /\ ~IsRelocated(o) THEN {At(o).to} ELSE {}

\* The label requests and the violations the targets of an instruction leave.
DirectTargets(o) == IF HasTarget(o) /\ ~IsRelocated(o) THEN {At(o).to} \cap Offsets ELSE {}
TracedTargets(o, trace) == IF At(o).kind = "through" THEN {trace.to} \cap Offsets ELSE {}
RelocatedTargets(o) ==
  IF IsRelocated(o) THEN {(CHOOSE r \in OperandRelocations(o) : TRUE).to} ELSE {}

FlowRequests(o, it, S, B) ==
  {<<t, Inferred>> : t \in {t \in DirectTargets(o) : ~InteriorOf(t, S, B)}
                            \cup {t \in TracedTargets(o, it.trace) : Reaches(t, S, B)}}
FlowViolations(o, it, S, B) ==
  {<<o, t>> : t \in {t \in DirectTargets(o) \cup TracedTargets(o, it.trace) \cup RelocatedTargets(o) :
                       InteriorOf(t, S, B)}}

---------------------------------------------------------------------------
(* May an instruction be accepted                                          *)

\* policy_structured_data_overlaps_range
OnData(o) == Extent(o) \cap case.structured # {}
\* candidate_has_invalid_code_target, candidate_reencodes_exactly
HasBadTarget(o) == HasTarget(o) /\ At(o).to = Outside
IsUnsafe(o) == HasBadTarget(o) \/ ~At(o).exact
StartOverlaps(o) == o \in bytes
Overlaps(o) == Extent(o) \cap bytes # {}

\* fallthrough_candidate_should_replace_overlap
YieldsTo(s, o, it) ==
  /\ it.reason = "fallthrough" /\ o < s
  /\ accepted[s].conf \in 1 .. Required - 1 /\ accepted[s].reason = "control"
\* replace_overlapping_inferred_targets_if_preferred
Replaced(o, it) == Extent(o) \cap starts
CanReplace(o, it) ==
  Replaced(o, it) # {} /\ \A s \in Replaced(o, it) : Decodes(s) /\ YieldsTo(s, o, it)

\* reject_or_demote_unsafe_candidate: a required start is accepted all the
\* same, and counted.
Conflicts(o, it) == IsUnsafe(o) \/ (Overlaps(o) /\ ~CanReplace(o, it))
Rejects(o, it) == OnData(o) \/ (Conflicts(o, it) /\ it.conf < Required)

RejectionViolations(o, it) ==
  IF OnData(o)
  THEN {<<o, d>> : d \in {d \in case.structured : \A e \in case.structured : d <= e}}
  ELSE (IF HasBadTarget(o) THEN {<<o, Outside>>} ELSE {})
       \cup (IF Conflicts(o, it) THEN {<<o, o>>} ELSE {})

---------------------------------------------------------------------------
(* The fixed point                                                         *)
Solving == phase \in {"solve", "solve api"}
Popped == items[cursor + 1]
Pops(it) == Solving /\ replay = NoReplay /\ cursor < Len(items) /\ it = Popped
TakesQueue(q) == items' = q.items /\ queued' = q.queued /\ origins' = q.origins

\* An offset behind the end of the section.
PopOutside ==
  /\ Pops(Popped) /\ Popped.at \notin Offsets
  /\ cursor' = cursor + 1
  /\ UNCHANGED <<case, phase, items, queued, origins, mapVars, factVars, replay, todo, indexed, fresh, passes>>

\* accept_platform_opcode_call
PopPlatformCall ==
  LET it == Popped o == it.at IN
  /\ Pops(it) /\ o \in Offsets /\ At(o).kind = "linea"
  /\ cursor' = cursor + 1
  /\ starts' = starts \cup {o} /\ bytes' = bytes \cup {o}
  /\ accepted' = [accepted EXCEPT ![o] = [conf |-> it.conf, reason |-> it.reason]]
  /\ TakesQueue(EnqueueIf(o + 1 < Size, TheQueue, Item(o + 1, Inferred, "linkage", it.trace, 0)))
  /\ UNCHANGED <<case, phase, factVars, replay, todo, indexed, fresh, passes>>

SkipUndecodable ==
  LET it == Popped o == it.at IN
  /\ Pops(it) /\ o \in Offsets /\ At(o).kind = "none"
  /\ cursor' = cursor + 1
  /\ UNCHANGED <<case, phase, items, queued, origins, mapVars, factVars, replay, todo, indexed, fresh, passes>>

\* Nothing decodes: a violation inside accepted code and for a required
\* start, which is also counted as a failure.
PopUndecodable ==
  LET it == Popped o == it.at IN
  /\ Pops(it) /\ o \in Offsets /\ At(o).kind = "none"
  /\ cursor' = cursor + 1
  /\ violations' = IF InteriorOf(o, starts, bytes) \/ it.conf = Required
                   THEN violations \cup {<<o, o>>} ELSE violations
  /\ failures' = IF it.conf = Required THEN failures \cup {o} ELSE failures
  /\ UNCHANGED <<case, phase, items, queued, origins, mapVars, requests, labels, replay, todo, indexed,
                 fresh, passes>>

\* The item as the loop goes on with it, after trace_state_mark_inline_resume.
MarkedItem(it) ==
  Item(it.at, it.conf, it.reason, Marked(it.at, it.trace),
       IF MarksResume(it.at, it.trace) THEN 2 ELSE it.variant)

\* The start is accepted already and the item carries no continuation: a
\* traced state is walked along the accepted code, anything else is dropped.
PopAccepted ==
  LET it == MarkedItem(Popped) o == Popped.at IN
  /\ Pops(Popped) /\ Decodes(o) /\ o \in starts /\ it.variant # 2
  /\ cursor' = cursor + 1
  /\ replay' = IF it.variant = 0 THEN NoReplay
               ELSE [at |-> o, trace |-> it.trace, left |-> ReplayLimit]
  /\ UNCHANGED <<case, phase, items, queued, origins, mapVars, factVars, todo, indexed, fresh, passes>>

PopRejected ==
  LET it == MarkedItem(Popped) o == Popped.at IN
  /\ Pops(Popped) /\ Decodes(o) /\ o \notin starts /\ Rejects(o, it)
  /\ cursor' = cursor + 1
  /\ violations' = violations \cup RejectionViolations(o, it)
  /\ UNCHANGED <<case, phase, items, queued, origins, mapVars, requests, labels, failures, replay, todo,
                 indexed, fresh, passes>>

\* clear_accepted_candidate on every replaced start, then mark_accepted_bytes.
PopAccepting ==
  LET it == MarkedItem(Popped)
      o == Popped.at
      gone == IF Overlaps(o) /\ CanReplace(o, it) THEN Replaced(o, it) ELSE {}
      S == (starts \ gone) \cup {o}
      B == (bytes \ Extents(gone)) \cup Extent(o)
  IN
  /\ Pops(Popped) /\ Decodes(o) /\ o \notin starts /\ ~Rejects(o, it)
  /\ cursor' = cursor + 1
  /\ starts' = S /\ bytes' = B
  /\ accepted' = [accepted EXCEPT ![o] = [conf |-> it.conf, reason |-> it.reason]]
  /\ TakesQueue(Flow(o, it, S, B, TheQueue))
  /\ requests' = requests \cup FlowRequests(o, it, S, B)
  /\ violations' = violations \cup RejectionViolations(o, it) \cup FlowViolations(o, it, S, B)
  /\ failures' = IF Conflicts(o, it) THEN failures \cup {o} ELSE failures
  /\ fresh' = (IF fresh > Cardinality(gone) THEN fresh - Cardinality(gone) ELSE 0) + 1
  /\ UNCHANGED <<case, phase, labels, replay, todo, indexed, passes>>

\* A continuation goes through accepted code as an ordinary item: nothing is
\* accepted twice, its targets are queued with the state it brings.
PopContinuation ==
  LET it == MarkedItem(Popped) o == Popped.at IN
  /\ Pops(Popped) /\ Decodes(o) /\ o \in starts /\ it.variant = 2
  /\ cursor' = cursor + 1
  /\ TakesQueue(Flow(o, it, starts, bytes, TheQueue))
  /\ requests' = requests \cup FlowRequests(o, it, starts, bytes)
  /\ violations' = violations \cup FlowViolations(o, it, starts, bytes)
  /\ UNCHANGED <<case, phase, mapVars, labels, failures, replay, todo, indexed, fresh, passes>>

ReplayForever ==
  LET o == replay.at IN
  /\ Solving /\ replay # NoReplay
  /\ replay' = IF o \notin starts \/ ~Decodes(o) \/ ~Falls(o) \/ HasTarget(o) \/ End(o) \notin starts THEN NoReplay
               ELSE [at |-> End(o), trace |-> After(o, replay.trace), left |-> replay.left]
  /\ UNCHANGED <<case, phase, queueVars, mapVars, factVars, todo, indexed, fresh, passes>>

\* One step of replay_runtime_sink_provenance_fallthrough.  "marked" is the
\* return of a continuation to the queue; otherwise a traced jump is queued,
\* and the walk goes on while the next instruction is accepted.
ReplayStep ==
  LET o == replay.at
      trace == replay.trace
      next == After(o, trace)
      ends == ~Falls(o) \/ HasTarget(o) \/ End(o) >= Size
      leaves == ~ends /\ End(o) \notin starts
      stepped == EnqueueIf(leaves /\ Drives(next), TracedTarget(o, trace, starts, bytes, TheQueue),
                           Item(End(o), IF At(o).kind = "if" THEN Inferred ELSE Speculative,
                                "fallthrough", next, 1))
      marks == MarksResume(o, trace)
      stops == replay.left = 0 \/ o \notin starts \/ ~Decodes(o)
  IN
  /\ Solving /\ replay # NoReplay
  /\ TakesQueue(IF stops THEN TheQueue
                ELSE IF marks
                THEN Enqueue(TheQueue, Item(o, Inferred, "fallthrough", Marked(o, trace), 2))
                ELSE stepped)
  /\ requests' = IF stops \/ marks \/ ~Drives(trace) THEN requests
                 ELSE requests \cup {<<t, Inferred>> : t \in {t \in TracedTargets(o, trace) :
                                                               Reaches(t, starts, bytes)}}
  /\ violations' = IF stops \/ marks \/ ~Drives(trace) THEN violations
                   ELSE violations \cup {<<o, t>> : t \in {t \in TracedTargets(o, trace) :
                                                            InteriorOf(t, starts, bytes)}}
  /\ replay' = IF stops \/ marks \/ ends \/ leaves THEN NoReplay
               ELSE [at |-> End(o), trace |-> next, left |-> replay.left - 1]
  /\ UNCHANGED <<case, phase, cursor, mapVars, labels, failures, todo, indexed, fresh, passes>>

\* The queue is empty.  After the first fixed point the accepted candidate
\* index is built and the required label requests are gone through.
RequiredRequests == {r[1] : r \in {r \in requests : r[2] = Required}}
Solved ==
  /\ Solving /\ replay = NoReplay /\ cursor = Len(items)
  /\ phase' = IF phase = "solve" THEN "labels" ELSE "rebuild api"
  /\ todo' = IF phase = "solve" THEN RequiredRequests ELSE {}
  /\ indexed' = IF phase = "solve" THEN {o \in starts : Decodes(o)} ELSE indexed
  /\ UNCHANGED <<case, queueVars, mapVars, factVars, replay, fresh, passes>>

---------------------------------------------------------------------------
(* Conflicts with labels and relocations                                   *)

\* accepted_candidate_index_covering: the last indexed start at or below o,
\* if it is still accepted and reaches o.
Covering(o) ==
  {s \in indexed \cap starts : s <= o /\ o < End(s) /\ \A t \in indexed : t <= o => t <= s}

\* demote_required_label_conflicts, one request of its loop
DemoteLabel(o) ==
  LET gone == IF InteriorOf(o, starts, bytes) THEN {s \in Covering(o) : s < o} ELSE {} IN
  /\ phase = "labels" /\ o \in todo
  /\ todo' = todo \ {o}
  /\ starts' = starts \ gone /\ bytes' = bytes \ Extents(gone)
  /\ labels' = IF gone # {} THEN labels \cup {o} ELSE labels
  /\ violations' = violations \cup {<<s, o>> : s \in gone}
  /\ UNCHANGED <<case, phase, queueVars, accepted, requests, failures, replay, indexed, fresh, passes>>

\* demote_opcode_relocation_conflicts: a relocated long word must lie wholly
\* behind the first word of the one instruction it is in.
ConflictsBehind(at) ==
  {s \in UNION {Covering(o) : o \in {at, at + 1} \cap Offsets} : s > at \/ End(s) < at + 2}
RelocationConflicts(at) ==
  {s \in UNION {Covering(o) : o \in {at, at + 1} \cap Offsets} : s >= at \/ End(s) < at + 2}
DemoteStartOnly(at) ==
  LET gone == RelocationConflicts(at) IN
  /\ phase = "relocations" /\ at \in todo
  /\ todo' = todo \ {at}
  /\ starts' = starts \ gone
  /\ violations' = violations \cup {<<s, at>> : s \in gone}
  /\ UNCHANGED <<case, phase, queueVars, bytes, accepted, requests, labels, failures, replay, indexed, fresh, passes>>

DemoteRelocation(at) ==
  LET gone == RelocationConflicts(at) IN
  /\ phase = "relocations" /\ at \in todo
  /\ todo' = todo \ {at}
  /\ starts' = starts \ gone /\ bytes' = bytes \ Extents(gone)
  /\ violations' = violations \cup {<<s, at>> : s \in gone}
  /\ UNCHANGED <<case, phase, queueVars, accepted, requests, labels, failures, replay, indexed, fresh, passes>>

LabelsDemoted ==
  /\ phase = "labels" /\ todo = {}
  /\ phase' = "relocations" /\ todo' = {r.at : r \in case.relocations}
  /\ UNCHANGED <<case, queueVars, mapVars, factVars, replay, indexed, fresh, passes>>

RelocationsDemoted ==
  /\ phase = "relocations" /\ todo = {}
  /\ phase' = "rebuild"
  /\ UNCHANGED <<case, queueVars, mapVars, factVars, replay, todo, indexed, fresh, passes>>

---------------------------------------------------------------------------
(* The byte map from the starts, the labels, the wrappers                  *)
Overlap(s, t) == s # t /\ Extent(s) \cap Extent(t) # {}
DecodedStarts == {o \in starts : Decodes(o)}

RebuildOnce ==
  /\ phase \in {"rebuild", "rebuild api"}
  /\ IF \E s, t \in DecodedStarts : Overlap(s, t)
     THEN phase' = "failed" /\ UNCHANGED <<bytes, labels, passes>>
     ELSE /\ bytes' = Extents(DecodedStarts)
          /\ phase' = IF phase = "rebuild" THEN "seed" ELSE "prune"
          /\ passes' = passes + 1
          /\ labels' = IF phase = "rebuild"
                       THEN labels \cup {r[1] : r \in {r \in requests : ~InteriorOf(r[1], starts, bytes')}}
                       ELSE labels
  /\ UNCHANGED <<case, queueVars, starts, accepted, requests, violations, failures, replay, todo, indexed, fresh>>

\* rebuild_accepted_bytes_from_starts: the whole analysis fails when two
\* accepted instructions share a byte.  A platform call has no candidate, so
\* its bytes are not rebuilt.
Rebuild ==
  /\ phase \in {"rebuild", "rebuild api"}
  /\ IF \E s, t \in DecodedStarts : Overlap(s, t)
     THEN phase' = "failed" /\ UNCHANGED <<bytes, labels, passes>>
     ELSE /\ bytes' = Extents(DecodedStarts)
          /\ IF phase = "rebuild"
             THEN /\ phase' = "seed"
                  \* materialize_safe_required_labels
                  /\ labels' = labels \cup {r[1] : r \in {r \in requests :
                                                          ~InteriorOf(r[1], starts, bytes')}}
                  /\ passes' = passes
             ELSE /\ phase' = IF fresh = 0 \/ passes > Size THEN "prune" ELSE "seed"
                  /\ passes' = passes + 1
                  /\ UNCHANGED labels
  /\ UNCHANGED <<case, queueVars, starts, accepted, requests, violations, failures, replay, todo, indexed, fresh>>

\* labelled_entry_decodes_terminal_api_wrapper and, with a relocation, its
\* boundary form: a short run of instructions outside accepted code that
\* calls the platform and does not fall out of its end.
Wrapper(o, relocated, B) ==
  LET wraps[k \in 0 .. ReplayLimit, p \in 0 .. Size, api \in BOOLEAN, rel \in BOOLEAN] ==
        /\ k > 0 /\ Decodes(p) /\ Extent(p) \cap B = {}
        /\ LET a == api \/ At(p).api
               r == rel \/ (\E x \in case.relocations : x.at >= p /\ x.at + 2 <= End(p))
           IN  IF Falls(p) THEN wraps[k - 1, End(p), a, r]
               ELSE a /\ (relocated => r) /\ ReplayLimit - k + 1 >= WrapperLength
  IN  wraps[ReplayLimit, o, FALSE, FALSE]

\* seed_linkage_api_entry_labels
LinkageEntries(B) ==
  {o \in RequiredRequests : o \in Offsets /\ o \notin starts /\ o \notin B /\ o \in labels /\ Wrapper(o, FALSE, B)}
\* seed_boundary_api_entries
BoundaryEntries(B) ==
  {o \in Offsets \ {0} : o - 1 \in B /\ o \notin starts /\ o \notin B /\ Wrapper(o, TRUE, B)}

\* One pass: the labelled entries are seeded, then the boundaries; the
\* fixed point is run again unless there was nothing to seed.
SeedEntries ==
  LET seeds == {<<o, "linkage">> : o \in LinkageEntries(bytes)} \cup {<<o, "boundary">> : o \in BoundaryEntries(bytes)} IN
  /\ phase = "seed"
  /\ phase' = IF seeds = {} THEN "prune" ELSE "seeding"
  /\ todo' = seeds
  /\ UNCHANGED <<case, queueVars, mapVars, factVars, replay, indexed, fresh, passes>>
SeedEntry(s) ==
  /\ phase = "seeding" /\ s \in todo
  /\ s[2] = "boundary" => \A t \in todo : t[2] = "boundary"
  /\ TakesQueue(Enqueue(TheQueue, Item(s[1], Inferred, s[2], Unknown, 0)))
  /\ todo' = todo \ {s}
  /\ phase' = IF todo = {s} THEN "solve api" ELSE phase
  /\ fresh' = 0
  /\ UNCHANGED <<case, cursor, mapVars, factVars, replay, indexed, passes>>

---------------------------------------------------------------------------
(* Pruning and the verdict                                                 *)

\* The accepted starts an accepted instruction can continue with.  A direct
\* target is followed whether or not its operand is relocated.
Successors(o) ==
  IF ~Decodes(o) THEN {}
  ELSE (IF HasTarget(o) THEN {At(o).to} ELSE {}) \cup (IF Falls(o) THEN {End(o)} ELSE {})
IsClosed(R) == \A o \in R : Successors(o) \cap starts \subseteq R
\* The least set of accepted starts that holds the seeds and is closed.
Reachable ==
  {o \in starts : \A R \in SUBSET starts : origins \cap starts \subseteq R /\ IsClosed(R) => o \in R}

\* prune_unreachable_accepted_code
WordsOf(o) == IF Decodes(o) THEN Extent(o) ELSE {o}
Prune ==
  LET gone == starts \ Reachable IN
  /\ phase = "prune"
  /\ phase' = "done"
  /\ starts' = starts \ gone /\ bytes' = bytes \ UNION {WordsOf(o) : o \in gone}
  /\ UNCHANGED <<case, queueVars, accepted, factVars, replay, todo, indexed, fresh, passes>>

\* count_data_spans_and_append_facts: what is left is data.
DataWords == Offsets \ bytes

---------------------------------------------------------------------------
\* seed_facts_from_object: every entry is queued as required, every
\* relocation target gets its label and a required request.
Init ==
  /\ case \in Cases
  /\ phase = "entries" /\ todo = case.entries
  /\ items = <<>> /\ cursor = 0 /\ queued = [o \in Offsets |-> 0]
  /\ starts = {} /\ bytes = {} /\ accepted = [o \in Offsets |-> NoFact]
  /\ origins = {}
  /\ requests = {<<r.to, Required>> : r \in case.relocations}
  /\ labels = case.entries \cup {r.to : r \in case.relocations}
  /\ violations = {} /\ failures = {}
  /\ replay = NoReplay /\ indexed = {} /\ fresh = 0 /\ passes = 0

SeedRequired(e) ==
  /\ phase = "entries" /\ e \in todo
  /\ TakesQueue(Enqueue(TheQueue, Item(e, Required, "entry", Unknown, 0)))
  /\ todo' = todo \ {e}
  /\ UNCHANGED <<case, phase, cursor, mapVars, factVars, replay, indexed, fresh, passes>>
Seeded ==
  /\ phase = "entries" /\ todo = {}
  /\ phase' = "solve"
  /\ UNCHANGED <<case, queueVars, mapVars, factVars, replay, todo, indexed, fresh, passes>>

Finished == phase \in {"done", "failed"} /\ UNCHANGED vars

Pop == PopOutside \/ PopPlatformCall \/ PopUndecodable \/ PopAccepted \/ PopRejected \/ PopAccepting
       \/ PopContinuation
Next ==
  \/ \E e \in todo : SeedRequired(e)
  \/ Seeded
  \/ Pop \/ ReplayStep \/ Solved
  \/ \E o \in todo : DemoteLabel(o)
  \/ LabelsDemoted
  \/ \E at \in todo : DemoteRelocation(at)
  \/ RelocationsDemoted
  \/ Rebuild
  \/ SeedEntries
  \/ \E s \in todo : SeedEntry(s)
  \/ Prune
  \/ Finished

Spec == Init /\ [][Next]_vars

---------------------------------------------------------------------------
(* Properties                                                              *)
Phases == {"entries", "solve", "labels", "relocations", "rebuild", "seed", "seeding", "solve api",
           "rebuild api", "prune", "done", "failed"}
TypeOK ==
  /\ phase \in Phases
  /\ items \in Seq(Items) /\ cursor \in 0 .. Len(items)
  /\ queued \in [Offsets -> 0 .. Required]
  /\ starts \subseteq Offsets /\ bytes \subseteq Offsets
  /\ accepted \in [Offsets -> [conf : 0 .. Required, reason : Reasons]]
  /\ origins \subseteq 0 .. Size
  /\ requests \subseteq Offsets \X (1 .. Required) /\ labels \subseteq 0 .. Size
  /\ violations \subseteq Offsets \X (0 .. Size) /\ failures \subseteq Offsets
  /\ replay \in [at : 0 .. Nowhere, trace : Traces, left : 0 .. ReplayLimit]
  /\ indexed \subseteq Offsets /\ fresh \in 0 .. Size /\ passes \in 0 .. Size + 2

\* Two instructions alone never come to share a byte: unless the analysis has
\* counted a required start it cannot honour, there is a third that overlaps
\* one of them and was accepted at some time - through evictions, demotions and
\* the later passes as well.
Evicted == {o \in Offsets : accepted[o].conf \in 1 .. Required - 1 /\ o \notin starts}
Once == {o \in Offsets : Decodes(o) /\ accepted[o].conf # 0}
OverlapsNeedAThird ==
  failures = {} =>
    \A s, t \in DecodedStarts :
      Overlap(s, t) => \E r \in Once \ {s, t} : Overlap(r, s) \/ Overlap(r, t)

\* Accepted instructions never share a byte unless a required start could not
\* be honoured: what rebuild_accepted_bytes_from_starts asserts, and what the
\* design asks of ranges over accepted code.
AcceptedDoNotOverlap ==
  \A s, t \in DecodedStarts : Overlap(s, t) => failures # {}

\* The byte map and the starts tell the same story about the instructions:
\* no byte is left of one taken back, and an instruction misses a byte only
\* where another that held it was taken back.
TakenBack == {o \in Offsets : accepted[o].conf # 0 /\ o \notin starts}
BytesFollowStarts ==
  /\ \A s \in DecodedStarts : \A b \in Extent(s) : b \in bytes \/ \E r \in TakenBack : b \in WordsOf(r)
  /\ bytes \subseteq Extents(DecodedStarts) \cup starts

\* Where the program goes on after an instruction.
Continuations(o) ==
  {t \in Offsets : \/ HasTarget(o) /\ t = At(o).to
                   \/ Falls(o) /\ t = End(o) + IF At(o).kind = "call" THEN At(o).payload ELSE 0}

\* When the queue is empty the fixed point is one: an instruction the flow of
\* accepted code continues with is accepted, or a violation names it, or it was
\* accepted and gave way to an instruction that falls into it.
FixedPointIsClosed ==
  Solving /\ replay = NoReplay /\ cursor = Len(items) =>
    \A s \in DecodedStarts : \A t \in {t \in Continuations(s) : Decodes(t)} :
      t \in starts \cup Evicted \/ \E v \in violations : v[1] = t \/ v = <<s, t>>

\* After the demotions no required label is inside an instruction and no
\* relocated long word lies over an opcode or over two instructions.  Of two
\* instructions that overlapped, the loops see only the later one.
ConflictsAreDemoted ==
  phase = "rebuild" =>
    \A s \in {s \in DecodedStarts : \A t \in indexed : ~Overlap(s, t)} :
      /\ \A o \in RequiredRequests : InteriorOf(o, starts, bytes) => o \notin Extent(s)
      /\ \A r \in case.relocations : Extent(s) \cap {r.at, r.at + 1} # {} => s < r.at /\ r.at + 2 <= End(s)

\* An entry is code in the end, or a failure or a violation names it.
EntriesAreAnswered ==
  phase = "done" => \A e \in case.entries \cap Offsets :
                      e \in starts \/ e \in failures \/ \E v \in violations : v[1] = e

\* The passes over wrappers end at a fixed point, not at their limit: what
\* could still be seeded has been queued, and refused, before.
SeedingIsComplete ==
  phase = "prune" => \A o \in LinkageEntries(bytes) \cup BoundaryEntries(bytes) : queued[o] >= Inferred

\* The states traced into one start never flood the queue.
QueueIsBounded ==
  \A o \in Offsets, c \in 1 .. Required :
    Cardinality({k \in DOMAIN items : items[k].at = o /\ items[k].conf = c}) <= VariantLimit + 1

\* Code is never also a data span.  No run checks it: the bytes of an accepted
\* platform call are lost when the map is rebuilt, and then counted as data.
CodeIsNotData == phase = "done" => starts \cap DataWords = {}

\* Every step brings the end nearer: it starts a later pass, a later phase of
\* the pass, or takes an item, a step of the walk or an entry of the loop that
\* nothing puts back.  With the bounds on passes and on the queue the analysis
\* ends on every input.
PhaseOrder ==
  [p \in Phases |-> CASE p = "entries" -> 0 [] p = "solve" -> 1 [] p = "labels" -> 2 [] p = "relocations" -> 3
                     [] p = "rebuild" -> 4 [] p = "seed" -> 5 [] p = "seeding" -> 6 [] p = "solve api" -> 7
                     [] p = "rebuild api" -> 8 [] p = "prune" -> 9 [] OTHER -> 10]
Left(r) == IF r = NoReplay THEN 0 ELSE r.left + 1
EveryStepAdvances ==
  [][\/ passes' > passes
     \/ /\ passes' = passes
        /\ \/ PhaseOrder[phase'] > PhaseOrder[phase]
           \/ /\ phase' = phase
              /\ \/ cursor' > cursor
                 \/ cursor' = cursor /\ Left(replay') < Left(replay)
                 \/ cursor' = cursor /\ replay' = replay /\ todo' \subseteq todo /\ todo' # todo]_vars

=============================================================================
