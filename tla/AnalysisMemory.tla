--------------------------- MODULE AnalysisMemory ----------------------------
(***************************************************************************)
(* Who allocates in the workflow arena of the native analysis              *)
(* (src/src/m68k_analysis_facts_v2.c, facts_v2_collect_profile_internal):  *)
(* the label points, which grow while labels are created, and its          *)
(* temporary users between a mark and its rewind: the index of accepted    *)
(* candidates, built three times, and the maps of the prune.               *)
(*                                                                         *)
(* ScratchArena shows that the arena keeps its promise to callers that use *)
(* their scopes as scopes.  This module is about one caller that does not  *)
(* obviously do so: labels are created while the index is open.            *)
(***************************************************************************)
EXTENDS Arena

CONSTANTS
  Labels,        \* offsets that may get a label: values other than the three below
  FirstCapacity, \* label points of the first allocation: 64
  Scratch,       \* the value the index and the prune write to what they allocate
  ScratchSizes   \* cells the index takes (by accepted instruction) and the prune (by byte)

VARIABLES
  phase,     \* the stage the analysis is in
  points,    \* label_lookup: points, point_count, point_capacity
  created,   \* the labels created, in order
  index      \* the mark of the index, or of the prune, and is it open

memoryVars == <<arenaVars, phase, points, created, index>>

NoIndex == [open |-> FALSE, mark |-> TakenMark]
NoPoints == [at |-> [at |-> chain[1].at, from |-> 0], count |-> 0, capacity |-> 0]

\* The stages in the order of the code, and those that create labels: the
\* seeding, the anchors of PC-relative data inside instructions, and the
\* required labels.  The demotions, between "index" and "close", create none:
\* every required request had its label from the seeding.
Stages == <<"seed", "index", "close", "rebuild", "classify", "reopen", "anchors", "leave",
            "labels", "prune", "pruned", "read">>
Creating == {"seed", "anchors", "labels"}
Opening == {"index", "rebuild", "reopen", "prune"}
Closing == {"close", "classify", "leave", "pruned"}
NextStage(s) == Stages[1 + CHOOSE i \in 1 .. Len(Stages) - 1 : Stages[i] = s]

Kept(n) == [i \in 0 .. n - 1 |-> memory[points.at.at][points.at.from + i]]
Numbered(s) == [i \in 0 .. Len(s) - 1 |-> s[i + 1]]

\* label_lookup_create_label and label_lookup_append_point
NeedsRoom == points.count = points.capacity
Grown == IF points.capacity = 0 THEN FirstCapacity ELSE 2 * points.capacity
CreateLabel(l) ==
  /\ phase \in Creating /\ ~\E i \in DOMAIN created : created[i] = l
  /\ created' = Append(created, l)
  /\ IF NeedsRoom
     THEN \E h \in Places(Grown) :
            /\ Alloc(Grown, h, [i \in 0 .. points.count |-> IF i = points.count THEN l ELSE Kept(points.count)[i]])
            /\ points' = [at |-> h, count |-> points.count + 1, capacity |-> Grown]
     ELSE /\ memory' = Filled(memory, points.at, [i \in {points.count} |-> l])
          /\ points' = [points EXCEPT !.count = @ + 1]
          /\ UNCHANGED <<chain, current, stats>>
  /\ UNCHANGED <<phase, index>>

\* accepted_candidate_index_build, and the maps and the queue of
\* prune_unreachable_accepted_code
OpenScratch ==
  /\ phase \in Opening
  /\ index' = [open |-> TRUE, mark |-> TakenMark]
  /\ \E n \in ScratchSizes : \E h \in Places(n) : Alloc(n, h, [i \in 0 .. n - 1 |-> Scratch])
  /\ phase' = NextStage(phase)
  /\ UNCHANGED <<points, created>>

\* accepted_candidate_index_destroy, and the end of the prune
CloseScratch ==
  /\ phase \in Closing
  /\ Rewind(index.mark)
  /\ index' = [index EXCEPT !.open = FALSE]
  /\ phase' = NextStage(phase)
  /\ UNCHANGED <<points, created>>

\* The end of a stage that creates labels.
EndStage ==
  /\ phase \in Creating
  /\ phase' = NextStage(phase)
  /\ UNCHANGED <<arenaVars, points, created, index>>

\* m68k_render_lookup_build gets the points.
Read == phase = "read" /\ UNCHANGED memoryVars

Init ==
  /\ InitArena
  /\ phase = "seed" /\ points = NoPoints /\ created = <<>> /\ index = NoIndex
Next ==
  \/ \E l \in Labels : CreateLabel(l)
  \/ OpenScratch \/ CloseScratch \/ EndStage \/ Read
Spec == Init /\ [][Next]_memoryVars

---------------------------------------------------------------------------
(* Properties                                                              *)
\* The render lookup is built from the labels that were created: the array of
\* label points has not been given back, and given to somebody else, between
\* the creation of a label and its use.
LabelsAreKept == phase = "read" => Kept(points.count) = Numbered(created)

=============================================================================
