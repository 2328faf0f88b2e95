------------------------ MODULE ReachableCode_proofs -------------------------
(***************************************************************************)
(* Proofs about ReachableCode, for sections of every size and every        *)
(* object: the work queue is bounded and ends at a fixed point, entries    *)
(* are answered, bytes follow starts, conflicts with labels and            *)
(* relocations are demoted, the passes over wrappers end at a fixed point  *)
(* and not at their limit.                                                 *)
(*                                                                         *)
(* The argument about the queue has two halves.  What is enqueued is in    *)
(* the queue for good, or was refused because an item of the same offset   *)
(* is (QueueInv, Later); what was popped is settled: code, named by a      *)
(* violation, or code that gave way (Settled).  So nothing that accepted   *)
(* code continues with is left when the cursor is at the end.  Entries are *)
(* in front of everything else and queued once, so a required start is     *)
(* never met as code that something weaker has accepted (Honoured).        *)
(*                                                                         *)
(* A byte an instruction misses was held by one that gave way to yet       *)
(* another (DamageInv), which is the third that two overlapping            *)
(* instructions take (PairsInv).  And a pass over wrappers that accepts    *)
(* something has queued a start as a seed that was not one before          *)
(* (CountInv), so there are no more passes than words.                     *)
(***************************************************************************)
EXTENDS ReachableCode, FiniteSetTheorems, WellFoundedInduction, TLAPS

-----------------------------------------------------------------------------
(* The object that is analysed                                             *)

LEMMA Constants ==
  /\ Size \in Nat \ {0} /\ VariantLimit \in Nat \ {0} /\ ReplayLimit \in Nat \ {0} /\ WrapperLength \in Nat
  /\ Offsets \subseteq Nat /\ \A o \in Offsets : o < Size
  /\ Outside \notin Offsets /\ Nowhere \notin Offsets /\ Outside # Nowhere
BY CaseAssumption DEF CaseAssumption, Offsets, Outside, Nowhere

\* What CaseAssumption says of the object, in terms of the operators on offsets.
LEMMA CaseType ==
  ASSUME case \in Cases
  PROVE  /\ case.entries \subseteq 0 .. Size /\ case.structured \subseteq Offsets
         /\ \A r \in case.relocations : r.at \in Offsets /\ r.to \in Offsets
         /\ \A o \in Offsets :
              /\ At(o).kind \in Flows \cup {"none", "linea"} /\ At(o).len \in 1 .. Size /\ At(o).to \in 0 .. Nowhere
              /\ At(o).sets \in Traces \cup {Keep} /\ At(o).payload \in 0 .. Size
              /\ End(o) \in Nat /\ o < End(o) /\ End(o) <= Size
              /\ Extent(o) \subseteq Offsets /\ o \in Extent(o)
         /\ \A o \in Offsets : \A r \in OperandRelocations(o) : IsRelocated(o) => At(o).to = r.to
<1>1. /\ case.code \in [Offsets -> Decoded]
      /\ \A o \in Offsets : o + case.code[o].len <= Size
      /\ case.entries \subseteq 0 .. Size
      /\ case.relocations \subseteq [at : Offsets, to : Offsets]
      /\ case.structured \subseteq Offsets
      /\ \A o \in Offsets, r \in case.relocations :
           r.at > o /\ r.at + 2 <= o + case.code[o].len /\ case.code[o].kind \in {"jump", "if", "branch", "call"}
             => case.code[o].to = r.to
  BY CaseAssumption DEF CaseAssumption
<1>2. ASSUME NEW o \in Offsets
      PROVE  /\ At(o).kind \in Flows \cup {"none", "linea"} /\ At(o).len \in 1 .. Size /\ At(o).to \in 0 .. Nowhere
             /\ At(o).sets \in Traces \cup {Keep} /\ At(o).payload \in 0 .. Size
             /\ End(o) \in Nat /\ o < End(o) /\ End(o) <= Size
             /\ Extent(o) \subseteq Offsets /\ o \in Extent(o)
  <2>1. At(o) \in Decoded
    BY <1>1 DEF At
  <2>2. /\ At(o).kind \in Flows \cup {"none", "linea"} /\ At(o).len \in 1 .. Size /\ At(o).to \in 0 .. Nowhere
        /\ At(o).sets \in Traces \cup {Keep} /\ At(o).payload \in 0 .. Size
    BY <2>1 DEF Decoded
  <2>3. End(o) \in Nat /\ o < End(o) /\ End(o) <= Size
    BY <1>1, <2>2, Constants DEF End, At
  <2>4. Extent(o) \subseteq Offsets /\ o \in Extent(o)
    BY <2>3, Constants DEF Extent, Offsets
  <2> QED
    BY <2>2, <2>3, <2>4
<1>3. ASSUME NEW o \in Offsets, NEW r \in OperandRelocations(o), IsRelocated(o)
      PROVE  At(o).to = r.to
  BY <1>1, <1>3 DEF IsRelocated, HasTarget, OperandRelocations, At, End
<1>4. \A r \in case.relocations : r.at \in Offsets /\ r.to \in Offsets
  BY <1>1
<1> QED
  BY <1>1, <1>2, <1>3, <1>4

LEMMA DecodesIs == ASSUME NEW o, Decodes(o) PROVE o \in Offsets /\ At(o).kind \in Flows
BY DEF Decodes

-----------------------------------------------------------------------------
(* The work queue                                                          *)

Weaker == 1 .. Required - 1
HasItem(q, o) == \E k \in DOMAIN q.items : q.items[k].at = o
HasRequired(q, o) == \E k \in DOMAIN q.items : q.items[k].at = o /\ q.items[k].conf = Required
Traced(q, o, c) == {k \in DOMAIN q.items : q.items[k].at = o /\ q.items[k].conf = c /\ q.items[k].variant # 0}

QueueTyped(q) ==
  /\ q.items \in Seq(Items) /\ q.queued \in [Offsets -> 0 .. Required] /\ q.origins \subseteq 0 .. Size

\* queued_confidence and the items tell the same story, an offset is queued
\* once with each confidence and in few variants, required items are in front.
QueuedAreItems(q) ==
  \A o \in Offsets : q.queued[o] # 0 =>
    \E k \in DOMAIN q.items : q.items[k].at = o /\ q.items[k].conf = q.queued[o]
PlainAreQueued(q) ==
  \A k \in DOMAIN q.items :
    q.items[k].at \in Offsets /\ q.items[k].variant = 0 => q.items[k].conf <= q.queued[q.items[k].at]
PlainOnce(q) ==
  \A j, k \in DOMAIN q.items :
    /\ q.items[j].at = q.items[k].at /\ q.items[j].conf = q.items[k].conf /\ q.items[j].at \in Offsets
    /\ q.items[j].variant = 0 /\ q.items[k].variant = 0
    => j = k
TracedAreFew(q) == \A o \in Offsets, c \in 1 .. Required : Cardinality(Traced(q, o, c)) <= VariantLimit
RequiredArePlain(q) == \A k \in DOMAIN q.items : q.items[k].conf = Required => q.items[k].variant = 0
RequiredFirst(q) ==
  \A j, k \in DOMAIN q.items : j < k /\ q.items[k].conf = Required => q.items[j].conf = Required
QueueInv(q) ==
  /\ QueueTyped(q) /\ QueuedAreItems(q) /\ PlainAreQueued(q) /\ PlainOnce(q)
  /\ TracedAreFew(q) /\ RequiredArePlain(q) /\ RequiredFirst(q)

\* Queue r is queue q with weaker items behind it.
Later(q, r) ==
  /\ Len(q.items) <= Len(r.items)
  /\ \A k \in 1 .. Len(q.items) : r.items[k] = q.items[k]
  /\ \A k \in Len(q.items) + 1 .. Len(r.items) : r.items[k].conf \in Weaker
  /\ \A o \in Offsets : q.queued[o] <= r.queued[o]
  /\ q.origins \subseteq r.origins

LEMMA ItemType ==
  ASSUME NEW it \in Items
  PROVE  /\ it.at \in 0 .. Size /\ it.conf \in 1 .. 3 /\ it.reason \in Reasons /\ it.trace \in Traces
         /\ it.variant \in 0 .. 2 /\ it.conf \in Nat /\ it.variant \in Nat
BY DEF Items

\* What work_queue_push does with an item: drop it, or put it behind.
Dropped(q, it, r) ==
  /\ r.items = q.items /\ r.queued = q.queued
  /\ \/ it.variant = 0 /\ it.at \in Offsets /\ q.queued[it.at] >= it.conf
     \/ it.variant # 0 /\ HasItem(q, it.at)
PutPlain(q, it, r) ==
  /\ it.variant = 0 /\ (it.at \in Offsets => q.queued[it.at] < it.conf)
  /\ r.items = Append(q.items, it)
  /\ r.queued = [o \in Offsets |-> IF o = it.at THEN it.conf ELSE q.queued[o]]
PutTraced(q, it, r) ==
  /\ it.variant # 0 /\ Cardinality(SameStart(q, it)) < VariantLimit
  /\ r.items = Append(q.items, it) /\ r.queued = q.queued

LEMMA SameStartType ==
  ASSUME NEW q, QueueTyped(q), NEW it \in Items
  PROVE  /\ SameStart(q, it) \subseteq DOMAIN q.items /\ IsFiniteSet(SameStart(q, it))
         /\ IsFiniteSet(DOMAIN q.items) /\ DOMAIN q.items = 1 .. Len(q.items) /\ Len(q.items) \in Nat
         /\ SameStart(q, it) # {} => HasItem(q, it.at)
<1>1. q.items \in Seq(Items) /\ Len(q.items) \in Nat /\ DOMAIN q.items = 1 .. Len(q.items)
  BY DEF QueueTyped
<1>2. IsFiniteSet(1 .. Len(q.items))
  BY <1>1, FS_Interval
<1>3. SameStart(q, it) \in SUBSET (1 .. Len(q.items))
  BY DEF SameStart
<1>4. IsFiniteSet(SameStart(q, it))
  BY <1>2, <1>3, FS_Subset
<1>5. SameStart(q, it) # {} => HasItem(q, it.at)
  BY <1>1 DEF SameStart, HasItem
<1> QED
  BY <1>1, <1>2, <1>3, <1>4, <1>5

LEMMA Pushing ==
  ASSUME NEW q, QueueTyped(q), NEW it \in Items
  PROVE  LET r == Enqueue(q, it) IN
         /\ r.origins = IF it.reason = "fallthrough" THEN q.origins ELSE q.origins \cup {it.at}
         /\ Dropped(q, it, r) \/ PutPlain(q, it, r) \/ PutTraced(q, it, r)
<1> DEFINE origs == IF it.reason = "fallthrough" THEN q.origins ELSE q.origins \cup {it.at}
           p == [items |-> q.items, queued |-> q.queued, origins |-> origs]
           r == Push(p, it)
<1>1. Enqueue(q, it) = r
  BY DEF Enqueue
<1>2. p.items = q.items /\ p.queued = q.queued /\ p.origins = origs
  OBVIOUS
<1>3. SameStart(p, it) = SameStart(q, it)
  BY <1>2 DEF SameStart
<1>4. r.origins = origs
  BY <1>2 DEF Push
<1>5. Cardinality(SameStart(q, it)) >= VariantLimit => HasItem(q, it.at)
  BY SameStartType, FS_EmptySet, Constants
<1>6. (\E k \in SameStart(q, it) : TRUE) => HasItem(q, it.at)
  BY SameStartType
<1>7. Cardinality(SameStart(q, it)) \in Nat
  BY SameStartType, FS_CardinalityType
<1>8. it.variant \in Nat /\ it.conf \in Nat /\ (it.at \in Offsets => q.queued[it.at] \in Nat)
  BY ItemType DEF QueueTyped, Required
<1> HIDE DEF p, origs
<1> DEFINE refused == it.at \in Offsets /\ p.queued[it.at] >= it.conf
           known == \E k \in SameStart(p, it) :
                      p.items[k].trace = it.trace /\ (it.variant = 2 => p.items[k].variant = 2)
           full == Cardinality(SameStart(p, it)) >= VariantLimit
           queuedNow == [o \in Offsets |-> IF o = it.at THEN it.conf ELSE p.queued[o]]
           plain == [items |-> Append(p.items, it), queued |-> queuedNow, origins |-> p.origins]
           traced == [items |-> Append(p.items, it), queued |-> p.queued, origins |-> p.origins]
<1>9. r = IF it.variant = 0 THEN IF refused THEN p ELSE plain ELSE IF known \/ full THEN p ELSE traced
  BY DEF Push
<1>10. known => HasItem(q, it.at)
  BY <1>3, <1>6
<1>11. full => HasItem(q, it.at)
  BY <1>3, <1>5
<1>12. ~full => Cardinality(SameStart(q, it)) < VariantLimit
  BY <1>3, <1>7, Constants
<1>13. refused <=> it.at \in Offsets /\ q.queued[it.at] >= it.conf
  BY <1>2
<1>14. ~refused => (it.at \in Offsets => q.queued[it.at] < it.conf)
  BY <1>8, <1>13
<1>15. /\ plain.items = Append(q.items, it) /\ plain.queued = queuedNow
       /\ traced.items = Append(q.items, it) /\ traced.queued = q.queued
  BY <1>2
<1>16. queuedNow = [o \in Offsets |-> IF o = it.at THEN it.conf ELSE q.queued[o]]
  BY <1>2
<1> HIDE DEF r, refused, known, full, queuedNow, plain, traced
<1>17. Dropped(q, it, r) \/ PutPlain(q, it, r) \/ PutTraced(q, it, r)
  <2>1. CASE it.variant = 0 /\ refused
    <3>1. r = p
      BY <1>9, <2>1
    <3> QED
      BY <1>2, <1>13, <2>1, <3>1 DEF Dropped
  <2>2. CASE it.variant = 0 /\ ~refused
    <3>1. r = plain
      BY <1>9, <2>2
    <3> QED
      BY <1>14, <1>15, <1>16, <2>2, <3>1 DEF PutPlain
  <2>3. CASE it.variant # 0 /\ (known \/ full)
    <3>1. r = p
      BY <1>9, <2>3
    <3> QED
      BY <1>2, <1>10, <1>11, <2>3, <3>1 DEF Dropped
  <2>4. CASE it.variant # 0 /\ ~(known \/ full)
    <3>1. r = traced
      BY <1>9, <2>4
    <3> QED
      BY <1>12, <1>15, <2>4, <3>1 DEF PutTraced
  <2> QED
    BY <2>1, <2>2, <2>3, <2>4
<1> QED
  BY <1>1, <1>4, <1>17 DEF origs

\* A queue with one more item: what was there keeps its place.
LEMMA OneItemMore ==
  ASSUME NEW q, QueueTyped(q), NEW it \in Items, NEW r, r.items = Append(q.items, it)
  PROVE  /\ r.items \in Seq(Items) /\ Len(q.items) \in Nat /\ Len(r.items) = Len(q.items) + 1
         /\ DOMAIN q.items = 1 .. Len(q.items) /\ DOMAIN r.items = 1 .. Len(q.items) + 1
         /\ r.items[Len(q.items) + 1] = it
         /\ \A k \in 1 .. Len(q.items) : r.items[k] = q.items[k]
         /\ \A k \in DOMAIN r.items : k \in DOMAIN q.items \/ k = Len(q.items) + 1
BY DEF QueueTyped

LEMMA TracedType ==
  ASSUME NEW q, QueueTyped(q), NEW o, NEW c
  PROVE  IsFiniteSet(Traced(q, o, c)) /\ Cardinality(Traced(q, o, c)) \in Nat
<1>1. Len(q.items) \in Nat /\ DOMAIN q.items = 1 .. Len(q.items)
  BY DEF QueueTyped
<1>2. IsFiniteSet(1 .. Len(q.items))
  BY <1>1, FS_Interval
<1>3. Traced(q, o, c) \in SUBSET (1 .. Len(q.items))
  BY <1>1 DEF Traced
<1>4. IsFiniteSet(Traced(q, o, c))
  BY <1>2, <1>3, FS_Subset
<1> QED
  BY <1>4, FS_CardinalityType

\* The states traced into one start stay few.
LEMMA TracedFew ==
  ASSUME NEW q, QueueInv(q), NEW it \in Items, NEW r, r.items = Append(q.items, it),
         it.variant # 0 => Cardinality(SameStart(q, it)) < VariantLimit,
         NEW o \in Offsets, NEW c \in 1 .. Required
  PROVE  Cardinality(Traced(r, o, c)) <= VariantLimit
<1> DEFINE n == Len(q.items)
<1>1. QueueTyped(q)
  BY DEF QueueInv
<1>2. /\ n \in Nat /\ DOMAIN q.items = 1 .. n /\ DOMAIN r.items = 1 .. n + 1
      /\ r.items[n + 1] = it /\ \A k \in 1 .. n : r.items[k] = q.items[k]
  BY <1>1, OneItemMore
<1> HIDE DEF n
<1>3. Cardinality(Traced(q, o, c)) <= VariantLimit /\ IsFiniteSet(Traced(q, o, c)) /\ Cardinality(Traced(q, o, c)) \in Nat
  BY <1>1, TracedType DEF QueueInv, TracedAreFew
<1>4. CASE it.at = o /\ it.conf = c /\ it.variant # 0
  <2>1. Traced(r, o, c) = Traced(q, o, c) \cup {n + 1}
    BY <1>2, <1>4 DEF Traced
  <2>2. n + 1 \notin Traced(q, o, c)
    BY <1>2 DEF Traced
  <2>3. Traced(q, o, c) \in SUBSET SameStart(q, it)
    <3> SUFFICES ASSUME NEW k \in Traced(q, o, c) PROVE k \in SameStart(q, it)
      OBVIOUS
    <3>1. k \in 1 .. Len(q.items) /\ q.items[k].at = o /\ q.items[k].conf = c /\ q.items[k].variant # 0
      BY <1>2 DEF Traced, n
    <3>2. q.items[k].conf >= it.conf
      BY <1>4, <3>1
    <3> QED
      BY <1>4, <3>1, <3>2 DEF SameStart
  <2>4. Cardinality(Traced(q, o, c)) <= Cardinality(SameStart(q, it)) /\ Cardinality(SameStart(q, it)) \in Nat
    BY <1>1, <2>3, SameStartType, FS_Subset, FS_CardinalityType
  <2>5. Cardinality(Traced(r, o, c)) = Cardinality(Traced(q, o, c)) + 1
    BY <1>3, <2>1, <2>2, FS_AddElement
  <2> QED
    BY <1>3, <1>4, <2>4, <2>5, Constants
<1>5. CASE ~(it.at = o /\ it.conf = c /\ it.variant # 0)
  <2>1. Traced(r, o, c) = Traced(q, o, c)
    BY <1>2, <1>5 DEF Traced
  <2> QED
    BY <1>3, <2>1
<1> QED
  BY <1>4, <1>5

\* Whatever is enqueued, the queue stays in order; required items only at first.
LEMMA EnqueueKeeps ==
  ASSUME NEW q, QueueInv(q), NEW it \in Items,
         it.conf = Required => it.variant = 0 /\ \A k \in DOMAIN q.items : q.items[k].conf = Required
  PROVE  QueueInv(Enqueue(q, it))
<1> DEFINE r == Enqueue(q, it)
           n == Len(q.items)
<1>1. QueueTyped(q)
  BY DEF QueueInv
<1>2. /\ r.origins = IF it.reason = "fallthrough" THEN q.origins ELSE q.origins \cup {it.at}
      /\ Dropped(q, it, r) \/ PutPlain(q, it, r) \/ PutTraced(q, it, r)
  BY <1>1, Pushing
<1>3. r.origins \subseteq 0 .. Size
  BY <1>1, <1>2, ItemType DEF QueueTyped
<1>4. /\ it.conf \in 1 .. Required /\ it.conf \in Nat
      /\ \A o \in Offsets : q.queued[o] \in 0 .. Required /\ q.queued[o] \in Nat
  BY <1>1, ItemType DEF QueueTyped, Required
<1> HIDE DEF r
<1>5. CASE Dropped(q, it, r)
  <2>1. r.items = q.items /\ r.queued = q.queued
    BY <1>5 DEF Dropped
  <2>2. \A o, c : Traced(r, o, c) = Traced(q, o, c)
    BY <2>1 DEF Traced
  <2>3. QueueTyped(r)
    BY <1>1, <1>3, <2>1 DEF QueueTyped
  <2>4. TracedAreFew(r)
    BY <2>2 DEF QueueInv, TracedAreFew
  <2>5. QueuedAreItems(r) /\ PlainAreQueued(r) /\ PlainOnce(r)
    BY <2>1 DEF QueueInv, QueuedAreItems, PlainAreQueued, PlainOnce
  <2>6. RequiredArePlain(r) /\ RequiredFirst(r)
    BY <2>1 DEF QueueInv, RequiredArePlain, RequiredFirst
  <2> QED
    BY <2>3, <2>4, <2>5, <2>6 DEF QueueInv, r
<1>6. CASE PutPlain(q, it, r) \/ PutTraced(q, it, r)
  <2>1. r.items = Append(q.items, it)
    BY <1>6 DEF PutPlain, PutTraced
  <2>2. /\ r.items \in Seq(Items) /\ n \in Nat /\ DOMAIN q.items = 1 .. n /\ DOMAIN r.items = 1 .. n + 1
        /\ r.items[n + 1] = it /\ \A k \in 1 .. n : r.items[k] = q.items[k]
        /\ \A k \in DOMAIN r.items : k \in DOMAIN q.items \/ k = n + 1
    BY <1>1, <2>1, OneItemMore
  <2> HIDE DEF n
  <2>3. /\ r.queued \in [Offsets -> 0 .. Required]
        /\ \A o \in Offsets : q.queued[o] <= r.queued[o]
        /\ \A o \in Offsets : o # it.at => r.queued[o] = q.queued[o]
        /\ it.variant = 0 /\ it.at \in Offsets => r.queued[it.at] = it.conf /\ q.queued[it.at] < it.conf
        /\ it.variant # 0 => r.queued = q.queued
    <3>1. CASE PutPlain(q, it, r)
      BY <1>1, <1>4, <3>1 DEF PutPlain, QueueTyped
    <3>2. CASE PutTraced(q, it, r)
      BY <1>1, <1>4, <3>2 DEF PutTraced, QueueTyped
    <3> QED
      BY <1>6, <3>1, <3>2
  <2>4. \A o \in Offsets : r.queued[o] # 0 =>
          \E k \in DOMAIN r.items : r.items[k].at = o /\ r.items[k].conf = r.queued[o]
    <3> SUFFICES ASSUME NEW o \in Offsets, r.queued[o] # 0
                 PROVE  \E k \in DOMAIN r.items : r.items[k].at = o /\ r.items[k].conf = r.queued[o]
      OBVIOUS
    <3>1. CASE o = it.at /\ it.variant = 0
      BY <2>2, <2>3, <3>1
    <3>2. CASE ~(o = it.at /\ it.variant = 0)
      <4>1. r.queued[o] = q.queued[o]
        BY <2>3, <3>2
      <4>2. PICK k \in DOMAIN q.items : q.items[k].at = o /\ q.items[k].conf = q.queued[o]
        BY <4>1 DEF QueueInv, QueuedAreItems
      <4> QED
        BY <2>2, <4>1, <4>2
    <3> QED
      BY <3>1, <3>2
  <2>5. \A k \in DOMAIN r.items :
          r.items[k].at \in Offsets /\ r.items[k].variant = 0 => r.items[k].conf <= r.queued[r.items[k].at]
    <3> SUFFICES ASSUME NEW k \in DOMAIN r.items, r.items[k].at \in Offsets, r.items[k].variant = 0
                 PROVE  r.items[k].conf <= r.queued[r.items[k].at]
      OBVIOUS
    <3>1. CASE k = n + 1
      BY <1>4, <2>2, <2>3, <3>1
    <3>2. CASE k \in DOMAIN q.items
      <4>1. r.items[k] = q.items[k]
        BY <2>2, <3>2
      <4>2. q.items[k].conf <= q.queued[q.items[k].at]
        BY <3>2, <4>1 DEF QueueInv, PlainAreQueued
      <4>3. q.queued[q.items[k].at] <= r.queued[q.items[k].at] /\ q.items[k].conf \in Nat
            /\ q.queued[q.items[k].at] \in Nat /\ r.queued[q.items[k].at] \in Nat
        <5>1. q.items[k] \in Items
          BY <1>1, <3>2 DEF QueueTyped
        <5>2. r.queued[q.items[k].at] \in 0 .. Required /\ Required \in Nat
          BY <2>3, <4>1 DEF Required
        <5> QED
          BY <1>4, <2>3, <4>1, <5>1, <5>2, ItemType
      <4> QED
        BY <4>1, <4>2, <4>3
    <3> QED
      BY <2>2, <3>1, <3>2
  <2>6. ASSUME NEW j \in DOMAIN r.items, NEW k \in DOMAIN r.items,
               r.items[j].at = r.items[k].at, r.items[j].conf = r.items[k].conf, r.items[j].at \in Offsets,
               r.items[j].variant = 0, r.items[k].variant = 0
        PROVE  j = k
    <3>1. ASSUME NEW i \in DOMAIN q.items, q.items[i].at = it.at, q.items[i].conf = it.conf, it.at \in Offsets,
                 q.items[i].variant = 0, it.variant = 0
          PROVE  FALSE
      <4>1. q.items[i].conf <= q.queued[it.at]
        BY <3>1 DEF QueueInv, PlainAreQueued
      <4> QED
        BY <1>4, <2>3, <3>1, <4>1
    <3>2. CASE j \in DOMAIN q.items /\ k \in DOMAIN q.items
      <4>1. r.items[j] = q.items[j] /\ r.items[k] = q.items[k]
        BY <2>2, <3>2
      <4> QED
        BY <2>6, <3>2, <4>1 DEF QueueInv, PlainOnce
    <3>3. CASE j \in DOMAIN q.items /\ k = n + 1
      <4>1. r.items[j] = q.items[j] /\ r.items[k] = it
        BY <2>2, <3>3
      <4> QED
        BY <2>6, <3>1, <3>3, <4>1
    <3>4. CASE j = n + 1 /\ k \in DOMAIN q.items
      <4>1. r.items[j] = it /\ r.items[k] = q.items[k]
        BY <2>2, <3>4
      <4> QED
        BY <2>6, <3>1, <3>4, <4>1
    <3> QED
      BY <2>2, <3>2, <3>3, <3>4
  <2>7. it.variant # 0 => Cardinality(SameStart(q, it)) < VariantLimit
    BY <1>6 DEF PutPlain, PutTraced
  <2>8. \A o \in Offsets, c \in 1 .. Required : Cardinality(Traced(r, o, c)) <= VariantLimit
    BY <2>1, <2>7, TracedFew
  <2>9. \A k \in DOMAIN r.items : r.items[k].conf = Required => r.items[k].variant = 0
    BY <2>2 DEF QueueInv, RequiredArePlain
  <2>10. \A j, k \in DOMAIN r.items : j < k /\ r.items[k].conf = Required => r.items[j].conf = Required
    <3> SUFFICES ASSUME NEW j \in DOMAIN r.items, NEW k \in DOMAIN r.items, j < k, r.items[k].conf = Required
                 PROVE  r.items[j].conf = Required
      OBVIOUS
    <3>1. j \in DOMAIN q.items /\ r.items[j] = q.items[j]
      BY <2>2
    <3>2. CASE k = n + 1
      BY <2>2, <3>1, <3>2
    <3>3. CASE k \in DOMAIN q.items
      <4>1. r.items[k] = q.items[k]
        BY <2>2, <3>3
      <4> QED
        BY <3>1, <3>3, <4>1 DEF QueueInv, RequiredFirst
    <3> QED
      BY <2>2, <3>2, <3>3
  <2>11. QueueTyped(r)
    BY <1>3, <2>2, <2>3 DEF QueueTyped
  <2>12. \A j, k \in DOMAIN r.items :
           /\ r.items[j].at = r.items[k].at /\ r.items[j].conf = r.items[k].conf /\ r.items[j].at \in Offsets
           /\ r.items[j].variant = 0 /\ r.items[k].variant = 0
           => j = k
    BY <2>6
  <2>13. QueuedAreItems(r) /\ PlainAreQueued(r)
    BY <2>4, <2>5 DEF QueuedAreItems, PlainAreQueued
  <2>14. PlainOnce(r) /\ TracedAreFew(r)
    BY <2>8, <2>12 DEF PlainOnce, TracedAreFew
  <2>15. RequiredArePlain(r) /\ RequiredFirst(r)
    BY <2>9, <2>10 DEF RequiredArePlain, RequiredFirst
  <2> QED
    BY <2>11, <2>13, <2>14, <2>15 DEF QueueInv, r
<1> QED
  BY <1>2, <1>5, <1>6

\* What enqueueing does to the items that are there and to the offset it is about.
LEMMA EnqueueAdds ==
  ASSUME NEW q, QueueInv(q), NEW it \in Items
  PROVE  LET r == Enqueue(q, it) IN
         /\ it.conf \in Weaker => Later(q, r)
         /\ it.at \in Offsets => HasItem(r, it.at)
         /\ it.at \in Offsets /\ it.variant = 0 => r.queued[it.at] >= it.conf
         /\ it.at \in Offsets /\ it.variant = 0 /\ it.conf = Required => HasRequired(r, it.at)
         /\ it.reason # "fallthrough" => it.at \in r.origins
         /\ q.origins \subseteq r.origins
         /\ \A o : HasRequired(q, o) => HasRequired(r, o)
         /\ (\A k \in DOMAIN q.items : q.items[k].conf = it.conf) => \A k \in DOMAIN r.items : r.items[k].conf = it.conf
         /\ Len(q.items) <= Len(r.items)
         /\ r.items = q.items \/ r.items = Append(q.items, it)
         /\ r.items # q.items /\ it.variant = 0 /\ it.at \in Offsets => q.queued[it.at] < it.conf
<1> DEFINE r == Enqueue(q, it)
           n == Len(q.items)
<1>1. QueueTyped(q)
  BY DEF QueueInv
<1>2. /\ r.origins = IF it.reason = "fallthrough" THEN q.origins ELSE q.origins \cup {it.at}
      /\ Dropped(q, it, r) \/ PutPlain(q, it, r) \/ PutTraced(q, it, r)
  BY <1>1, Pushing
<1>3. /\ it.conf \in 1 .. Required /\ it.conf \in Nat /\ n \in Nat /\ DOMAIN q.items = 1 .. n
      /\ \A o \in Offsets : q.queued[o] \in 0 .. Required /\ q.queued[o] \in Nat
  BY <1>1, ItemType DEF QueueTyped, Required
<1> HIDE DEF r
<1>4. it.reason # "fallthrough" => it.at \in r.origins
  BY <1>2
<1>5. q.origins \subseteq r.origins
  BY <1>2
<1>6. CASE Dropped(q, it, r)
  <2>1. r.items = q.items /\ r.queued = q.queued
    BY <1>6 DEF Dropped
  <2>2. ASSUME it.at \in Offsets, it.variant = 0
        PROVE  q.queued[it.at] >= it.conf /\ \E k \in DOMAIN q.items : q.items[k].at = it.at /\ q.items[k].conf = q.queued[it.at]
    <3>1. q.queued[it.at] >= it.conf
      BY <1>6, <2>2 DEF Dropped
    <3>2. q.queued[it.at] # 0
      BY <1>3, <2>2, <3>1
    <3> QED
      BY <2>2, <3>1, <3>2 DEF QueueInv, QueuedAreItems
  <2>3. it.at \in Offsets => HasItem(q, it.at)
    BY <1>6, <2>2 DEF Dropped, HasItem
  <2>4. it.at \in Offsets /\ it.variant = 0 /\ it.conf = Required => HasRequired(q, it.at)
    <3> SUFFICES ASSUME it.at \in Offsets, it.variant = 0, it.conf = Required PROVE HasRequired(q, it.at)
      OBVIOUS
    <3>1. q.queued[it.at] = Required
      BY <1>3, <2>2 DEF Required
    <3> QED
      BY <2>2, <3>1 DEF HasRequired
  <2>5. Later(q, r)
    BY <1>3, <1>5, <2>1 DEF Later
  <2>6. HasItem(r, it.at) <=> HasItem(q, it.at)
    BY <2>1 DEF HasItem
  <2>7. \A o : HasRequired(r, o) <=> HasRequired(q, o)
    BY <2>1 DEF HasRequired
  <2> QED
    BY <1>3, <1>4, <1>5, <2>1, <2>2, <2>3, <2>4, <2>5, <2>6, <2>7 DEF r
<1>7. CASE PutPlain(q, it, r) \/ PutTraced(q, it, r)
  <2>1. r.items = Append(q.items, it)
    BY <1>7 DEF PutPlain, PutTraced
  <2>2. /\ r.items \in Seq(Items) /\ DOMAIN r.items = 1 .. n + 1 /\ Len(r.items) = n + 1
        /\ r.items[n + 1] = it /\ \A k \in 1 .. n : r.items[k] = q.items[k]
    BY <1>1, <2>1, OneItemMore
  <2>3. /\ \A o \in Offsets : q.queued[o] <= r.queued[o]
        /\ it.variant = 0 /\ it.at \in Offsets => r.queued[it.at] = it.conf /\ q.queued[it.at] < it.conf
    BY <1>3, <1>7 DEF PutPlain, PutTraced
  <2> HIDE DEF n
  <2>4. it.conf \in Weaker => Later(q, r)
    BY <1>3, <1>5, <2>2, <2>3 DEF Later, n
  <2>5. HasItem(r, it.at) /\ (it.conf = Required => HasRequired(r, it.at))
    BY <1>3, <2>2 DEF HasItem, HasRequired
  <2>6. \A o : HasRequired(q, o) => HasRequired(r, o)
    BY <1>3, <2>2 DEF HasRequired
  <2>7. (\A k \in DOMAIN q.items : q.items[k].conf = it.conf) => \A k \in DOMAIN r.items : r.items[k].conf = it.conf
    BY <1>3, <2>2
  <2>8. it.variant = 0 /\ it.at \in Offsets => r.queued[it.at] >= it.conf
    BY <1>3, <2>3
  <2>9. Len(q.items) <= Len(r.items)
    BY <1>3, <2>2 DEF n
  <2> QED
    BY <1>4, <1>5, <2>1, <2>3, <2>4, <2>5, <2>6, <2>7, <2>8, <2>9 DEF r
<1> QED
  BY <1>2, <1>6, <1>7

LEMMA QueueNumbers ==
  ASSUME NEW q, QueueTyped(q)
  PROVE  /\ Len(q.items) \in Nat /\ DOMAIN q.items = 1 .. Len(q.items)
         /\ \A o \in Offsets : q.queued[o] \in Nat /\ q.queued[o] <= Required
         /\ \A k \in DOMAIN q.items : q.items[k] \in Items
BY DEF QueueTyped, Required

LEMMA LaterItself == ASSUME NEW q, QueueTyped(q) PROVE Later(q, q)
<1>1. \A k \in Len(q.items) + 1 .. Len(q.items) : FALSE
  BY QueueNumbers
<1>2. Len(q.items) <= Len(q.items) /\ \A o \in Offsets : q.queued[o] <= q.queued[o]
  BY QueueNumbers
<1> QED
  BY <1>1, <1>2 DEF Later

LEMMA LaterStill ==
  ASSUME NEW q, NEW r, NEW s, QueueTyped(q), QueueTyped(r), QueueTyped(s), Later(q, r), Later(r, s)
  PROVE  Later(q, s)
<1>1. /\ Len(q.items) \in Nat /\ Len(r.items) \in Nat /\ Len(s.items) \in Nat
      /\ \A o \in Offsets : q.queued[o] \in Nat /\ r.queued[o] \in Nat /\ s.queued[o] \in Nat
  BY QueueNumbers
<1>2. Len(q.items) <= Len(r.items) /\ Len(r.items) <= Len(s.items) /\ Len(q.items) <= Len(s.items)
  BY <1>1 DEF Later
<1>3. \A k \in 1 .. Len(q.items) : s.items[k] = q.items[k]
  BY <1>1, <1>2 DEF Later
<1>4. \A k \in Len(q.items) + 1 .. Len(s.items) : s.items[k].conf \in Weaker
  <2> TAKE k \in Len(q.items) + 1 .. Len(s.items)
  <2>1. CASE k <= Len(r.items)
    <3>1. k \in 1 .. Len(r.items) /\ k \in Len(q.items) + 1 .. Len(r.items)
      BY <1>1, <2>1
    <3>2. s.items[k] = r.items[k] /\ r.items[k].conf \in Weaker
      BY <3>1 DEF Later
    <3> QED
      BY <3>2
  <2>2. CASE ~(k <= Len(r.items))
    <3>1. k \in Len(r.items) + 1 .. Len(s.items)
      BY <1>1, <2>2
    <3> QED
      BY <3>1 DEF Later
  <2> QED
    BY <2>1, <2>2
<1>5. \A o \in Offsets : q.queued[o] <= s.queued[o]
  <2> TAKE o \in Offsets
  <2>1. q.queued[o] <= r.queued[o] /\ r.queued[o] <= s.queued[o]
    BY DEF Later
  <2> QED
    BY <1>1, <2>1
<1> QED
  BY <1>2, <1>3, <1>4, <1>5 DEF Later

LEMMA LaterHas ==
  ASSUME NEW q, NEW r, QueueTyped(q), QueueTyped(r), Later(q, r), NEW o
  PROVE  (HasItem(q, o) => HasItem(r, o)) /\ (HasRequired(q, o) => HasRequired(r, o))
<1>1. /\ Len(q.items) \in Nat /\ DOMAIN q.items = 1 .. Len(q.items)
      /\ Len(r.items) \in Nat /\ DOMAIN r.items = 1 .. Len(r.items)
  BY DEF QueueTyped
<1>2. \A k \in DOMAIN q.items : k \in DOMAIN r.items /\ r.items[k] = q.items[k]
  BY <1>1 DEF Later
<1> QED
  BY <1>2 DEF HasItem, HasRequired

-----------------------------------------------------------------------------
(* What the flow of an accepted instruction adds to the queue              *)

LEMMA ItemIs ==
  ASSUME NEW at \in 0 .. Size, NEW conf \in 1 .. 3, NEW reason \in Reasons, NEW trace \in Traces, NEW variant \in 0 .. 2
  PROVE  LET it == Item(at, conf, reason, trace, variant) IN
         /\ it \in Items
         /\ it.at = at /\ it.conf = conf /\ it.reason = reason /\ it.trace = trace /\ it.variant = variant
BY DEF Items, Item

LEMMA TraceType ==
  ASSUME case \in Cases, NEW o \in Offsets, NEW trace \in Traces
  PROVE  After(o, trace) \in Traces /\ Marked(o, trace) \in Traces /\ Unknown \in Traces
<1>1. After(o, trace) \in Traces
  BY CaseType DEF After
<1>2. Unknown \in Traces
  BY DEF Unknown, Traces
<1>3. MarksResume(o, trace) \in BOOLEAN
  BY DEF MarksResume
<1>4. Marked(o, trace) \in Traces
  BY <1>3 DEF Marked, Traces
<1> QED
  BY <1>1, <1>2, <1>4

\* A queue that may have got weaker items, and is in order as before.
Grown(q, r) == QueueInv(q) /\ QueueInv(r) /\ Later(q, r)

LEMMA GrownStill ==
  ASSUME NEW q, NEW r, NEW s, Grown(q, r), Grown(r, s)
  PROVE  Grown(q, s)
BY LaterStill DEF Grown, QueueInv

LEMMA GrownHas ==
  ASSUME NEW q, NEW r, Grown(q, r), NEW o
  PROVE  (HasItem(q, o) => HasItem(r, o)) /\ (HasRequired(q, o) => HasRequired(r, o))
BY LaterHas DEF Grown, QueueInv

LEMMA EnqueueGrows ==
  ASSUME NEW q, QueueInv(q), NEW it \in Items, it.conf \in Weaker
  PROVE  Grown(q, Enqueue(q, it)) /\ (it.at \in Offsets => HasItem(Enqueue(q, it), it.at))
<1>1. it.conf # Required
  BY DEF Weaker, Required
<1>2. QueueInv(Enqueue(q, it))
  BY <1>1, EnqueueKeeps
<1>3. Later(q, Enqueue(q, it)) /\ (it.at \in Offsets => HasItem(Enqueue(q, it), it.at))
  BY EnqueueAdds
<1> QED
  BY <1>2, <1>3 DEF Grown

LEMMA EnqueueIfGrows ==
  ASSUME NEW q, QueueInv(q), NEW cond \in BOOLEAN, NEW it, cond => it \in Items /\ it.conf \in Weaker
  PROVE  LET r == EnqueueIf(cond, q, it) IN
         Grown(q, r) /\ (cond /\ it.at \in Offsets => HasItem(r, it.at))
<1>1. CASE cond
  BY <1>1, EnqueueGrows DEF EnqueueIf
<1>2. CASE ~cond
  <2>1. EnqueueIf(cond, q, it) = q
    BY <1>2 DEF EnqueueIf
  <2>2. Grown(q, q)
    BY LaterItself DEF Grown, QueueInv
  <2> QED
    BY <1>2, <2>1, <2>2
<1> QED
  BY <1>1, <1>2

LEMMA WeakConf == Speculative \in Weaker /\ Inferred \in Weaker /\ Weaker \subseteq 1 .. 3 /\ Required \notin Weaker
BY DEF Speculative, Inferred, Weaker, Required

LEMMA DirectTargetGrows ==
  ASSUME case \in Cases, NEW o, Decodes(o), NEW it \in Items, NEW S, NEW B, NEW q, QueueInv(q)
  PROVE  LET r == DirectTarget(o, it, S, B, q) IN
         Grown(q, r) /\ (HasTarget(o) /\ ~IsRelocated(o) /\ Reaches(At(o).to, S, B) => HasItem(r, At(o).to))
<1> DEFINE t == At(o).to
           trace == IF At(o).kind = "jump" THEN it.trace ELSE After(o, it.trace)
           variant == IF it.variant = 2 \/ trace.resume THEN 2
                      ELSE IF PrefixUsesTrace(t, trace) THEN 1 ELSE 0
           cond == HasTarget(o) /\ ~IsRelocated(o) /\ Reaches(t, S, B)
           new == Item(t, Inferred, "control", trace, variant)
<1>1. DirectTarget(o, it, S, B, q) = EnqueueIf(cond, q, new)
  BY DEF DirectTarget
<1>2. o \in Offsets /\ cond \in BOOLEAN /\ variant \in 0 .. 2
  BY DecodesIs DEF HasTarget
<1>3. trace \in Traces
  BY <1>2, ItemType, TraceType
<1>4. cond => t \in 0 .. Size /\ t \in Offsets
  BY Constants DEF Reaches, Offsets
<1>5. Inferred \in 1 .. 3 /\ "control" \in Reasons
  BY WeakConf DEF Reasons, Inferred
<1> HIDE DEF t, trace, variant, cond
<1>6. cond => new \in Items /\ new.conf = Inferred /\ new.at = t
  BY <1>2, <1>3, <1>4, <1>5, ItemIs
<1> HIDE DEF new
<1>7. cond => new \in Items /\ new.conf \in Weaker
  BY <1>6, WeakConf
<1>8. Grown(q, EnqueueIf(cond, q, new)) /\ (cond /\ new.at \in Offsets => HasItem(EnqueueIf(cond, q, new), new.at))
  BY <1>2, <1>7, EnqueueIfGrows
<1>9. cond => HasItem(EnqueueIf(cond, q, new), t)
  BY <1>4, <1>6, <1>8
<1> QED
  BY <1>1, <1>8, <1>9 DEF cond, t

LEMMA RelocatedTo ==
  ASSUME case \in Cases, NEW o, Decodes(o), IsRelocated(o)
  PROVE  /\ (CHOOSE r \in OperandRelocations(o) : TRUE).to = At(o).to
         /\ At(o).to \in Offsets
<1>1. o \in Offsets
  BY DecodesIs
<1>2. PICK x \in OperandRelocations(o) : TRUE
  BY DEF IsRelocated
<1>3. (CHOOSE r \in OperandRelocations(o) : TRUE) \in OperandRelocations(o)
  BY <1>2
<1>4. \A r \in OperandRelocations(o) : r.to = At(o).to
  BY <1>1, CaseType
<1>5. \A r \in OperandRelocations(o) : r.to \in Offsets
  BY CaseType DEF OperandRelocations
<1> QED
  BY <1>3, <1>4, <1>5

LEMMA RelocatedTargetGrows ==
  ASSUME case \in Cases, NEW o, Decodes(o), NEW S, NEW B, NEW q, QueueInv(q)
  PROVE  LET r == RelocatedTarget(o, S, B, q) IN
         Grown(q, r) /\ (IsRelocated(o) /\ At(o).to \notin S /\ Reaches(At(o).to, S, B) => HasItem(r, At(o).to))
<1> DEFINE t == (CHOOSE r \in OperandRelocations(o) : TRUE).to
           cond == IsRelocated(o) /\ t \notin S /\ Reaches(t, S, B)
           new == Item(t, Inferred, "control", Unknown, 0)
<1>1. RelocatedTarget(o, S, B, q) = EnqueueIf(cond, q, new)
  BY DEF RelocatedTarget
<1>2. o \in Offsets /\ cond \in BOOLEAN
  BY DecodesIs DEF IsRelocated
<1>3. IsRelocated(o) => t = At(o).to
  BY RelocatedTo
<1>4. cond => t \in 0 .. Size /\ t \in Offsets
  BY Constants DEF Reaches, Offsets
<1>5. Inferred \in 1 .. 3 /\ "control" \in Reasons /\ Unknown \in Traces
  BY WeakConf DEF Reasons, Inferred, Unknown, Traces
<1>6. cond <=> IsRelocated(o) /\ At(o).to \notin S /\ Reaches(At(o).to, S, B)
  BY <1>3
<1> HIDE DEF t, cond
<1>7. cond => new \in Items /\ new.conf = Inferred /\ new.at = t
  BY <1>4, <1>5, ItemIs
<1> HIDE DEF new
<1>8. cond => new \in Items /\ new.conf \in Weaker
  BY <1>7, WeakConf
<1>9. Grown(q, EnqueueIf(cond, q, new)) /\ (cond /\ new.at \in Offsets => HasItem(EnqueueIf(cond, q, new), new.at))
  BY <1>2, <1>8, EnqueueIfGrows
<1>10. cond => HasItem(EnqueueIf(cond, q, new), At(o).to)
  BY <1>3, <1>4, <1>6, <1>7, <1>9
<1> QED
  BY <1>1, <1>6, <1>9, <1>10

LEMMA TracedTargetGrows ==
  ASSUME NEW o, NEW trace \in Traces, NEW S, NEW B, NEW q, QueueInv(q)
  PROVE  Grown(q, TracedTarget(o, trace, S, B, q))
<1> DEFINE cond == At(o).kind = "through" /\ Drives(trace) /\ Reaches(trace.to, S, B)
           new == Item(trace.to, Inferred, "control", trace, IF trace.resume THEN 2 ELSE 0)
<1>1. TracedTarget(o, trace, S, B, q) = EnqueueIf(cond, q, new)
  BY DEF TracedTarget
<1>2. cond \in BOOLEAN /\ (IF trace.resume THEN 2 ELSE 0) \in 0 .. 2
  OBVIOUS
<1>3. cond => trace.to \in 0 .. Size
  BY Constants DEF Reaches, Offsets
<1>4. Inferred \in 1 .. 3 /\ "control" \in Reasons
  BY WeakConf DEF Reasons, Inferred
<1> HIDE DEF cond
<1>5. cond => new \in Items /\ new.conf = Inferred
  BY <1>2, <1>3, <1>4, ItemIs
<1> HIDE DEF new
<1>6. cond => new \in Items /\ new.conf \in Weaker
  BY <1>5, WeakConf
<1> QED
  BY <1>1, <1>2, <1>6, EnqueueIfGrows

LEMMA NextInstructionGrows ==
  ASSUME case \in Cases, NEW o, Decodes(o), NEW it \in Items, NEW q, QueueInv(q)
  PROVE  LET r == NextInstruction(o, it, q)
             t == End(o) + IF At(o).kind = "call" THEN At(o).payload ELSE 0
         IN  Grown(q, r) /\ (Falls(o) /\ t \in Offsets => HasItem(r, t))
<1> DEFINE trace == IF it.variant = 2 /\ At(o).kind = "call" THEN Unknown ELSE After(o, it.trace)
           variant == IF it.variant = 2 THEN 2 ELSE IF it.variant = 1 /\ Drives(trace) THEN 1 ELSE 0
           conf == IF At(o).kind = "if" THEN Inferred ELSE Speculative
           resume == End(o) + At(o).payload
           inline == At(o).kind = "call" /\ At(o).payload > 0
           cond == Falls(o) /\ End(o) < Size
           far == Item(resume, Inferred, "resume", trace, variant)
           near == Item(End(o), conf, "fallthrough", trace, variant)
           r == NextInstruction(o, it, q)
           t == End(o) + IF At(o).kind = "call" THEN At(o).payload ELSE 0
<1>1. r = IF inline THEN EnqueueIf(resume < Size, q, far) ELSE EnqueueIf(cond, q, near)
  BY DEF NextInstruction
<1>2. o \in Offsets /\ trace \in Traces
  BY DecodesIs, ItemType, TraceType
<1>3. /\ variant \in 0 .. 2 /\ conf \in 1 .. 3 /\ conf \in Weaker /\ Inferred \in 1 .. 3 /\ Inferred \in Weaker
      /\ "resume" \in Reasons /\ "fallthrough" \in Reasons /\ cond \in BOOLEAN /\ (resume < Size) \in BOOLEAN
  BY WeakConf DEF Reasons, Falls
<1>4. End(o) \in Nat /\ At(o).payload \in Nat /\ resume \in Nat /\ Size \in Nat
  BY <1>2, CaseType, Constants
<1>5. (resume < Size => resume \in 0 .. Size) /\ (cond => End(o) \in 0 .. Size)
  BY <1>4
<1>6. /\ t \in Offsets => t < Size
      /\ inline => t = resume
      /\ ~inline => t = End(o)
  BY <1>4, Constants
<1> HIDE DEF trace, variant, conf, resume, inline, cond, r, t
<1>7. resume < Size => far \in Items /\ far.conf = Inferred /\ far.at = resume
  BY <1>2, <1>3, <1>5, ItemIs
<1>8. cond => near \in Items /\ near.conf = conf /\ near.at = End(o)
  BY <1>2, <1>3, <1>5, ItemIs
<1> HIDE DEF far, near
<1>9. CASE inline
  <2>1. r = EnqueueIf(resume < Size, q, far)
    BY <1>1, <1>9
  <2>2. resume < Size => far \in Items /\ far.conf \in Weaker
    BY <1>3, <1>7
  <2>3. Grown(q, r) /\ (resume < Size /\ far.at \in Offsets => HasItem(r, far.at))
    BY <1>3, <2>1, <2>2, EnqueueIfGrows
  <2>4. t \in Offsets => HasItem(r, t)
    BY <1>6, <1>7, <1>9, <2>3
  <2> QED
    BY <2>3, <2>4 DEF r, t
<1>10. CASE ~inline
  <2>1. r = EnqueueIf(cond, q, near)
    BY <1>1, <1>10
  <2>2. cond => near \in Items /\ near.conf \in Weaker
    BY <1>3, <1>8
  <2>3. Grown(q, r) /\ (cond /\ near.at \in Offsets => HasItem(r, near.at))
    BY <1>3, <2>1, <2>2, EnqueueIfGrows
  <2>4. Falls(o) /\ t \in Offsets => HasItem(r, t)
    BY <1>6, <1>8, <1>10, <2>3 DEF cond
  <2> QED
    BY <2>3, <2>4 DEF r, t
<1> QED
  BY <1>9, <1>10

\* Whatever an instruction continues with is queued, accepted already, or
\* inside accepted code, and then a violation says so.
LEMMA FlowGrows ==
  ASSUME case \in Cases, NEW o, Decodes(o), NEW it \in Items, NEW S, NEW B, NEW q, QueueInv(q)
  PROVE  LET r == Flow(o, it, S, B, q) IN
         /\ Grown(q, r)
         /\ \A t \in Continuations(o) : Decodes(t) => t \in S \/ HasItem(r, t) \/ <<o, t>> \in FlowViolations(o, it, S, B)
<1> DEFINE d == DirectTarget(o, it, S, B, q)
           e == RelocatedTarget(o, S, B, d)
           f == TracedTarget(o, it.trace, S, B, e)
           r == NextInstruction(o, it, f)
           far == End(o) + IF At(o).kind = "call" THEN At(o).payload ELSE 0
<1>1. r = Flow(o, it, S, B, q)
  BY DEF Flow
<1>2. Grown(q, d) /\ (HasTarget(o) /\ ~IsRelocated(o) /\ Reaches(At(o).to, S, B) => HasItem(d, At(o).to))
  BY DirectTargetGrows
<1>3. QueueInv(d)
  BY <1>2 DEF Grown
<1> HIDE DEF d
<1>4. Grown(d, e) /\ (IsRelocated(o) /\ At(o).to \notin S /\ Reaches(At(o).to, S, B) => HasItem(e, At(o).to))
  BY <1>3, RelocatedTargetGrows
<1>5. QueueInv(e)
  BY <1>4 DEF Grown
<1> HIDE DEF e
<1>6. Grown(e, f)
  BY <1>5, ItemType, TracedTargetGrows
<1>7. QueueInv(f)
  BY <1>6 DEF Grown
<1> HIDE DEF f
<1>8. Grown(f, r) /\ (Falls(o) /\ far \in Offsets => HasItem(r, far))
  BY <1>7, NextInstructionGrows
<1> HIDE DEF r
<1>9. Grown(e, r)
  BY <1>6, <1>8, GrownStill
<1>10. Grown(d, r)
  BY <1>4, <1>9, GrownStill
<1>11. Grown(q, r)
  BY <1>2, <1>10, GrownStill
<1>12. ASSUME NEW t \in Continuations(o), Decodes(t)
       PROVE  t \in S \/ HasItem(r, t) \/ <<o, t>> \in FlowViolations(o, it, S, B)
  <2>1. t \in Offsets /\ ((HasTarget(o) /\ t = At(o).to) \/ (Falls(o) /\ t = far))
    BY DEF Continuations
  <2>2. CASE Falls(o) /\ t = far
    BY <1>8, <2>1, <2>2
  <2>3. CASE HasTarget(o) /\ t = At(o).to
    <3>1. CASE InteriorOf(t, S, B)
      <4>1. t \in DirectTargets(o) \cup RelocatedTargets(o)
        <5>1. CASE IsRelocated(o)
          BY <2>3, <5>1, RelocatedTo DEF RelocatedTargets
        <5>2. CASE ~IsRelocated(o)
          BY <2>1, <2>3, <5>2 DEF DirectTargets
        <5> QED
          BY <5>1, <5>2
      <4> QED
        BY <3>1, <4>1 DEF FlowViolations
    <3>2. CASE ~InteriorOf(t, S, B)
      <4>1. Reaches(t, S, B)
        BY <1>12, <2>1, <3>2 DEF Reaches
      <4>2. CASE IsRelocated(o)
        BY <1>4, <1>9, <2>3, <4>1, <4>2, GrownHas
      <4>3. CASE ~IsRelocated(o)
        BY <1>2, <1>10, <2>3, <4>1, <4>3, GrownHas
      <4> QED
        BY <4>2, <4>3
    <3> QED
      BY <3>1, <3>2
  <2> QED
    BY <2>1, <2>2, <2>3
<1> QED
  BY <1>1, <1>11, <1>12

-----------------------------------------------------------------------------
(* Types                                                                   *)

FactsTyped(req, vio) == req \subseteq Offsets \X (1 .. Required) /\ vio \subseteq Offsets \X (0 .. Size)

LEMMA FlowFactsType ==
  ASSUME case \in Cases, NEW o, Decodes(o), NEW it, NEW S, NEW B
  PROVE  /\ FactsTyped(FlowRequests(o, it, S, B), FlowViolations(o, it, S, B))
         /\ \A r \in FlowRequests(o, it, S, B) : r[2] = Inferred
<1>1. o \in Offsets /\ Inferred \in 1 .. Required /\ Offsets \subseteq 0 .. Size
  BY DecodesIs, Constants DEF Inferred, Required, Offsets
<1>2. DirectTargets(o) \subseteq Offsets /\ TracedTargets(o, it.trace) \subseteq Offsets
  BY DEF DirectTargets, TracedTargets
<1>3. RelocatedTargets(o) \subseteq Offsets
  BY RelocatedTo DEF RelocatedTargets
<1>4. FlowViolations(o, it, S, B) \subseteq Offsets \X (0 .. Size)
  <2> SUFFICES ASSUME NEW v \in FlowViolations(o, it, S, B) PROVE v \in Offsets \X (0 .. Size)
    OBVIOUS
  <2>1. PICK t \in DirectTargets(o) \cup TracedTargets(o, it.trace) \cup RelocatedTargets(o) : v = <<o, t>>
    BY DEF FlowViolations
  <2>2. t \in 0 .. Size
    BY <1>1, <1>2, <1>3
  <2> QED
    BY <1>1, <2>1, <2>2
<1>5. FlowRequests(o, it, S, B) \subseteq Offsets \X (1 .. Required)
  BY <1>1, <1>2 DEF FlowRequests
<1>6. \A r \in FlowRequests(o, it, S, B) : r[2] = Inferred
  BY DEF FlowRequests
<1> QED
  BY <1>4, <1>5, <1>6 DEF FactsTyped

LEMMA RejectionType ==
  ASSUME case \in Cases, NEW o, Decodes(o), NEW it
  PROVE  RejectionViolations(o, it) \subseteq Offsets \X (0 .. Size)
<1>1. o \in Offsets /\ Outside \in 0 .. Size /\ Offsets \subseteq 0 .. Size /\ case.structured \subseteq Offsets
  BY DecodesIs, CaseType, Constants DEF Offsets, Outside
<1>2. OnData(o) => RejectionViolations(o, it) \subseteq Offsets \X (0 .. Size)
  BY <1>1 DEF RejectionViolations
<1>3. ~OnData(o) => RejectionViolations(o, it) \subseteq Offsets \X (0 .. Size)
  BY <1>1 DEF RejectionViolations
<1> QED
  BY <1>2, <1>3

LEMMA MarkedItemType ==
  ASSUME case \in Cases, NEW it \in Items, it.at \in Offsets
  PROVE  /\ MarkedItem(it) \in Items
         /\ MarkedItem(it).at = it.at /\ MarkedItem(it).conf = it.conf /\ MarkedItem(it).reason = it.reason
<1>1. Marked(it.at, it.trace) \in Traces
  BY ItemType, TraceType
<1>2. (IF MarksResume(it.at, it.trace) THEN 2 ELSE it.variant) \in 0 .. 2
  BY ItemType
<1>3. it.at \in 0 .. Size /\ it.conf \in 1 .. 3 /\ it.reason \in Reasons
  BY ItemType
<1> DEFINE trace == Marked(it.at, it.trace)
           variant == IF MarksResume(it.at, it.trace) THEN 2 ELSE it.variant
<1>4. MarkedItem(it) = Item(it.at, it.conf, it.reason, trace, variant)
  BY DEF MarkedItem
<1>5. trace \in Traces /\ variant \in 0 .. 2
  BY <1>1, <1>2
<1> HIDE DEF trace, variant
<1> QED
  BY <1>3, <1>4, <1>5, ItemIs

\* The queue, the byte map, the facts, the loops and the counters.
Facts == [conf : 0 .. Required, reason : Reasons]
QueueOk == QueueInv(TheQueue) /\ cursor \in 0 .. Len(items)
MapOk == starts \subseteq Offsets /\ bytes \subseteq Offsets /\ accepted \in [Offsets -> Facts]
FactsOk == FactsTyped(requests, violations) /\ labels \subseteq 0 .. Size /\ failures \subseteq Offsets
Seeds == Offsets \X {"linkage", "boundary"}
LoopsOk ==
  /\ case \in Cases /\ phase \in Phases
  /\ replay \in [at : 0 .. Nowhere, trace : Traces, left : 0 .. ReplayLimit]
  /\ indexed \subseteq Offsets
  /\ phase = "entries" => todo \subseteq case.entries
  /\ phase = "labels" => todo \subseteq Offsets
  /\ phase = "relocations" => todo \subseteq Offsets
  /\ phase = "seeding" => todo \subseteq Seeds
FreshOk ==
  /\ fresh \in 0 .. Size
  /\ Solving => fresh <= Cardinality(starts)
  /\ phase = "entries" => fresh = 0
PassesOk ==
  /\ passes \in 0 .. Size + 2
  /\ phase \notin {"prune", "done", "failed"} => passes <= Size + 1
\* What is queued while the entries are; when no fixed point is solved the
\* queue is empty, and no walk is under way.
StageOk ==
  /\ phase = "entries" => cursor = 0 /\ starts = {} /\ \A k \in DOMAIN items : items[k].conf = Required
  /\ ~Solving => replay = NoReplay
  /\ ~Solving /\ phase \notin {"entries", "seeding"} => cursor = Len(items)
Typed == QueueOk /\ MapOk /\ FactsOk /\ LoopsOk /\ FreshOk /\ PassesOk /\ StageOk

LEMMA TypedIsTypeOK == Typed => TypeOK
<1> SUFFICES ASSUME Typed PROVE TypeOK
  OBVIOUS
<1> USE DEF Typed
<1>1. items \in Seq(Items) /\ cursor \in 0 .. Len(items) /\ queued \in [Offsets -> 0 .. Required] /\ origins \subseteq 0 .. Size
  BY DEF QueueOk, QueueInv, QueueTyped, TheQueue
<1>2. starts \subseteq Offsets /\ bytes \subseteq Offsets /\ accepted \in [Offsets -> [conf : 0 .. Required, reason : Reasons]]
  BY DEF MapOk, Facts
<1>3. requests \subseteq Offsets \X (1 .. Required) /\ violations \subseteq Offsets \X (0 .. Size)
      /\ labels \subseteq 0 .. Size /\ failures \subseteq Offsets
  BY DEF FactsOk, FactsTyped
<1>4. phase \in Phases /\ replay \in [at : 0 .. Nowhere, trace : Traces, left : 0 .. ReplayLimit] /\ indexed \subseteq Offsets
  BY DEF LoopsOk
<1>5. fresh \in 0 .. Size /\ passes \in 0 .. Size + 2
  BY DEF FreshOk, PassesOk
<1> QED
  BY <1>1, <1>2, <1>3, <1>4, <1>5 DEF TypeOK

LEMMA StartsAreFew ==
  ASSUME NEW S, S \subseteq Offsets
  PROVE  IsFiniteSet(S) /\ Cardinality(S) \in Nat /\ Cardinality(S) <= Size
<1>1. Size \in Nat /\ Size - 1 \in Int /\ 0 \in Int
  BY Constants
<1>2. IsFiniteSet(Offsets) /\ Cardinality(Offsets) = Size
  BY <1>1, Constants, FS_Interval DEF Offsets
<1>3. S \in SUBSET Offsets
  OBVIOUS
<1>4. IsFiniteSet(S) /\ Cardinality(S) <= Cardinality(Offsets)
  BY <1>2, <1>3, FS_Subset
<1> QED
  BY <1>2, <1>4, FS_CardinalityType

LEMMA InitTyped == Init => Typed
<1> SUFFICES ASSUME Init PROVE Typed
  OBVIOUS
<1>1. case \in Cases /\ phase = "entries" /\ todo = case.entries /\ items = <<>> /\ cursor = 0
      /\ queued = [o \in Offsets |-> 0] /\ starts = {} /\ bytes = {} /\ accepted = [o \in Offsets |-> NoFact]
      /\ origins = {} /\ violations = {} /\ failures = {} /\ replay = NoReplay /\ indexed = {} /\ fresh = 0 /\ passes = 0
  BY DEF Init
<1>2. /\ requests = {<<r.to, Required>> : r \in case.relocations}
      /\ labels = case.entries \cup {r.to : r \in case.relocations}
  BY DEF Init
<1>3. QueueOk
  <2>1. QueueTyped(TheQueue)
    BY <1>1 DEF QueueTyped, TheQueue, Required
  <2>2. TheQueue.items = <<>> /\ DOMAIN TheQueue.items = {} /\ \A o \in Offsets : TheQueue.queued[o] = 0
    BY <1>1 DEF TheQueue
  <2>3. \A o, c : Traced(TheQueue, o, c) = {}
    BY <2>2 DEF Traced
  <2>4. TracedAreFew(TheQueue)
    BY <2>3, FS_EmptySet, Constants DEF TracedAreFew
  <2>5. QueuedAreItems(TheQueue) /\ PlainAreQueued(TheQueue) /\ PlainOnce(TheQueue)
    BY <2>2 DEF QueuedAreItems, PlainAreQueued, PlainOnce
  <2>6. RequiredArePlain(TheQueue) /\ RequiredFirst(TheQueue)
    BY <2>2 DEF RequiredArePlain, RequiredFirst
  <2> QED
    BY <1>1, <2>1, <2>4, <2>5, <2>6 DEF QueueOk, QueueInv
<1>4. MapOk
  <2>1. NoFact \in Facts
    BY DEF NoFact, Facts, Reasons, Required
  <2> QED
    BY <1>1, <2>1 DEF MapOk
<1>5. FactsOk
  <2>1. Required \in 1 .. Required /\ Offsets \subseteq 0 .. Size
    BY Constants DEF Required, Offsets
  <2>2. case.entries \subseteq 0 .. Size /\ \A r \in case.relocations : r.to \in Offsets
    BY <1>1, CaseType
  <2>3. requests \subseteq Offsets \X (1 .. Required)
    BY <1>2, <2>1, <2>2
  <2>4. labels \subseteq 0 .. Size
    BY <1>2, <2>1, <2>2
  <2> QED
    BY <1>1, <2>3, <2>4 DEF FactsOk, FactsTyped
<1>6. LoopsOk
  <2>1. NoReplay \in [at : 0 .. Nowhere, trace : Traces, left : 0 .. ReplayLimit]
    <3>1. Nowhere \in 0 .. Nowhere /\ 0 \in 0 .. ReplayLimit /\ Unknown \in Traces
      BY Constants DEF Nowhere, Unknown, Traces
    <3> QED
      BY <3>1 DEF NoReplay
  <2> QED
    BY <1>1, <2>1 DEF LoopsOk, Phases
<1>7. FreshOk /\ PassesOk
  BY <1>1, Constants DEF FreshOk, PassesOk, Solving
<1>8. StageOk
  BY <1>1 DEF StageOk, Solving
<1> QED
  BY <1>3, <1>4, <1>5, <1>6, <1>7, <1>8 DEF Typed

-----------------------------------------------------------------------------
(* What every step but two keeps                                           *)

QueueAfter == [items |-> items', queued |-> queued', origins |-> origins']
Named(t) == \E v \in violations : v[1] = t

\* A start that was popped is code, or was and gave way, or is named.
Settled(t) == t \in starts \cup Evicted \/ Named(t)
\* A required start is code as such, or is counted or named.
Honoured(e) == \/ e \in failures \/ Named(e)
               \/ e \in starts /\ (Decodes(e) => accepted[e].conf = Required)

\* A step of the analysis: the queue grows behind, facts stay, only starts
\* that something weaker was taken for give way unnamed, what accepted code
\* continues with is queued, and a popped start is answered.
Advance ==
  /\ case' = case /\ Grown(TheQueue, QueueAfter)
  /\ violations \subseteq violations' /\ failures \subseteq failures'
  /\ \A t \in starts \ starts' : Named(t)' \/ (Decodes(t) /\ accepted[t].conf \in Weaker)
  /\ \A t \in Offsets : accepted'[t] = accepted[t] \/ (t \in starts' /\ (t \in starts => ~Decodes(t)))
  /\ \A s \in starts' \ starts : Decodes(s) =>
       \A t \in Continuations(s) : Decodes(t) => t \in starts' \/ HasItem(QueueAfter, t) \/ <<s, t>> \in violations'
  /\ \/ cursor' = cursor /\ starts' \subseteq starts
     \/ /\ cursor' = cursor + 1 /\ cursor < Len(items)
        /\ \A o : o = items[cursor + 1].at =>
             /\ starts' \subseteq starts \cup {o}
             /\ Decodes(o) => o \in starts' \/ Named(o)'
             /\ items[cursor + 1].conf = Required /\ o \in Offsets => Honoured(o)' \/ (o \in starts /\ Decodes(o))

LEMMA SameQueue ==
  ASSUME NEW q, NEW r, r.items = q.items, r.queued = q.queued, r.origins = q.origins
  PROVE  /\ QueueInv(q) => QueueInv(r)
         /\ \A p : Later(p, q) => Later(p, r)
         /\ \A o : HasItem(q, o) <=> HasItem(r, o)
<1>1. ASSUME QueueInv(q) PROVE QueueInv(r)
  <2>1. QueueTyped(r)
    BY <1>1 DEF QueueInv, QueueTyped
  <2>2. QueuedAreItems(r) /\ PlainAreQueued(r)
    BY <1>1 DEF QueueInv, QueuedAreItems, PlainAreQueued
  <2>3. PlainOnce(r) /\ RequiredArePlain(r) /\ RequiredFirst(r)
    BY <1>1 DEF QueueInv, PlainOnce, RequiredArePlain, RequiredFirst
  <2>4. \A o, c : Traced(r, o, c) = Traced(q, o, c)
    BY DEF Traced
  <2>5. TracedAreFew(r)
    BY <1>1, <2>4 DEF QueueInv, TracedAreFew
  <2> QED
    BY <2>1, <2>2, <2>3, <2>5 DEF QueueInv
<1>2. \A p : Later(p, q) => Later(p, r)
  BY DEF Later
<1>3. \A o : HasItem(q, o) <=> HasItem(r, o)
  BY DEF HasItem
<1> QED
  BY <1>1, <1>2, <1>3

LEMMA Taken ==
  ASSUME NEW q, Grown(TheQueue, q), TakesQueue(q)
  PROVE  Grown(TheQueue, QueueAfter) /\ \A o : HasItem(q, o) => HasItem(QueueAfter, o)
<1>1. QueueAfter.items = q.items /\ QueueAfter.queued = q.queued /\ QueueAfter.origins = q.origins
  BY DEF TakesQueue, QueueAfter
<1>2. /\ QueueInv(QueueAfter) /\ Later(TheQueue, QueueAfter)
      /\ \A o : HasItem(q, o) => HasItem(QueueAfter, o)
  BY <1>1, SameQueue DEF Grown
<1> QED
  BY <1>2 DEF Grown

LEMMA NotTaken ==
  ASSUME QueueOk, UNCHANGED <<items, queued, origins>>
  PROVE  Grown(TheQueue, QueueAfter)
<1>1. Grown(TheQueue, TheQueue)
  BY LaterItself DEF QueueOk, QueueInv, Grown
<1>2. TakesQueue(TheQueue)
  BY DEF TakesQueue, TheQueue
<1> QED
  BY <1>1, <1>2, Taken

LEMMA QueueOkAfter ==
  ASSUME QueueOk, Grown(TheQueue, QueueAfter), cursor' = cursor \/ (cursor' = cursor + 1 /\ cursor < Len(items))
  PROVE  QueueOk'
<1>1. QueueAfter = TheQueue'
  BY DEF QueueAfter, TheQueue
<1>2. QueueInv(TheQueue)'
  BY <1>1 DEF Grown
<1>3. Len(items) \in Nat /\ Len(items') \in Nat /\ Len(items) <= Len(items') /\ cursor \in 0 .. Len(items)
  <2>1. TheQueue.items = items /\ QueueAfter.items = items'
    BY DEF TheQueue, QueueAfter
  <2>2. Len(TheQueue.items) \in Nat /\ Len(QueueAfter.items) \in Nat /\ Len(TheQueue.items) <= Len(QueueAfter.items)
    BY QueueNumbers DEF Grown, QueueInv, Later
  <2> QED
    BY <2>1, <2>2 DEF QueueOk
<1>4. cursor' \in 0 .. Len(items')
  BY <1>3
<1> QED
  BY <1>2, <1>4 DEF QueueOk

\* What is popped is an item of the queue.
LEMMA PoppedType ==
  ASSUME Typed, Pops(Popped)
  PROVE  /\ Popped \in Items /\ Popped = items[cursor + 1] /\ cursor + 1 \in 1 .. Len(items)
         /\ cursor \in Nat /\ cursor < Len(items) /\ Solving /\ replay = NoReplay /\ phase # "entries"
         /\ case \in Cases /\ QueueInv(TheQueue)
<1>1. items \in Seq(Items) /\ cursor \in 0 .. Len(items) /\ QueueInv(TheQueue)
  BY DEF Typed, QueueOk, QueueInv, QueueTyped, TheQueue
<1>2. cursor < Len(items) /\ Solving /\ replay = NoReplay
  BY DEF Pops
<1>3. cursor + 1 \in 1 .. Len(items) /\ cursor \in Nat
  BY <1>1, <1>2
<1>4. items[cursor + 1] \in Items
  BY <1>1, <1>3
<1>5. phase # "entries" /\ case \in Cases
  BY <1>2 DEF Solving, Typed, LoopsOk
<1> QED
  BY <1>1, <1>2, <1>3, <1>4, <1>5 DEF Popped

-----------------------------------------------------------------------------
(* The fixed point, action by action                                       *)

LEMMA CaseStays ==
  ASSUME case' = case
  PROVE  /\ \A o : (Decodes(o)' <=> Decodes(o)) /\ Extent(o)' = Extent(o) /\ Continuations(o)' = Continuations(o)
         /\ DecodedStarts' = {o \in starts' : Decodes(o)}
<1>1. \A o : Decodes(o)' <=> Decodes(o)
  BY DEF Decodes, At
<1>2. \A o : Extent(o)' = Extent(o)
  BY DEF Extent, End, At
<1>3. \A o : Continuations(o)' = Continuations(o)
  BY DEF Continuations, HasTarget, Falls, End, At
<1>4. DecodedStarts' = {o \in starts' : Decodes(o)}
  BY <1>1 DEF DecodedStarts
<1> QED
  BY <1>1, <1>2, <1>3, <1>4

Walks == [at : 0 .. Nowhere, trace : Traces, left : 0 .. ReplayLimit]

LEMMA NoWalk == NoReplay \in Walks /\ NoReplay.left = 0
<1>1. Nowhere \in 0 .. Nowhere /\ 0 \in 0 .. ReplayLimit /\ Unknown \in Traces
  BY Constants DEF Nowhere, Unknown, Traces
<1> QED
  BY <1>1 DEF NoReplay, Walks

LEMMA SolvingOn ==
  ASSUME Typed, Solving, UNCHANGED <<case, phase, todo, indexed, passes>>, replay' \in Walks
  PROVE  LoopsOk' /\ PassesOk' /\ StageOk'
<1>1. LoopsOk'
  BY DEF Typed, LoopsOk, Walks
<1>2. PassesOk'
  BY DEF Typed, PassesOk
<1>3. StageOk'
  BY DEF StageOk, Solving
<1> QED
  BY <1>1, <1>2, <1>3

LEMMA PopOutsideOk == ASSUME Typed, PopOutside PROVE Typed' /\ Advance
<1>1. Pops(Popped) /\ Popped.at \notin Offsets /\ cursor' = cursor + 1
  BY DEF PopOutside
<1>2. UNCHANGED <<case, phase, items, queued, origins, starts, bytes, accepted>>
  BY DEF PopOutside, mapVars
<1>3. UNCHANGED <<requests, labels, violations, failures, replay, todo, indexed, fresh, passes>>
  BY DEF PopOutside, factVars
<1>4. cursor < Len(items) /\ Solving /\ replay = NoReplay /\ Popped = items[cursor + 1]
  BY <1>1, PoppedType
<1>5. Grown(TheQueue, QueueAfter)
  BY <1>2, NotTaken DEF Typed
<1>6. QueueOk'
  BY <1>1, <1>4, <1>5, QueueOkAfter DEF Typed
<1>7. LoopsOk' /\ PassesOk' /\ StageOk'
  BY <1>2, <1>3, <1>4, NoWalk, SolvingOn
<1>8. MapOk' /\ FactsOk' /\ FreshOk'
  BY <1>2, <1>3 DEF Typed, MapOk, FactsOk, FreshOk, Solving
<1>9. Advance
  <2>1. \A o : o = items[cursor + 1].at => ~Decodes(o) /\ o \notin Offsets
    BY <1>1, <1>4 DEF Decodes
  <2> QED
    BY <1>1, <1>2, <1>3, <1>4, <1>5, <2>1 DEF Advance
<1> QED
  BY <1>6, <1>7, <1>8, <1>9 DEF Typed

LEMMA PopPlatformCallOk == ASSUME Typed, PopPlatformCall PROVE Typed' /\ Advance
<1>0. PICK o : o = Popped.at
  OBVIOUS
<1> DEFINE new == Item(o + 1, Inferred, "linkage", Popped.trace, 0)
           q == EnqueueIf(o + 1 < Size, TheQueue, new)
<1>1. /\ Pops(Popped) /\ o \in Offsets /\ At(o).kind = "linea" /\ cursor' = cursor + 1
      /\ starts' = starts \cup {o} /\ bytes' = bytes \cup {o}
      /\ accepted' = [accepted EXCEPT ![o] = [conf |-> Popped.conf, reason |-> Popped.reason]]
      /\ TakesQueue(q)
  BY <1>0 DEF PopPlatformCall
<1>2. UNCHANGED <<case, phase, requests, labels, violations, failures, replay, todo, indexed, fresh, passes>>
  BY DEF PopPlatformCall, factVars
<1>3. /\ cursor < Len(items) /\ Solving /\ replay = NoReplay /\ Popped = items[cursor + 1] /\ Popped \in Items
      /\ case \in Cases /\ QueueInv(TheQueue)
  BY <1>1, PoppedType
<1>4. /\ Popped.conf \in 0 .. Required /\ Popped.reason \in Reasons /\ Popped.trace \in Traces /\ o \in Nat
  BY <1>1, <1>3, ItemType, Constants DEF Required
<1> DEFINE fact == [conf |-> Popped.conf, reason |-> Popped.reason]
<1>5. fact \in Facts /\ fact.conf = Popped.conf
  BY <1>4 DEF Facts
<1>6. o + 1 < Size => new \in Items /\ new.conf \in Weaker
  <2>1. o + 1 < Size => o + 1 \in 0 .. Size
    BY <1>4, Constants
  <2>2. Inferred \in 1 .. 3 /\ "linkage" \in Reasons /\ 0 \in 0 .. 2
    BY WeakConf DEF Reasons, Inferred
  <2> QED
    BY <1>4, <2>1, <2>2, WeakConf, ItemIs
<1> HIDE DEF new, fact
<1>7. Grown(TheQueue, q)
  <2>1. (o + 1 < Size) \in BOOLEAN
    BY <1>4, Constants
  <2> QED
    BY <1>3, <1>6, <2>1, EnqueueIfGrows
<1> HIDE DEF q
<1>8. Grown(TheQueue, QueueAfter)
  BY <1>1, <1>7, Taken
<1>9. QueueOk'
  BY <1>1, <1>3, <1>8, QueueOkAfter DEF Typed
<1>10. LoopsOk' /\ PassesOk' /\ StageOk'
  BY <1>2, <1>3, NoWalk, SolvingOn
<1>11. accepted' = [accepted EXCEPT ![o] = fact]
  BY <1>1 DEF fact
<1>12. MapOk'
  BY <1>1, <1>5, <1>11 DEF Typed, MapOk
<1>13. FactsOk'
  BY <1>2 DEF Typed, FactsOk
<1>14. FreshOk'
  <2>1. starts \subseteq Offsets /\ starts' \subseteq Offsets
    BY <1>1 DEF Typed, MapOk
  <2>2. Cardinality(starts) <= Cardinality(starts') /\ Cardinality(starts) \in Nat /\ Cardinality(starts') \in Nat
    <3>1. starts \in SUBSET starts'
      BY <1>1
    <3> QED
      BY <2>1, <3>1, StartsAreFew, FS_Subset
  <2>3. fresh \in 0 .. Size /\ fresh <= Cardinality(starts)
    BY <1>3 DEF Typed, FreshOk
  <2>4. phase' # "entries"
    BY <1>2, <1>3 DEF Solving
  <2>5. fresh' = fresh
    BY <1>2
  <2>6. fresh <= Cardinality(starts')
    BY <2>2, <2>3, Constants
  <2> QED
    BY <2>3, <2>4, <2>5, <2>6 DEF FreshOk
<1>15. ~Decodes(o) /\ o \in starts' /\ ~Decodes(o)'
  BY <1>1, <1>2 DEF Decodes, Flows, At
<1>16. \A t \in Offsets : accepted'[t] = accepted[t] \/ t = o
  BY <1>1, <1>11 DEF Typed, MapOk
<1>17. Honoured(o)'
  BY <1>15 DEF Honoured
<1>18. /\ case' = case /\ violations \subseteq violations' /\ failures \subseteq failures'
       /\ starts \ starts' = {} /\ starts' \ starts \subseteq {o} /\ starts' \subseteq starts \cup {o}
  BY <1>1, <1>2
<1>19. \A p : p = items[cursor + 1].at => p = o
  BY <1>0, <1>3
<1>20. Advance
  <2>1. \A t \in Offsets : accepted'[t] = accepted[t] \/ (t \in starts' /\ (t \in starts => ~Decodes(t)))
    BY <1>15, <1>16
  <2>2. \A p : p = items[cursor + 1].at =>
             /\ starts' \subseteq starts \cup {p}
             /\ Decodes(p) => p \in starts' \/ Named(p)'
             /\ items[cursor + 1].conf = Required /\ p \in Offsets => Honoured(p)' \/ (p \in starts /\ Decodes(p))
    BY <1>15, <1>17, <1>18, <1>19
  <2>3. cursor' = cursor + 1 /\ cursor < Len(items)
    BY <1>1, <1>3
  <2>4. \A s \in starts' \ starts : ~Decodes(s)
    BY <1>15, <1>18
  <2> QED
    BY <1>8, <1>18, <2>1, <2>2, <2>3, <2>4 DEF Advance
<1> QED
  BY <1>9, <1>10, <1>12, <1>13, <1>14, <1>20 DEF Typed

LEMMA Least ==
  ASSUME NEW T \in SUBSET Nat, T # {}
  PROVE  \E x \in T : \A y \in T : x <= y
<1>1. PICK x \in T : \A y \in T : ~(<<y, x>> \in OpToRel(<, Nat))
  BY NatLessThanWellFounded, WFMin
<1>2. \A y \in T : ~(y < x)
  BY <1>1 DEF OpToRel
<1> QED
  BY <1>2

\* A rejected start is named by a violation.
LEMMA RejectedIsNamed ==
  ASSUME case \in Cases, NEW o, Decodes(o), NEW it, Rejects(o, it)
  PROVE  \E v \in RejectionViolations(o, it) : v[1] = o
<1>1. CASE OnData(o)
  <2>1. case.structured \in SUBSET Nat /\ case.structured # {}
    BY <1>1, CaseType, Constants DEF OnData
  <2>2. PICK d \in case.structured : \A e \in case.structured : d <= e
    BY <2>1, Least
  <2>3. <<o, d>> \in RejectionViolations(o, it)
    BY <1>1, <2>2 DEF RejectionViolations
  <2> QED
    BY <2>3
<1>2. CASE ~OnData(o)
  <2>1. Conflicts(o, it)
    BY <1>2 DEF Rejects
  <2>2. <<o, o>> \in RejectionViolations(o, it)
    BY <1>2, <2>1 DEF RejectionViolations
  <2> QED
    BY <2>2
<1> QED
  BY <1>1, <1>2

LEMMA PopUndecodableOk == ASSUME Typed, PopUndecodable PROVE Typed' /\ Advance
<1>0. PICK o : o = Popped.at
  OBVIOUS
<1>1. /\ Pops(Popped) /\ o \in Offsets /\ At(o).kind = "none" /\ cursor' = cursor + 1
      /\ violations' = IF InteriorOf(o, starts, bytes) \/ Popped.conf = Required
                       THEN violations \cup {<<o, o>>} ELSE violations
      /\ failures' = IF Popped.conf = Required THEN failures \cup {o} ELSE failures
  BY <1>0 DEF PopUndecodable
<1>2. /\ UNCHANGED <<case, phase, items, queued, origins, requests, labels, replay, todo, indexed, fresh, passes>>
      /\ starts' = starts /\ bytes' = bytes /\ accepted' = accepted
  BY DEF PopUndecodable, mapVars
<1>3. cursor < Len(items) /\ Solving /\ replay = NoReplay /\ Popped = items[cursor + 1]
  BY <1>1, PoppedType
<1>4. Grown(TheQueue, QueueAfter)
  BY <1>2, NotTaken DEF Typed
<1>5. QueueOk'
  BY <1>1, <1>3, <1>4, QueueOkAfter DEF Typed
<1>6. LoopsOk' /\ PassesOk' /\ StageOk'
  BY <1>2, <1>3, NoWalk, SolvingOn
<1>7. MapOk' /\ FreshOk'
  BY <1>2 DEF Typed, MapOk, FreshOk, Solving
<1>8. FactsOk'
  <2>1. <<o, o>> \in Offsets \X (0 .. Size)
    BY <1>1, Constants DEF Offsets
  <2> QED
    BY <1>1, <1>2, <2>1 DEF Typed, FactsOk, FactsTyped
<1>9. ~Decodes(o)
  BY <1>1 DEF Decodes, Flows
<1>10. Popped.conf = Required => Honoured(o)'
  BY <1>1 DEF Honoured
<1>11. violations \subseteq violations' /\ failures \subseteq failures'
  BY <1>1
<1>12. Advance
  <2>1. \A p : p = items[cursor + 1].at => p = o
    BY <1>0, <1>3
  <2> QED
    BY <1>1, <1>2, <1>3, <1>4, <1>9, <1>10, <1>11, <2>1 DEF Advance
<1> QED
  BY <1>5, <1>6, <1>7, <1>8, <1>12 DEF Typed

LEMMA PopAcceptedOk == ASSUME Typed, PopAccepted PROVE Typed' /\ Advance
<1>0. PICK o : o = Popped.at
  OBVIOUS
<1> DEFINE it == MarkedItem(Popped)
<1>1. /\ Pops(Popped) /\ Decodes(o) /\ o \in starts /\ cursor' = cursor + 1
      /\ replay' = IF it.variant = 0 THEN NoReplay ELSE [at |-> o, trace |-> it.trace, left |-> ReplayLimit]
  BY <1>0 DEF PopAccepted
<1>2. /\ UNCHANGED <<case, phase, items, queued, origins, requests, labels, violations, failures, todo, indexed, fresh, passes>>
      /\ starts' = starts /\ bytes' = bytes /\ accepted' = accepted
  BY DEF PopAccepted, mapVars, factVars
<1>3. /\ cursor < Len(items) /\ Solving /\ Popped = items[cursor + 1] /\ Popped \in Items /\ case \in Cases
  BY <1>1, PoppedType
<1>4. Grown(TheQueue, QueueAfter)
  BY <1>2, NotTaken DEF Typed
<1>5. QueueOk'
  BY <1>1, <1>3, <1>4, QueueOkAfter DEF Typed
<1>6. replay' \in Walks
  <2>1. it \in Items /\ o \in Offsets
    BY <1>0, <1>1, <1>3, DecodesIs, MarkedItemType
  <2>2. it.trace \in Traces /\ o \in 0 .. Nowhere /\ ReplayLimit \in 0 .. ReplayLimit
    BY <2>1, ItemType, Constants DEF Nowhere, Offsets
  <2> QED
    BY <1>1, <2>2, NoWalk DEF Walks
<1>7. LoopsOk' /\ PassesOk' /\ StageOk'
  BY <1>2, <1>3, <1>6, SolvingOn
<1>8. MapOk' /\ FreshOk' /\ FactsOk'
  BY <1>2 DEF Typed, MapOk, FreshOk, FactsOk, Solving
<1>9. Advance
  <2>1. \A p : p = items[cursor + 1].at => p = o
    BY <1>0, <1>3
  <2> QED
    BY <1>1, <1>2, <1>3, <1>4, <2>1 DEF Advance
<1> QED
  BY <1>5, <1>7, <1>8, <1>9 DEF Typed

LEMMA PopRejectedOk == ASSUME Typed, PopRejected PROVE Typed' /\ Advance
<1>0. PICK o : o = Popped.at
  OBVIOUS
<1> DEFINE it == MarkedItem(Popped)
<1>1. /\ Pops(Popped) /\ Decodes(o) /\ o \notin starts /\ Rejects(o, it) /\ cursor' = cursor + 1
      /\ violations' = violations \cup RejectionViolations(o, it)
  BY <1>0 DEF PopRejected
<1>2. /\ UNCHANGED <<case, phase, items, queued, origins, requests, labels, failures, replay, todo, indexed, fresh, passes>>
      /\ starts' = starts /\ bytes' = bytes /\ accepted' = accepted
  BY DEF PopRejected, mapVars
<1>3. /\ cursor < Len(items) /\ Solving /\ replay = NoReplay /\ Popped = items[cursor + 1] /\ case \in Cases
  BY <1>1, PoppedType
<1>4. Grown(TheQueue, QueueAfter)
  BY <1>2, NotTaken DEF Typed
<1>5. QueueOk'
  BY <1>1, <1>3, <1>4, QueueOkAfter DEF Typed
<1>6. LoopsOk' /\ PassesOk' /\ StageOk'
  BY <1>2, <1>3, NoWalk, SolvingOn
<1>7. MapOk' /\ FreshOk'
  BY <1>2 DEF Typed, MapOk, FreshOk, Solving
<1>8. FactsOk'
  <2>1. RejectionViolations(o, it) \subseteq Offsets \X (0 .. Size)
    BY <1>1, <1>3, RejectionType
  <2> QED
    BY <1>1, <1>2, <2>1 DEF Typed, FactsOk, FactsTyped
<1>9. Named(o)' /\ Honoured(o)'
  <2>1. \E v \in RejectionViolations(o, it) : v[1] = o
    BY <1>1, <1>3, RejectedIsNamed
  <2>2. \E v \in violations' : v[1] = o
    BY <1>1, <2>1
  <2> QED
    BY <2>2 DEF Named, Honoured
<1>10. Advance
  <2>1. \A p : p = items[cursor + 1].at => p = o
    BY <1>0, <1>3
  <2>2. violations \subseteq violations'
    BY <1>1
  <2> QED
    BY <1>1, <1>2, <1>3, <1>4, <1>9, <2>1, <2>2 DEF Advance
<1> QED
  BY <1>5, <1>6, <1>7, <1>8, <1>10 DEF Typed

\* The counter of accepted starts, when some give way to one more.
LEMMA FreshStays ==
  ASSUME NEW S, S \subseteq Offsets, NEW G, G \subseteq S, NEW o \in Offsets, o \notin S,
         NEW n \in 0 .. Size, n <= Cardinality(S)
  PROVE  LET T == (S \ G) \cup {o}
             m == (IF n > Cardinality(G) THEN n - Cardinality(G) ELSE 0) + 1
         IN  m \in 0 .. Size /\ m <= Cardinality(T)
<1> DEFINE T == (S \ G) \cup {o}
           m == (IF n > Cardinality(G) THEN n - Cardinality(G) ELSE 0) + 1
           s == Cardinality(S)
           g == Cardinality(G)
           d == Cardinality(S \ G)
           t == Cardinality(T)
<1>1. IsFiniteSet(S) /\ s \in Nat /\ g \in Nat /\ IsFiniteSet(S \ G) /\ d \in Nat
  <2>1. G \subseteq Offsets /\ S \ G \subseteq Offsets
    OBVIOUS
  <2> QED
    BY <2>1, StartsAreFew
<1>2. S \cap G = G
  OBVIOUS
<1>3. d = s - g
  BY <1>1, <1>2, FS_Difference
<1>4. o \notin S \ G
  OBVIOUS
<1>5. t = d + 1
  BY <1>1, <1>4, FS_AddElement
<1>6. T \subseteq Offsets
  OBVIOUS
<1>7. t <= Size /\ t \in Nat
  BY <1>6, StartsAreFew
<1>8. m = (IF n > g THEN n - g ELSE 0) + 1 /\ n \in Nat /\ n <= s /\ Size \in Nat
  BY Constants
<1> HIDE DEF m, s, g, d, t, T
<1>9. m \in Nat /\ m <= t
  BY <1>1, <1>3, <1>5, <1>7, <1>8
<1>10. m \in 0 .. Size
  BY <1>7, <1>8, <1>9
<1> QED
  BY <1>9, <1>10 DEF m, t, T

LEMMA PopAcceptingOk == ASSUME Typed, PopAccepting PROVE Typed' /\ Advance /\ fresh' # 0
<1>0. PICK o : o = Popped.at
  OBVIOUS
<1> DEFINE it == MarkedItem(Popped)
           gone == IF Overlaps(o) /\ CanReplace(o, it) THEN Replaced(o, it) ELSE {}
           S == (starts \ gone) \cup {o}
           B == (bytes \ Extents(gone)) \cup Extent(o)
           fact == [conf |-> it.conf, reason |-> it.reason]
           q == Flow(o, it, S, B, TheQueue)
           less == IF fresh > Cardinality(gone) THEN fresh - Cardinality(gone) ELSE 0
<1>1. /\ Pops(Popped) /\ Decodes(o) /\ o \notin starts /\ cursor' = cursor + 1
      /\ starts' = S /\ bytes' = B
      /\ accepted' = [accepted EXCEPT ![o] = fact]
      /\ TakesQueue(q)
      /\ requests' = requests \cup FlowRequests(o, it, S, B)
      /\ violations' = violations \cup RejectionViolations(o, it) \cup FlowViolations(o, it, S, B)
      /\ failures' = IF Conflicts(o, it) THEN failures \cup {o} ELSE failures
      /\ fresh' = less + 1
  BY <1>0 DEF PopAccepting
<1>2. UNCHANGED <<case, phase, labels, replay, todo, indexed, passes>>
  BY DEF PopAccepting
<1>3. /\ cursor < Len(items) /\ Solving /\ replay = NoReplay /\ Popped = items[cursor + 1] /\ Popped \in Items
      /\ case \in Cases /\ QueueInv(TheQueue)
  BY <1>1, PoppedType
<1>4. o \in Offsets /\ it \in Items /\ it.conf = Popped.conf
  BY <1>0, <1>1, <1>3, DecodesIs, MarkedItemType
<1>5. it.conf \in 1 .. Required /\ it.reason \in Reasons
  BY <1>4, ItemType DEF Required
<1>6. fact \in Facts /\ fact.conf = Popped.conf
  BY <1>4, <1>5 DEF Facts
<1>7. gone \subseteq starts /\ \A s \in gone : Decodes(s) /\ accepted[s].conf \in Weaker
  BY DEF CanReplace, Replaced, YieldsTo, Weaker
<1>8. starts \subseteq Offsets /\ bytes \subseteq Offsets /\ accepted \in [Offsets -> Facts]
  BY DEF Typed, MapOk
<1>9. FactsTyped(FlowRequests(o, it, S, B), FlowViolations(o, it, S, B))
  BY <1>1, <1>3, FlowFactsType
<1>10. RejectionViolations(o, it) \subseteq Offsets \X (0 .. Size)
  BY <1>1, <1>3, RejectionType
<1>11. /\ Grown(TheQueue, q)
       /\ \A t \in Continuations(o) : Decodes(t) => t \in S \/ HasItem(q, t) \/ <<o, t>> \in FlowViolations(o, it, S, B)
  BY <1>1, <1>3, <1>4, FlowGrows
<1>12. Extent(o) \subseteq Offsets
  BY <1>3, <1>4, CaseType
<1>13. fresh \in 0 .. Size /\ fresh <= Cardinality(starts)
  BY <1>3 DEF Typed, FreshOk
<1>14. less + 1 \in 0 .. Size /\ less + 1 <= Cardinality(S) /\ less \in Nat
  <2>1. less + 1 \in 0 .. Size /\ less + 1 <= Cardinality(S)
    <3> HIDE DEF gone
    <3> QED
      BY <1>1, <1>4, <1>7, <1>8, <1>13, FreshStays
  <2>2. gone \subseteq Offsets
    BY <1>7, <1>8
  <2>3. Cardinality(gone) \in Nat
    BY <2>2, StartsAreFew
  <2>4. less \in Nat
    BY <1>13, <2>3, Constants
  <2> QED
    BY <2>1, <2>4
<1>15. S \subseteq Offsets /\ B \subseteq Offsets
  BY <1>4, <1>8, <1>12
<1>16. /\ starts \ S \subseteq gone /\ S \ starts = {o} /\ o \in S /\ S \subseteq starts \cup {o}
  BY <1>1, <1>7
<1> HIDE DEF it, gone, S, B, fact, q, less
<1>17. Grown(TheQueue, QueueAfter) /\ \A t : HasItem(q, t) => HasItem(QueueAfter, t)
  BY <1>1, <1>11, Taken
<1>18. QueueOk'
  BY <1>1, <1>3, <1>17, QueueOkAfter DEF Typed
<1>19. LoopsOk' /\ PassesOk' /\ StageOk'
  BY <1>2, <1>3, NoWalk, SolvingOn
<1>20. MapOk'
  <2>1. accepted' \in [Offsets -> Facts]
    BY <1>1, <1>6, <1>8
  <2> QED
    BY <1>1, <1>15, <2>1 DEF MapOk
<1>21. FactsOk'
  <2>1. requests' \subseteq Offsets \X (1 .. Required) /\ violations' \subseteq Offsets \X (0 .. Size)
    BY <1>1, <1>9, <1>10 DEF Typed, FactsOk, FactsTyped
  <2>2. labels' \subseteq 0 .. Size /\ failures' \subseteq Offsets
    BY <1>1, <1>2, <1>4 DEF Typed, FactsOk
  <2> QED
    BY <2>1, <2>2 DEF FactsOk, FactsTyped
<1>22. FreshOk'
  <2>1. phase' # "entries"
    BY <1>2, <1>3 DEF Solving
  <2> QED
    BY <1>1, <1>14, <2>1 DEF FreshOk
<1>23. fresh' # 0
  BY <1>1, <1>14
<1>24. \A p : p = items[cursor + 1].at => p = o
  BY <1>0, <1>3
<1>25. Advance
  <2>1. violations \subseteq violations' /\ FlowViolations(o, it, S, B) \subseteq violations' /\ failures \subseteq failures'
    BY <1>1
  <2>2. \A t \in starts \ starts' : Decodes(t) /\ accepted[t].conf \in Weaker
    BY <1>1, <1>7, <1>16
  <2>3. \A t \in Offsets : accepted'[t] = accepted[t] \/ (t \in starts' /\ (t \in starts => ~Decodes(t)))
    BY <1>1, <1>8, <1>16
  <2>4. \A s \in starts' \ starts : s = o
    BY <1>1, <1>16
  <2>5. \A t \in Continuations(o) : Decodes(t) => t \in starts' \/ HasItem(QueueAfter, t) \/ <<o, t>> \in violations'
    BY <1>1, <1>11, <1>17, <2>1
  <2>6. items[cursor + 1].conf = Required => Honoured(o)'
    <3>1. accepted'[o].conf = Popped.conf
      BY <1>1, <1>4, <1>6, <1>8
    <3> QED
      BY <1>1, <1>3, <1>16, <3>1 DEF Honoured
  <2>7. starts' \subseteq starts \cup {o} /\ o \in starts'
    BY <1>1, <1>16
  <2>8. \A p : p = items[cursor + 1].at =>
             /\ starts' \subseteq starts \cup {p}
             /\ Decodes(p) => p \in starts' \/ Named(p)'
             /\ items[cursor + 1].conf = Required /\ p \in Offsets => Honoured(p)' \/ (p \in starts /\ Decodes(p))
    BY <1>24, <2>6, <2>7
  <2>9. cursor' = cursor + 1 /\ cursor < Len(items) /\ case' = case
    BY <1>1, <1>2, <1>3
  <2>10. \A s \in starts' \ starts : Decodes(s) =>
       \A t \in Continuations(s) : Decodes(t) => t \in starts' \/ HasItem(QueueAfter, t) \/ <<s, t>> \in violations'
    BY <2>4, <2>5
  <2> QED
    BY <1>17, <2>1, <2>2, <2>3, <2>8, <2>9, <2>10 DEF Advance
<1> QED
  BY <1>18, <1>19, <1>20, <1>21, <1>22, <1>23, <1>25 DEF Typed

LEMMA PopContinuationOk == ASSUME Typed, PopContinuation PROVE Typed' /\ Advance
<1>0. PICK o : o = Popped.at
  OBVIOUS
<1> DEFINE it == MarkedItem(Popped)
           q == Flow(o, it, starts, bytes, TheQueue)
<1>1. /\ Pops(Popped) /\ Decodes(o) /\ o \in starts /\ cursor' = cursor + 1
      /\ TakesQueue(q)
      /\ requests' = requests \cup FlowRequests(o, it, starts, bytes)
      /\ violations' = violations \cup FlowViolations(o, it, starts, bytes)
  BY <1>0 DEF PopContinuation
<1>2. /\ UNCHANGED <<case, phase, labels, failures, replay, todo, indexed, fresh, passes>>
      /\ starts' = starts /\ bytes' = bytes /\ accepted' = accepted
  BY DEF PopContinuation, mapVars
<1>3. /\ cursor < Len(items) /\ Solving /\ replay = NoReplay /\ Popped = items[cursor + 1] /\ Popped \in Items
      /\ case \in Cases /\ QueueInv(TheQueue)
  BY <1>1, PoppedType
<1>4. it \in Items
  BY <1>0, <1>1, <1>3, DecodesIs, MarkedItemType
<1>5. FactsTyped(FlowRequests(o, it, starts, bytes), FlowViolations(o, it, starts, bytes))
  BY <1>1, <1>3, FlowFactsType
<1>6. Grown(TheQueue, q)
  BY <1>1, <1>3, <1>4, FlowGrows
<1> HIDE DEF it, q
<1>7. Grown(TheQueue, QueueAfter)
  BY <1>1, <1>6, Taken
<1>8. QueueOk'
  BY <1>1, <1>3, <1>7, QueueOkAfter DEF Typed
<1>9. LoopsOk' /\ PassesOk' /\ StageOk'
  BY <1>2, <1>3, NoWalk, SolvingOn
<1>10. MapOk' /\ FreshOk'
  BY <1>2 DEF Typed, MapOk, FreshOk, Solving
<1>11. FactsOk'
  BY <1>1, <1>2, <1>5 DEF Typed, FactsOk, FactsTyped
<1>12. Advance
  <2>1. \A p : p = items[cursor + 1].at => p = o
    BY <1>0, <1>3
  <2>2. violations \subseteq violations'
    BY <1>1
  <2> QED
    BY <1>1, <1>2, <1>3, <1>7, <2>1, <2>2 DEF Advance
<1> QED
  BY <1>8, <1>9, <1>10, <1>11, <1>12 DEF Typed

\* A step that pops nothing and takes nothing in.
LEMMA StillAdvance ==
  ASSUME case' = case, Grown(TheQueue, QueueAfter), cursor' = cursor, accepted' = accepted,
         violations \subseteq violations', failures \subseteq failures', starts' \subseteq starts,
         \A t \in starts \ starts' : Named(t)'
  PROVE  Advance
BY DEF Advance

LEMMA ReplayStepOk == ASSUME Typed, ReplayStep PROVE Typed' /\ Advance
<1>0. PICK o : o = replay.at
  OBVIOUS
<1> DEFINE trace == replay.trace
           next == After(o, trace)
           ends == ~Falls(o) \/ HasTarget(o) \/ End(o) >= Size
           leaves == ~ends /\ End(o) \notin starts
           traced == TracedTarget(o, trace, starts, bytes, TheQueue)
           conf == IF At(o).kind = "if" THEN Inferred ELSE Speculative
           new == Item(End(o), conf, "fallthrough", next, 1)
           stepped == EnqueueIf(leaves /\ Drives(next), traced, new)
           marks == MarksResume(o, trace)
           back == Item(o, Inferred, "fallthrough", Marked(o, trace), 2)
           stops == replay.left = 0 \/ o \notin starts \/ ~Decodes(o)
           q == IF stops THEN TheQueue ELSE IF marks THEN Enqueue(TheQueue, back) ELSE stepped
           walk == [at |-> End(o), trace |-> next, left |-> replay.left - 1]
           req == {<<t, Inferred>> : t \in {t \in TracedTargets(o, trace) : Reaches(t, starts, bytes)}}
           vio == {<<o, t>> : t \in {t \in TracedTargets(o, trace) : InteriorOf(t, starts, bytes)}}
<1>1. /\ Solving /\ replay # NoReplay /\ TakesQueue(q)
      /\ requests' = IF stops \/ marks \/ ~Drives(trace) THEN requests ELSE requests \cup req
      /\ violations' = IF stops \/ marks \/ ~Drives(trace) THEN violations ELSE violations \cup vio
      /\ replay' = IF stops \/ marks \/ ends \/ leaves THEN NoReplay ELSE walk
  BY <1>0 DEF ReplayStep
<1>2. /\ UNCHANGED <<case, phase, cursor, labels, failures, todo, indexed, fresh, passes>>
      /\ starts' = starts /\ bytes' = bytes /\ accepted' = accepted
  BY DEF ReplayStep, mapVars
<1>3. /\ case \in Cases /\ QueueInv(TheQueue) /\ starts \subseteq Offsets /\ trace \in Traces /\ replay.left \in 0 .. ReplayLimit
  BY DEF Typed, LoopsOk, QueueOk, MapOk
<1>4. ~stops => o \in Offsets /\ Decodes(o)
  BY <1>3
<1>5. ~stops => next \in Traces /\ Marked(o, trace) \in Traces
  BY <1>3, <1>4, TraceType
<1>6. ~stops => End(o) \in Nat
  BY <1>3, <1>4, CaseType
<1>7. /\ conf \in 1 .. 3 /\ conf \in Weaker /\ Inferred \in 1 .. 3 /\ Inferred \in Weaker /\ "fallthrough" \in Reasons
      /\ 1 \in 0 .. 2 /\ 2 \in 0 .. 2
  BY WeakConf DEF Reasons
<1>8. ~stops /\ ~ends => End(o) \in 0 .. Size
  BY <1>6, Constants
<1>9. ~stops => o \in 0 .. Size
  BY <1>4, Constants DEF Offsets
<1>10. ~stops => Grown(TheQueue, traced)
  BY <1>3, TracedTargetGrows
<1>11. leaves /\ Drives(next) => ~ends
  OBVIOUS
<1>12. TracedTargets(o, trace) \subseteq Offsets /\ Inferred \in 1 .. Required /\ Offsets \subseteq 0 .. Size
  BY Constants DEF TracedTargets, Offsets, Inferred, Required
<1>13. ~stops => req \subseteq Offsets \X (1 .. Required) /\ vio \subseteq Offsets \X (0 .. Size)
  <2> DEFINE T == TracedTargets(o, trace)
  <2>1. T \subseteq Offsets
    BY <1>12
  <2> HIDE DEF T, stops
  <2>2. req \subseteq Offsets \X (1 .. Required)
    BY <1>12, <2>1 DEF T
  <2>3. ~stops => vio \subseteq Offsets \X (0 .. Size)
    <3> SUFFICES ASSUME ~stops, NEW v \in vio PROVE v \in Offsets \X (0 .. Size)
      OBVIOUS
    <3>1. PICK t \in T : v = <<o, t>>
      BY DEF T
    <3>2. t \in 0 .. Size /\ o \in Offsets
      BY <1>4, <1>12, <2>1
    <3> QED
      BY <3>1, <3>2
  <2> QED
    BY <2>2, <2>3
<1> HIDE DEF trace, next, ends, leaves, traced, conf, marks, req, vio
<1>14. ~stops /\ ~ends => new \in Items /\ new.conf = conf
  BY <1>5, <1>7, <1>8, ItemIs
<1>15. ~stops => back \in Items /\ back.conf = Inferred
  BY <1>5, <1>7, <1>9, ItemIs
<1> HIDE DEF new, back
<1>16. ~stops => Grown(TheQueue, stepped)
  <2> SUFFICES ASSUME ~stops PROVE Grown(TheQueue, stepped)
    OBVIOUS
  <2>1. QueueInv(traced)
    BY <1>10 DEF Grown
  <2>2. leaves /\ Drives(next) => new \in Items /\ new.conf \in Weaker
    BY <1>7, <1>11, <1>14
  <2>3. (leaves /\ Drives(next)) \in BOOLEAN
    BY DEF leaves
  <2>4. Grown(traced, stepped)
    BY <2>1, <2>2, <2>3, EnqueueIfGrows
  <2> QED
    BY <1>10, <2>4, GrownStill
<1>17. ~stops => Grown(TheQueue, Enqueue(TheQueue, back))
  BY <1>3, <1>7, <1>15, EnqueueGrows
<1>18. Grown(TheQueue, TheQueue)
  BY <1>3, LaterItself DEF Grown, QueueInv
<1> HIDE DEF stepped, stops
<1>19. Grown(TheQueue, q)
  BY <1>16, <1>17, <1>18
<1> HIDE DEF q
<1>20. Grown(TheQueue, QueueAfter)
  BY <1>1, <1>19, Taken
<1>21. QueueOk'
  BY <1>2, <1>20, QueueOkAfter DEF Typed
<1>22. replay' \in Walks
  <2>1. CASE stops \/ marks \/ ends \/ leaves
    BY <1>1, <2>1, NoWalk
  <2>2. CASE ~(stops \/ marks \/ ends \/ leaves)
    <3>1. replay.left - 1 \in 0 .. ReplayLimit
      BY <1>3, <2>2, Constants DEF stops
    <3>2. End(o) \in 0 .. Nowhere
      BY <1>8, <2>2, Constants DEF Nowhere
    <3>3. walk \in Walks
      BY <1>5, <2>2, <3>1, <3>2 DEF Walks
    <3> QED
      BY <1>1, <2>2, <3>3
  <2> QED
    BY <2>1, <2>2
<1>23. LoopsOk' /\ PassesOk' /\ StageOk'
  BY <1>1, <1>2, <1>22, SolvingOn
<1>24. MapOk' /\ FreshOk'
  BY <1>2 DEF Typed, MapOk, FreshOk, Solving
<1>25. FactsOk'
  BY <1>1, <1>2, <1>13 DEF Typed, FactsOk, FactsTyped
<1>26. Advance
  <2>1. violations \subseteq violations'
    BY <1>1
  <2> QED
    BY <1>2, <1>20, <2>1, StillAdvance
<1> QED
  BY <1>21, <1>23, <1>24, <1>25, <1>26 DEF Typed

LEMMA SolvedOk == ASSUME Typed, Solved PROVE Typed' /\ Advance
<1>1. /\ Solving /\ replay = NoReplay /\ cursor = Len(items)
      /\ phase' = IF phase = "solve" THEN "labels" ELSE "rebuild api"
      /\ todo' = IF phase = "solve" THEN RequiredRequests ELSE {}
      /\ indexed' = IF phase = "solve" THEN {o \in starts : Decodes(o)} ELSE indexed
  BY DEF Solved
<1>2. /\ UNCHANGED <<case, items, queued, origins, cursor, requests, labels, violations, failures, replay, fresh, passes>>
      /\ starts' = starts /\ bytes' = bytes /\ accepted' = accepted
  BY DEF Solved, queueVars, mapVars, factVars
<1>3. Grown(TheQueue, QueueAfter)
  BY <1>2, NotTaken DEF Typed
<1>4. QueueOk'
  BY <1>2, <1>3, QueueOkAfter DEF Typed
<1>5. phase' \in {"labels", "rebuild api"}
  BY <1>1
<1>6. RequiredRequests \subseteq Offsets
  BY DEF Typed, FactsOk, FactsTyped, RequiredRequests
<1>7. indexed' \subseteq Offsets
  BY <1>1 DEF Typed, MapOk, LoopsOk
<1>8. LoopsOk'
  <2>1. case' \in Cases /\ phase' \in Phases /\ replay' \in Walks
    BY <1>2, <1>5 DEF Typed, LoopsOk, Phases, Walks
  <2>2. phase' = "labels" => todo' \subseteq Offsets
    BY <1>1, <1>6
  <2> QED
    BY <1>5, <1>7, <2>1, <2>2 DEF LoopsOk, Walks
<1>9. PassesOk' /\ FreshOk' /\ StageOk'
  <2>1. ~Solving' /\ phase' \notin {"prune", "done", "failed", "entries"} /\ phase \notin {"prune", "done", "failed"}
    BY <1>1, <1>5 DEF Solving
  <2>2. PassesOk'
    BY <1>2, <2>1 DEF Typed, PassesOk
  <2>3. FreshOk'
    BY <1>2, <2>1 DEF Typed, FreshOk
  <2>4. StageOk'
    BY <1>1, <1>2, <2>1 DEF StageOk
  <2> QED
    BY <2>2, <2>3, <2>4
<1>10. MapOk' /\ FactsOk'
  BY <1>2 DEF Typed, MapOk, FactsOk
<1>11. Advance
  BY <1>2, <1>3, StillAdvance
<1> QED
  BY <1>4, <1>8, <1>9, <1>10, <1>11 DEF Typed

-----------------------------------------------------------------------------
(* The other actions                                                       *)

LEMMA InSection == Offsets \subseteq 0 .. Size
BY Constants DEF Offsets

\* A step outside the fixed point that leaves the queue alone.
LEMMA QueueAlone ==
  ASSUME Typed, UNCHANGED <<items, queued, origins, cursor>>
  PROVE  Grown(TheQueue, QueueAfter) /\ QueueOk'
<1>1. Grown(TheQueue, QueueAfter)
  BY NotTaken DEF Typed
<1>2. QueueOk'
  BY <1>1, QueueOkAfter DEF Typed
<1> QED
  BY <1>1, <1>2

LEMMA SeededOk == ASSUME Typed, Seeded PROVE Typed' /\ Advance
<1>1. phase = "entries" /\ todo = {} /\ phase' = "solve"
  BY DEF Seeded
<1>2. /\ UNCHANGED <<case, items, queued, origins, cursor, requests, labels, violations, failures>>
      /\ UNCHANGED <<replay, todo, indexed, fresh, passes, starts, bytes, accepted>>
  BY DEF Seeded, queueVars, mapVars, factVars
<1>3. Grown(TheQueue, QueueAfter) /\ QueueOk'
  BY <1>2, QueueAlone
<1>4. MapOk' /\ FactsOk'
  BY <1>2 DEF Typed, MapOk, FactsOk
<1>5. LoopsOk'
  BY <1>1, <1>2 DEF Typed, LoopsOk, Phases
<1>6. FreshOk'
  <2>1. Cardinality(starts') \in Nat
    BY <1>4, StartsAreFew DEF MapOk
  <2>2. fresh' = 0 /\ 0 \in 0 .. Size
    BY <1>1, <1>2, Constants DEF Typed, FreshOk
  <2> QED
    BY <2>1, <2>2 DEF FreshOk
<1>7. PassesOk' /\ StageOk'
  BY <1>1, <1>2 DEF Typed, PassesOk, StageOk, Solving
<1>8. Advance
  BY <1>2, <1>3, StillAdvance
<1> QED
  BY <1>3, <1>4, <1>5, <1>6, <1>7, <1>8 DEF Typed

\* Starts that are taken back in a loop over labels or relocations.
LEMMA DemotedOk ==
  ASSUME Typed, phase \in {"labels", "relocations"}, NEW at \in Offsets, NEW gone, gone \subseteq starts,
         starts' = starts \ gone, bytes' = bytes \ Extents(gone), labels' \subseteq 0 .. Size,
         violations' = violations \cup {<<s, at>> : s \in gone}, todo' \subseteq todo,
         UNCHANGED <<case, phase, queueVars, accepted, requests, failures, replay, indexed, fresh, passes>>
  PROVE  Typed' /\ Advance
<1>1. UNCHANGED <<case, phase, items, queued, origins, cursor, accepted, requests, failures, replay, indexed, fresh, passes>>
  BY DEF queueVars
<1>2. Grown(TheQueue, QueueAfter) /\ QueueOk'
  BY <1>1, QueueAlone
<1>3. MapOk'
  BY <1>1 DEF Typed, MapOk
<1>4. FactsOk'
  <2>1. at \in 0 .. Size /\ gone \subseteq Offsets
    BY Constants DEF Typed, MapOk, Offsets
  <2>2. {<<s, at>> : s \in gone} \subseteq Offsets \X (0 .. Size)
    BY <2>1
  <2> QED
    BY <1>1, <2>2 DEF Typed, FactsOk, FactsTyped
<1>5. LoopsOk'
  BY <1>1 DEF Typed, LoopsOk
<1>6. FreshOk' /\ PassesOk' /\ StageOk'
  BY <1>1 DEF Typed, FreshOk, PassesOk, StageOk, Solving
<1>7. Advance
  <2>1. ASSUME NEW t \in starts \ starts' PROVE Named(t)'
    <3>1. <<t, at>> \in violations'
      BY <2>1
    <3> QED
      BY <3>1 DEF Named
  <2> QED
    BY <1>1, <1>2, <2>1, StillAdvance
<1> QED
  BY <1>2, <1>3, <1>4, <1>5, <1>6, <1>7 DEF Typed

LEMMA CoveringAre ==
  ASSUME NEW o
  PROVE  Covering(o) \subseteq indexed \cap starts
BY DEF Covering

LEMMA DemoteLabelOk == ASSUME Typed, NEW o \in todo, DemoteLabel(o) PROVE Typed' /\ Advance
<1> DEFINE gone == IF InteriorOf(o, starts, bytes) THEN {s \in Covering(o) : s < o} ELSE {}
<1>1. /\ phase = "labels" /\ todo' = todo \ {o} /\ starts' = starts \ gone /\ bytes' = bytes \ Extents(gone)
      /\ labels' = IF gone # {} THEN labels \cup {o} ELSE labels
      /\ violations' = violations \cup {<<s, o>> : s \in gone}
      /\ UNCHANGED <<case, phase, queueVars, accepted, requests, failures, replay, indexed, fresh, passes>>
  BY DEF DemoteLabel
<1>2. o \in Offsets /\ gone \subseteq starts
  BY <1>1, CoveringAre DEF Typed, LoopsOk
<1> HIDE DEF gone
<1>3. labels' \subseteq 0 .. Size /\ todo' \subseteq todo
  BY <1>1, <1>2, InSection DEF Typed, FactsOk
<1> QED
  BY <1>1, <1>2, <1>3, DemotedOk

LEMMA DemoteRelocationOk == ASSUME Typed, NEW at \in todo, DemoteRelocation(at) PROVE Typed' /\ Advance
<1> DEFINE gone == RelocationConflicts(at)
<1>1. /\ phase = "relocations" /\ todo' = todo \ {at} /\ starts' = starts \ gone /\ bytes' = bytes \ Extents(gone)
      /\ violations' = violations \cup {<<s, at>> : s \in gone}
      /\ UNCHANGED <<case, phase, queueVars, accepted, requests, labels, failures, replay, indexed, fresh, passes>>
  BY DEF DemoteRelocation
<1>2. at \in Offsets /\ gone \subseteq starts
  BY <1>1, CoveringAre DEF Typed, LoopsOk, RelocationConflicts
<1> HIDE DEF gone
<1>3. labels' \subseteq 0 .. Size /\ todo' \subseteq todo
  BY <1>1 DEF Typed, FactsOk
<1>4. UNCHANGED <<case, phase, queueVars, accepted, requests, failures, replay, indexed, fresh, passes>>
  BY <1>1
<1> QED
  BY <1>1, <1>2, <1>3, <1>4, DemotedOk

LEMMA DemotedAllOk == ASSUME Typed, LabelsDemoted \/ RelocationsDemoted PROVE Typed' /\ Advance
<1>1. /\ UNCHANGED <<case, items, queued, origins, cursor, requests, labels, violations, failures>>
      /\ UNCHANGED <<replay, indexed, fresh, passes, starts, bytes, accepted>>
  BY DEF LabelsDemoted, RelocationsDemoted, queueVars, mapVars, factVars
<1>2. /\ phase \in {"labels", "relocations"} /\ phase' \in {"relocations", "rebuild"}
      /\ phase' = "relocations" => todo' = {r.at : r \in case.relocations}
  BY DEF LabelsDemoted, RelocationsDemoted
<1>3. Grown(TheQueue, QueueAfter) /\ QueueOk'
  BY <1>1, QueueAlone
<1>4. MapOk' /\ FactsOk'
  BY <1>1 DEF Typed, MapOk, FactsOk
<1>5. LoopsOk'
  <2>1. phase' = "relocations" => todo' \subseteq Offsets
    BY <1>2, CaseType DEF Typed, LoopsOk
  <2> QED
    BY <1>1, <1>2, <2>1 DEF Typed, LoopsOk, Phases
<1>6. FreshOk' /\ PassesOk' /\ StageOk'
  BY <1>1, <1>2 DEF Typed, FreshOk, PassesOk, StageOk, Solving
<1>7. Advance
  BY <1>1, <1>3, StillAdvance
<1> QED
  BY <1>3, <1>4, <1>5, <1>6, <1>7 DEF Typed

LEMMA RebuildOk == ASSUME Typed, Rebuild PROVE Typed' /\ Advance
<1>1. /\ UNCHANGED <<case, items, queued, origins, cursor, requests, violations, failures>>
      /\ UNCHANGED <<replay, todo, indexed, fresh, starts, accepted>>
  BY DEF Rebuild, queueVars
<1>2. phase \in {"rebuild", "rebuild api"} /\ phase' \in {"failed", "seed", "prune"}
  BY DEF Rebuild
<1>3. Grown(TheQueue, QueueAfter) /\ QueueOk'
  BY <1>1, QueueAlone
<1>4. MapOk'
  <2>1. Extents(DecodedStarts) \subseteq Offsets
    BY CaseType DEF Typed, MapOk, LoopsOk, Extents, DecodedStarts
  <2>2. bytes' \in {bytes, Extents(DecodedStarts)}
    BY DEF Rebuild
  <2> QED
    BY <1>1, <2>1, <2>2 DEF Typed, MapOk
<1>5. FactsOk'
  <2>1. {r[1] : r \in {r \in requests : ~InteriorOf(r[1], starts, bytes')}} \subseteq Offsets
    BY DEF Typed, FactsOk, FactsTyped
  <2>2. labels' = labels \/ labels' = labels \cup {r[1] : r \in {r \in requests : ~InteriorOf(r[1], starts, bytes')}}
    BY DEF Rebuild
  <2>3. labels' \subseteq 0 .. Size
    BY <2>1, <2>2, InSection DEF Typed, FactsOk
  <2> QED
    BY <1>1, <2>3 DEF Typed, FactsOk, FactsTyped
<1>6. LoopsOk'
  BY <1>1, <1>2 DEF Typed, LoopsOk, Phases
<1>7. FreshOk' /\ StageOk'
  BY <1>1, <1>2 DEF Typed, FreshOk, StageOk, Solving
<1>8. PassesOk'
  <2>1. passes \in 0 .. Size + 2 /\ passes <= Size + 1
    BY <1>2 DEF Typed, PassesOk
  <2>2. \/ passes' = passes
        \/ passes' = passes + 1 /\ phase' = IF fresh = 0 \/ passes > Size THEN "prune" ELSE "seed"
    BY DEF Rebuild
  <2>3. CASE passes' = passes
    BY <2>1, <2>3 DEF PassesOk
  <2>4. CASE passes' = passes + 1 /\ phase' = IF fresh = 0 \/ passes > Size THEN "prune" ELSE "seed"
    <3>1. passes' \in 0 .. Size + 2
      BY <2>1, <2>4, Constants
    <3>2. phase' # "prune" => passes' <= Size + 1
      BY <2>1, <2>4, Constants
    <3> QED
      BY <3>1, <3>2 DEF PassesOk
  <2> QED
    BY <2>2, <2>3, <2>4
<1>9. Advance
  BY <1>1, <1>3, StillAdvance
<1> QED
  BY <1>3, <1>4, <1>5, <1>6, <1>7, <1>8, <1>9 DEF Typed

LEMMA SeedEntriesOk == ASSUME Typed, SeedEntries PROVE Typed' /\ Advance
<1>1. /\ UNCHANGED <<case, items, queued, origins, cursor, requests, labels, violations, failures>>
      /\ UNCHANGED <<replay, indexed, fresh, passes, starts, bytes, accepted>>
  BY DEF SeedEntries, queueVars, mapVars, factVars
<1>2. /\ phase = "seed" /\ phase' \in {"seeding", "prune"}
      /\ todo' = {<<o, "linkage">> : o \in LinkageEntries(bytes)} \cup {<<o, "boundary">> : o \in BoundaryEntries(bytes)}
  BY DEF SeedEntries
<1>3. Grown(TheQueue, QueueAfter) /\ QueueOk'
  BY <1>1, QueueAlone
<1>4. MapOk' /\ FactsOk'
  BY <1>1 DEF Typed, MapOk, FactsOk
<1>5. LoopsOk'
  <2>1. LinkageEntries(bytes) \subseteq Offsets /\ BoundaryEntries(bytes) \subseteq Offsets
    BY DEF LinkageEntries, BoundaryEntries
  <2>2. todo' \subseteq Seeds
    BY <1>2, <2>1 DEF Seeds
  <2> QED
    BY <1>1, <1>2, <2>2 DEF Typed, LoopsOk, Phases
<1>6. FreshOk' /\ PassesOk' /\ StageOk'
  BY <1>1, <1>2 DEF Typed, FreshOk, PassesOk, StageOk, Solving
<1>7. Advance
  BY <1>1, <1>3, StillAdvance
<1> QED
  BY <1>3, <1>4, <1>5, <1>6, <1>7 DEF Typed

SeedItem(s) == Item(s[1], Inferred, s[2], Unknown, 0)

LEMMA SeedItemType ==
  ASSUME NEW s \in Seeds
  PROVE  /\ SeedItem(s) \in Items /\ SeedItem(s).conf = Inferred /\ SeedItem(s).conf \in Weaker
         /\ SeedItem(s).at = s[1] /\ SeedItem(s).variant = 0 /\ s[1] \in Offsets
<1>1. s[1] \in Offsets /\ s[2] \in Reasons /\ s[1] \in 0 .. Size
  BY Constants DEF Seeds, Reasons, Offsets
<1>2. Inferred \in 1 .. 3 /\ Unknown \in Traces /\ 0 \in 0 .. 2
  BY DEF Inferred, Unknown, Traces
<1> QED
  BY <1>1, <1>2, ItemIs, WeakConf DEF SeedItem

LEMMA SeedEntryOk == ASSUME Typed, NEW s \in todo, SeedEntry(s) PROVE Typed' /\ Advance
<1>1. /\ phase = "seeding" /\ TakesQueue(Enqueue(TheQueue, SeedItem(s))) /\ todo' = todo \ {s}
      /\ phase' = (IF todo = {s} THEN "solve api" ELSE phase) /\ fresh' = 0
  BY DEF SeedEntry, SeedItem
<1>2. /\ UNCHANGED <<case, cursor, requests, labels, violations, failures>>
      /\ UNCHANGED <<replay, indexed, passes, starts, bytes, accepted>>
  BY DEF SeedEntry, mapVars, factVars
<1>3. s \in Seeds /\ QueueInv(TheQueue)
  BY <1>1 DEF Typed, LoopsOk, QueueOk
<1>4. Grown(TheQueue, Enqueue(TheQueue, SeedItem(s)))
  BY <1>3, SeedItemType, EnqueueGrows
<1>5. Grown(TheQueue, QueueAfter)
  BY <1>1, <1>4, Taken
<1>6. QueueOk'
  BY <1>2, <1>5, QueueOkAfter DEF Typed
<1>7. MapOk' /\ FactsOk'
  BY <1>2 DEF Typed, MapOk, FactsOk
<1>8. phase' \in {"seeding", "solve api"}
  BY <1>1
<1>9. LoopsOk'
  BY <1>1, <1>2, <1>8 DEF Typed, LoopsOk, Phases
<1>10. FreshOk'
  <2>1. Cardinality(starts') \in Nat
    BY <1>7, StartsAreFew DEF MapOk
  <2>2. 0 \in 0 .. Size /\ 0 <= Cardinality(starts')
    BY <2>1, Constants
  <2>3. fresh' = 0
    BY <1>1
  <2> QED
    BY <2>2, <2>3 DEF FreshOk
<1>11. PassesOk'
  BY <1>1, <1>2, <1>8 DEF Typed, PassesOk
<1>12. StageOk'
  BY <1>1, <1>2, <1>8 DEF Typed, StageOk, Solving
<1>13. Advance
  BY <1>2, <1>5, StillAdvance
<1> QED
  BY <1>6, <1>7, <1>9, <1>10, <1>11, <1>12, <1>13 DEF Typed

EntryItem(e) == Item(e, Required, "entry", Unknown, 0)

LEMMA SeedRequiredOk ==
  ASSUME Typed, NEW e \in todo, SeedRequired(e)
  PROVE  /\ Typed' /\ e \in origins' /\ origins \subseteq origins'
         /\ e \in Offsets => HasRequired(QueueAfter, e)
         /\ \A o : HasRequired(TheQueue, o) => HasRequired(QueueAfter, o)
<1> DEFINE q == Enqueue(TheQueue, EntryItem(e))
<1>1. phase = "entries" /\ TakesQueue(q) /\ todo' = todo \ {e}
  BY DEF SeedRequired, EntryItem
<1>2. /\ UNCHANGED <<case, phase, cursor, requests, labels, violations, failures>>
      /\ UNCHANGED <<replay, indexed, fresh, passes, starts, bytes, accepted>>
  BY DEF SeedRequired, mapVars, factVars
<1>3. /\ QueueInv(TheQueue) /\ cursor = 0 /\ starts = {} /\ \A k \in DOMAIN TheQueue.items : TheQueue.items[k].conf = Required
      /\ todo \subseteq case.entries
  BY <1>1 DEF Typed, QueueOk, StageOk, TheQueue, LoopsOk
<1>4. /\ EntryItem(e) \in Items /\ EntryItem(e).conf = Required /\ EntryItem(e).variant = 0 /\ EntryItem(e).at = e
      /\ EntryItem(e).reason # "fallthrough"
  <2>1. e \in 0 .. Size /\ "entry" \in Reasons /\ Required \in 1 .. 3 /\ Unknown \in Traces /\ 0 \in 0 .. 2
    BY <1>3, CaseType DEF Typed, LoopsOk, Reasons, Required, Unknown, Traces
  <2>2. "entry" # "fallthrough"
    OBVIOUS
  <2> QED
    BY <2>1, <2>2, ItemIs DEF EntryItem
<1>5. QueueInv(q)
  BY <1>3, <1>4, EnqueueKeeps
<1>6. /\ e \in Offsets => HasRequired(q, e)
      /\ e \in q.origins /\ TheQueue.origins \subseteq q.origins
      /\ \A o : HasRequired(TheQueue, o) => HasRequired(q, o)
      /\ \A k \in DOMAIN q.items : q.items[k].conf = Required
  BY <1>3, <1>4, EnqueueAdds
<1> HIDE DEF q
<1>7. QueueAfter.items = q.items /\ QueueAfter.queued = q.queued /\ QueueAfter.origins = q.origins
      /\ items' = q.items /\ origins' = q.origins /\ QueueAfter.items = items' /\ TheQueue.origins = origins
  BY <1>1 DEF TakesQueue, QueueAfter, TheQueue
<1>8. QueueInv(QueueAfter)
  BY <1>5, <1>7, SameQueue
<1>9. QueueOk'
  <2>1. QueueAfter = TheQueue'
    BY DEF QueueAfter, TheQueue
  <2>2. Len(items') \in Nat
    BY <1>7, <1>8, QueueNumbers DEF QueueInv
  <2> QED
    BY <1>2, <1>3, <1>8, <2>1, <2>2 DEF QueueOk
<1>10. MapOk' /\ FactsOk'
  BY <1>2 DEF Typed, MapOk, FactsOk
<1>11. LoopsOk'
  BY <1>1, <1>2 DEF Typed, LoopsOk
<1>12. FreshOk' /\ PassesOk'
  BY <1>1, <1>2 DEF Typed, FreshOk, PassesOk, Solving
<1>13. StageOk'
  <2>1. \A k \in DOMAIN items' : items'[k].conf = Required
    BY <1>6, <1>7
  <2>2. phase' = "entries" /\ cursor' = 0 /\ starts' = {} /\ replay' = NoReplay
    BY <1>1, <1>2, <1>3 DEF Typed, StageOk, Solving
  <2> QED
    BY <2>1, <2>2 DEF StageOk, Solving
<1>14. (e \in Offsets => HasRequired(QueueAfter, e)) /\ \A o : HasRequired(TheQueue, o) => HasRequired(QueueAfter, o)
  BY <1>6, <1>7 DEF HasRequired
<1> QED
  BY <1>6, <1>7, <1>9, <1>10, <1>11, <1>12, <1>13, <1>14 DEF Typed

LEMMA PruneOk == ASSUME Typed, Prune PROVE Typed'
<1>1. /\ UNCHANGED <<case, items, queued, origins, cursor, requests, labels, violations, failures>>
      /\ UNCHANGED <<replay, todo, indexed, fresh, passes, accepted>>
      /\ phase = "prune" /\ phase' = "done" /\ starts' \subseteq starts /\ bytes' \subseteq bytes
  BY DEF Prune, queueVars, factVars
<1>2. QueueOk'
  BY <1>1, QueueAlone
<1>3. MapOk' /\ FactsOk'
  BY <1>1 DEF Typed, MapOk, FactsOk
<1>4. LoopsOk'
  BY <1>1 DEF Typed, LoopsOk, Phases
<1>5. FreshOk' /\ PassesOk' /\ StageOk'
  BY <1>1 DEF Typed, FreshOk, PassesOk, StageOk, Solving
<1> QED
  BY <1>2, <1>3, <1>4, <1>5 DEF Typed

LEMMA IdleOk == ASSUME Typed, UNCHANGED vars PROVE Typed' /\ Advance
<1>1. /\ UNCHANGED <<case, phase, items, queued, origins, cursor, requests, labels, violations, failures>>
      /\ UNCHANGED <<replay, todo, indexed, fresh, passes, starts, bytes, accepted>>
  BY DEF vars, queueVars, mapVars, factVars
<1>2. Grown(TheQueue, QueueAfter) /\ QueueOk'
  BY <1>1, QueueAlone
<1>3. MapOk' /\ FactsOk' /\ LoopsOk'
  BY <1>1 DEF Typed, MapOk, FactsOk, LoopsOk
<1>4. FreshOk' /\ PassesOk' /\ StageOk'
  BY <1>1 DEF Typed, FreshOk, PassesOk, StageOk, Solving
<1>5. Advance
  BY <1>1, <1>2, StillAdvance
<1> QED
  BY <1>2, <1>3, <1>4, <1>5 DEF Typed

-----------------------------------------------------------------------------
(* Theorems: types, the bound on the queue, progress                       *)

LEMMA PopIs ==
  ASSUME Pop
  PROVE  PopOutside \/ PopPlatformCall \/ PopUndecodable \/ PopAccepted \/ PopRejected \/ PopAccepting \/ PopContinuation
BY DEF Pop

LEMMA PopOk == ASSUME Typed, Pop PROVE Typed' /\ Advance /\ (fresh' = fresh \/ fresh' # 0)
<1>1. CASE PopOutside
  BY <1>1, PopOutsideOk DEF PopOutside
<1>2. CASE PopPlatformCall
  BY <1>2, PopPlatformCallOk DEF PopPlatformCall
<1>3. CASE PopUndecodable
  BY <1>3, PopUndecodableOk DEF PopUndecodable
<1>4. CASE PopAccepted
  BY <1>4, PopAcceptedOk DEF PopAccepted
<1>5. CASE PopRejected
  BY <1>5, PopRejectedOk DEF PopRejected
<1>6. CASE PopAccepting
  BY <1>6, PopAcceptingOk
<1>7. CASE PopContinuation
  BY <1>7, PopContinuationOk DEF PopContinuation
<1> QED
  BY <1>1, <1>2, <1>3, <1>4, <1>5, <1>6, <1>7, PopIs

LEMMA NextOk ==
  ASSUME Typed, [Next]_vars
  PROVE  Typed' /\ (Advance \/ (\E e \in todo : SeedRequired(e)) \/ Prune)
<1>1. CASE \E e \in todo : SeedRequired(e)
  BY <1>1, SeedRequiredOk
<1>2. CASE Seeded
  BY <1>2, SeededOk
<1>3. CASE Pop
  BY <1>3, PopOk
<1>4. CASE ReplayStep
  BY <1>4, ReplayStepOk
<1>5. CASE Solved
  BY <1>5, SolvedOk
<1>6. CASE \E o \in todo : DemoteLabel(o)
  BY <1>6, DemoteLabelOk
<1>7. CASE LabelsDemoted \/ RelocationsDemoted
  BY <1>7, DemotedAllOk
<1>8. CASE \E at \in todo : DemoteRelocation(at)
  BY <1>8, DemoteRelocationOk
<1>9. CASE Rebuild
  BY <1>9, RebuildOk
<1>10. CASE SeedEntries
  BY <1>10, SeedEntriesOk
<1>11. CASE \E s \in todo : SeedEntry(s)
  BY <1>11, SeedEntryOk
<1>12. CASE Prune
  BY <1>12, PruneOk
<1>13. CASE Finished
  <2>1. UNCHANGED vars
    BY <1>13 DEF Finished
  <2> QED
    BY <2>1, IdleOk
<1>14. CASE UNCHANGED vars
  BY <1>14, IdleOk
<1> QED
  BY <1>1, <1>2, <1>3, <1>4, <1>5, <1>6, <1>7, <1>8, <1>9, <1>10, <1>11, <1>12, <1>13, <1>14 DEF Next

LEMMA AlwaysTyped == Spec => []Typed
<1>1. Typed /\ [Next]_vars => Typed'
  BY NextOk
<1> QED
  BY <1>1, InitTyped, PTL DEF Spec

\* Every variable keeps its type through every step: the items and facts stay
\* inside the section, the loops visit what they should, the counters their bounds.
THEOREM AnalysisTyped == Spec => []TypeOK
BY AlwaysTyped, TypedIsTypeOK, PTL

LEMMA FewOfEach ==
  ASSUME NEW q, QueueInv(q), NEW o \in Offsets, NEW c \in 1 .. Required
  PROVE  Cardinality({k \in DOMAIN q.items : q.items[k].at = o /\ q.items[k].conf = c}) <= VariantLimit + 1
<1> DEFINE K == {k \in DOMAIN q.items : q.items[k].at = o /\ q.items[k].conf = c}
           T == Traced(q, o, c)
<1>1. IsFiniteSet(T) /\ Cardinality(T) \in Nat /\ Cardinality(T) <= VariantLimit
  BY TracedType DEF QueueInv, TracedAreFew
<1>2. CASE K = T
  BY <1>1, <1>2, Constants
<1>3. CASE K # T
  <2>1. PICK k \in K : q.items[k].variant = 0
    BY <1>3, ItemType DEF Traced
  <2>2. \A j \in K : q.items[j].variant = 0 => j = k
    BY <2>1 DEF QueueInv, PlainOnce
  <2>3. K = T \cup {k}
    BY <2>1, <2>2 DEF Traced
  <2>4. k \notin T
    BY <2>1 DEF Traced
  <2> HIDE DEF K, T
  <2>5. Cardinality(K) = Cardinality(T) + 1
    BY <1>1, <2>3, <2>4, FS_AddElement
  <2>6. Cardinality(K) <= VariantLimit + 1
    BY <1>1, <2>5, Constants
  <2> QED
    BY <2>6 DEF K
<1> QED
  BY <1>2, <1>3

\* The states traced into one start never flood the queue: work_queue_push
\* keeps one plain item of each confidence and few variants, whatever the flow
\* of the code pushes.
THEOREM QueueStaysBounded == Spec => []QueueIsBounded
<1>1. Typed => QueueIsBounded
  <2> SUFFICES ASSUME Typed, NEW o \in Offsets, NEW c \in 1 .. Required
               PROVE  Cardinality({k \in DOMAIN items : items[k].at = o /\ items[k].conf = c}) <= VariantLimit + 1
    BY DEF QueueIsBounded
  <2>1. QueueInv(TheQueue) /\ TheQueue.items = items
    BY DEF Typed, QueueOk, TheQueue
  <2> QED
    BY <2>1, FewOfEach
<1> QED
  BY <1>1, AlwaysTyped, PTL

Advances ==
  \/ passes' > passes
  \/ /\ passes' = passes
     /\ \/ PhaseOrder[phase'] > PhaseOrder[phase]
        \/ /\ phase' = phase
           /\ \/ cursor' > cursor
              \/ cursor' = cursor /\ Left(replay') < Left(replay)
              \/ cursor' = cursor /\ replay' = replay /\ todo' \subseteq todo /\ todo' # todo

LEMMA PhaseOrders ==
  /\ PhaseOrder["entries"] = 0 /\ PhaseOrder["solve"] = 1 /\ PhaseOrder["labels"] = 2
  /\ PhaseOrder["relocations"] = 3 /\ PhaseOrder["rebuild"] = 4 /\ PhaseOrder["seed"] = 5
  /\ PhaseOrder["seeding"] = 6 /\ PhaseOrder["solve api"] = 7 /\ PhaseOrder["rebuild api"] = 8
  /\ PhaseOrder["prune"] = 9 /\ PhaseOrder["done"] = 10 /\ PhaseOrder["failed"] = 10
BY DEF PhaseOrder, Phases

\* The phases the workflow goes on to from each phase.
LEMMA PhasesInOrder ==
  /\ PhaseOrder["solve"] > PhaseOrder["entries"]
  /\ PhaseOrder["labels"] > PhaseOrder["solve"]
  /\ PhaseOrder["relocations"] > PhaseOrder["labels"]
  /\ PhaseOrder["rebuild"] > PhaseOrder["relocations"]
  /\ PhaseOrder["seed"] > PhaseOrder["rebuild"]
  /\ PhaseOrder["seeding"] > PhaseOrder["seed"]
  /\ PhaseOrder["solve api"] > PhaseOrder["seeding"]
  /\ PhaseOrder["rebuild api"] > PhaseOrder["solve api"]
  /\ PhaseOrder["prune"] > PhaseOrder["seed"]
  /\ PhaseOrder["done"] > PhaseOrder["prune"]
  /\ PhaseOrder["failed"] > PhaseOrder["rebuild"]
  /\ PhaseOrder["failed"] > PhaseOrder["rebuild api"]
<1>1. PhaseOrder["solve"] > PhaseOrder["entries"]
  <2>1. PhaseOrder["entries"] = 0 /\ PhaseOrder["solve"] = 1
    BY PhaseOrders
  <2> QED
    BY <2>1
<1>2. PhaseOrder["labels"] > PhaseOrder["solve"]
  <2>1. PhaseOrder["solve"] = 1 /\ PhaseOrder["labels"] = 2
    BY PhaseOrders
  <2> QED
    BY <2>1
<1>3. PhaseOrder["relocations"] > PhaseOrder["labels"]
  <2>1. PhaseOrder["labels"] = 2 /\ PhaseOrder["relocations"] = 3
    BY PhaseOrders
  <2> QED
    BY <2>1
<1>4. PhaseOrder["rebuild"] > PhaseOrder["relocations"]
  <2>1. PhaseOrder["relocations"] = 3 /\ PhaseOrder["rebuild"] = 4
    BY PhaseOrders
  <2> QED
    BY <2>1
<1>5. PhaseOrder["seed"] > PhaseOrder["rebuild"]
  <2>1. PhaseOrder["rebuild"] = 4 /\ PhaseOrder["seed"] = 5
    BY PhaseOrders
  <2> QED
    BY <2>1
<1>6. PhaseOrder["seeding"] > PhaseOrder["seed"]
  <2>1. PhaseOrder["seed"] = 5 /\ PhaseOrder["seeding"] = 6
    BY PhaseOrders
  <2> QED
    BY <2>1
<1>7. PhaseOrder["solve api"] > PhaseOrder["seeding"]
  <2>1. PhaseOrder["seeding"] = 6 /\ PhaseOrder["solve api"] = 7
    BY PhaseOrders
  <2>2. 7 > 6
    OBVIOUS
  <2> QED
    BY <2>1, <2>2, Zenon
<1>8. PhaseOrder["rebuild api"] > PhaseOrder["solve api"]
  <2>1. PhaseOrder["solve api"] = 7 /\ PhaseOrder["rebuild api"] = 8
    BY PhaseOrders
  <2>2. 8 > 7
    OBVIOUS
  <2> QED
    BY <2>1, <2>2, Zenon
<1>9. PhaseOrder["prune"] > PhaseOrder["seed"]
  <2>1. PhaseOrder["seed"] = 5 /\ PhaseOrder["prune"] = 9
    BY PhaseOrders
  <2> QED
    BY <2>1
<1>10. PhaseOrder["done"] > PhaseOrder["prune"]
  <2>1. PhaseOrder["prune"] = 9 /\ PhaseOrder["done"] = 10
    BY PhaseOrders
  <2> QED
    BY <2>1
<1>11. PhaseOrder["failed"] > PhaseOrder["rebuild"]
  <2>1. PhaseOrder["rebuild"] = 4 /\ PhaseOrder["failed"] = 10
    BY PhaseOrders
  <2> QED
    BY <2>1
<1>12. PhaseOrder["failed"] > PhaseOrder["rebuild api"]
  <2>1. PhaseOrder["rebuild api"] = 8 /\ PhaseOrder["failed"] = 10
    BY PhaseOrders
  <2>2. 10 > 8
    OBVIOUS
  <2> QED
    BY <2>1, <2>2, Zenon
<1> QED
  BY <1>1, <1>2, <1>3, <1>4, <1>5, <1>6, <1>7, <1>8, <1>9, <1>10, <1>11, <1>12

LEMMA PhaseAdvances == ASSUME UNCHANGED passes, PhaseOrder[phase'] > PhaseOrder[phase] PROVE Advances
BY DEF Advances

LEMMA LoopAdvances ==
  ASSUME NEW e, e \in todo, todo' = todo \ {e}, UNCHANGED <<passes, phase, cursor, replay>>
  PROVE  Advances
BY DEF Advances

LEMMA PopAdvances ==
  ASSUME Typed, cursor' = cursor + 1, UNCHANGED <<passes, phase>>
  PROVE  Advances
<1>1. cursor \in Nat
  BY DEF Typed, QueueOk
<1> QED
  BY <1>1 DEF Advances

LEMMA WalkAdvances == ASSUME Typed, ReplayStep PROVE Advances
<1>1. replay # NoReplay /\ UNCHANGED <<passes, phase, cursor>>
  BY DEF ReplayStep
<1>2. \/ replay' = NoReplay
      \/ /\ replay.left # 0
         /\ \E n, t : replay' = [at |-> n, trace |-> t, left |-> replay.left - 1]
  BY DEF ReplayStep
<1>3. replay.left \in Nat
  BY Constants DEF Typed, LoopsOk
<1>4. Left(replay) = replay.left + 1
  BY <1>1 DEF Left
<1>5. Left(replay') < Left(replay)
  <2>1. CASE replay' = NoReplay
    <3>1. Left(replay') = 0
      BY <2>1 DEF Left
    <3> QED
      BY <1>3, <1>4, <3>1
  <2>2. CASE replay.left # 0 /\ \E n, t : replay' = [at |-> n, trace |-> t, left |-> replay.left - 1]
    <3>1. replay'.left = replay.left - 1
      BY <2>2
    <3>2. Left(replay') \in {0, replay.left}
      BY <1>3, <2>2, <3>1 DEF Left
    <3> QED
      BY <1>3, <1>4, <3>2
  <2> QED
    BY <1>2, <2>1, <2>2
<1> QED
  BY <1>1, <1>5 DEF Advances

LEMMA StepAdvances == ASSUME Typed, Next PROVE Advances \/ UNCHANGED vars
<1>1. CASE \E e \in todo : SeedRequired(e)
  <2>1. PICK e \in todo : SeedRequired(e)
    BY <1>1
  <2> QED
    BY <2>1, LoopAdvances DEF SeedRequired
<1>2. CASE Seeded
  BY <1>2, PhasesInOrder, PhaseAdvances DEF Seeded
<1>3. CASE Pop
  <2>1. cursor' = cursor + 1 /\ passes' = passes /\ phase' = phase
    BY <1>3 DEF Pop, PopOutside, PopPlatformCall, PopUndecodable, PopAccepted, PopRejected, PopAccepting,
                PopContinuation
  <2> QED
    BY <2>1, PopAdvances
<1>4. CASE ReplayStep
  BY <1>4, WalkAdvances
<1>5. CASE Solved
  <2>1. /\ phase \in {"solve", "solve api"} /\ passes' = passes
        /\ phase' = IF phase = "solve" THEN "labels" ELSE "rebuild api"
    BY <1>5 DEF Solved, Solving
  <2> QED
    BY <2>1, PhasesInOrder, PhaseAdvances
<1>6. CASE \E o \in todo : DemoteLabel(o)
  <2>1. PICK e \in todo : DemoteLabel(e)
    BY <1>6
  <2>2. todo' = todo \ {e} /\ UNCHANGED <<passes, phase, cursor, replay>>
    BY <2>1 DEF DemoteLabel, queueVars
  <2> QED
    BY <2>2, LoopAdvances
<1>7. CASE LabelsDemoted \/ RelocationsDemoted
  BY <1>7, PhasesInOrder, PhaseAdvances DEF LabelsDemoted, RelocationsDemoted
<1>8. CASE \E at \in todo : DemoteRelocation(at)
  <2>1. PICK e \in todo : DemoteRelocation(e)
    BY <1>8
  <2>2. todo' = todo \ {e} /\ UNCHANGED <<passes, phase, cursor, replay>>
    BY <2>1 DEF DemoteRelocation, queueVars
  <2> QED
    BY <2>2, LoopAdvances
<1>9. CASE Rebuild
  <2>1. phase \in {"rebuild", "rebuild api"}
    BY <1>9 DEF Rebuild
  <2>2. \/ phase' = "failed" /\ passes' = passes
        \/ phase = "rebuild" /\ phase' = "seed" /\ passes' = passes
        \/ passes' = passes + 1
    BY <1>9 DEF Rebuild
  <2>3. passes' = passes + 1 => Advances
    <3>1. passes \in Nat
      BY DEF Typed, PassesOk
    <3>2. passes' = passes + 1 => passes' > passes
      BY <3>1
    <3> QED
      BY <3>2 DEF Advances
  <2> QED
    BY <2>1, <2>2, <2>3, PhasesInOrder, PhaseAdvances
<1>10. CASE SeedEntries
  <2>1. phase = "seed" /\ phase' \in {"prune", "seeding"} /\ passes' = passes
    BY <1>10 DEF SeedEntries
  <2> QED
    BY <2>1, PhasesInOrder, PhaseAdvances
<1>11. CASE \E s \in todo : SeedEntry(s)
  <2>1. PICK s \in todo : SeedEntry(s)
    BY <1>11
  <2>2. phase = "seeding" /\ phase' \in {"seeding", "solve api"} /\ todo' = todo \ {s} /\ UNCHANGED <<passes, cursor, replay>>
    BY <2>1 DEF SeedEntry
  <2>3. CASE phase' = "seeding"
    BY <2>1, <2>2, <2>3, LoopAdvances
  <2>4. CASE phase' = "solve api"
    BY <2>2, <2>4, PhasesInOrder, PhaseAdvances
  <2> QED
    BY <2>2, <2>3, <2>4
<1>12. CASE Prune
  BY <1>12, PhasesInOrder, PhaseAdvances DEF Prune
<1>13. CASE Finished
  BY <1>13 DEF Finished
<1> QED
  BY <1>1, <1>2, <1>3, <1>4, <1>5, <1>6, <1>7, <1>8, <1>9, <1>10, <1>11, <1>12, <1>13 DEF Next

\* Every step brings the end nearer, on every object: no loop of the workflow
\* goes round without taking an item, an entry or a pass that does not come back.
THEOREM AnalysisAdvances == Spec => EveryStepAdvances
<1>1. (Typed /\ [Next]_vars) => [Advances]_vars
  BY StepAdvances
<1> QED
  BY <1>1, AlwaysTyped, PTL DEF Spec, EveryStepAdvances, Advances

-----------------------------------------------------------------------------
(* The fixed point and the entries                                         *)

PoppedSettled == \A k \in 1 .. cursor : Decodes(items[k].at) => Settled(items[k].at)
PoppedHonoured ==
  \A k \in 1 .. cursor : items[k].at \in Offsets /\ items[k].conf = Required => Honoured(items[k].at)
StartsPopped == \A s \in starts : Decodes(s) => \E k \in 1 .. cursor : items[k].at = s
Continued ==
  \A s \in starts : Decodes(s) =>
    \A t \in Continuations(s) : Decodes(t) => Settled(t) \/ <<s, t>> \in violations \/ HasItem(TheQueue, t)
Answered == PoppedSettled /\ PoppedHonoured /\ StartsPopped /\ Continued

LEMMA SettledStays ==
  ASSUME Typed, Advance, NEW t \in Offsets, Settled(t)
  PROVE  Settled(t)'
<1>1. /\ violations \subseteq violations'
      /\ \A u \in starts \ starts' : Named(u)' \/ (Decodes(u) /\ accepted[u].conf \in Weaker)
      /\ \A u \in Offsets : accepted'[u] = accepted[u] \/ (u \in starts' /\ (u \in starts => ~Decodes(u)))
  BY DEF Advance
<1>2. Named(t) => Named(t)'
  BY <1>1 DEF Named
<1>3. t \in starts' => Settled(t)'
  BY DEF Settled
<1>4. t \notin starts' /\ accepted'[t].conf \in Weaker => Settled(t)'
  BY DEF Settled, Evicted, Weaker
<1>5. CASE Named(t)
  BY <1>2, <1>5 DEF Settled
<1>6. CASE t \in starts
  BY <1>1, <1>3, <1>4, <1>6 DEF Settled
<1>7. CASE t \in Evicted
  <2>1. accepted[t].conf \in Weaker
    BY <1>7 DEF Evicted, Weaker
  <2> QED
    BY <1>1, <1>3, <1>4, <2>1
<1> QED
  BY <1>5, <1>6, <1>7 DEF Settled

LEMMA HonouredStays ==
  ASSUME Typed, Advance, NEW e \in Offsets, Honoured(e)
  PROVE  Honoured(e)'
<1>1. /\ violations \subseteq violations' /\ failures \subseteq failures' /\ case' = case
      /\ \A u \in starts \ starts' : Named(u)' \/ (Decodes(u) /\ accepted[u].conf \in Weaker)
      /\ \A u \in Offsets : accepted'[u] = accepted[u] \/ (u \in starts' /\ (u \in starts => ~Decodes(u)))
  BY DEF Advance
<1>2. Decodes(e)' <=> Decodes(e)
  BY <1>1, CaseStays
<1>3. CASE e \in failures
  BY <1>1, <1>3 DEF Honoured
<1>4. CASE Named(e)
  <2>1. Named(e)'
    BY <1>1, <1>4 DEF Named
  <2> QED
    BY <2>1 DEF Honoured
<1>5. CASE e \in starts /\ (Decodes(e) => accepted[e].conf = Required)
  <2>1. CASE e \in starts'
    <3>1. Decodes(e) => accepted'[e].conf = Required
      BY <1>1, <1>5
    <3> QED
      BY <1>2, <2>1, <3>1 DEF Honoured
  <2>2. CASE e \notin starts'
    <3>1. Named(e)'
      BY <1>1, <1>5, <2>2, WeakConf
    <3> QED
      BY <3>1 DEF Honoured
  <2> QED
    BY <2>1, <2>2
<1> QED
  BY <1>3, <1>4, <1>5 DEF Honoured

\* The items keep their places.
LEMMA ItemsStay ==
  ASSUME Typed, Grown(TheQueue, QueueAfter)
  PROVE  /\ Len(items) \in Nat /\ Len(items') \in Nat /\ Len(items) <= Len(items') /\ cursor \in 0 .. Len(items)
         /\ \A k \in 1 .. Len(items) : items'[k] = items[k]
         /\ \A k \in 1 .. cursor : items'[k] = items[k]
         /\ \A k \in 1 .. Len(items) : items[k] \in Items
         /\ TheQueue.items = items /\ QueueAfter.items = items' /\ DOMAIN items = 1 .. Len(items)
         /\ origins \subseteq origins'
<1>1. TheQueue.items = items /\ QueueAfter.items = items' /\ TheQueue.origins = origins /\ QueueAfter.origins = origins'
  BY DEF TheQueue, QueueAfter
<1>2. QueueTyped(TheQueue) /\ QueueTyped(QueueAfter) /\ Later(TheQueue, QueueAfter)
  BY DEF Grown, QueueInv
<1>3. Len(items) \in Nat /\ Len(items') \in Nat /\ DOMAIN items = 1 .. Len(items)
  BY <1>1, <1>2, QueueNumbers
<1>4. Len(items) <= Len(items') /\ (\A k \in 1 .. Len(items) : items'[k] = items[k]) /\ origins \subseteq origins'
  BY <1>1, <1>2 DEF Later
<1>5. \A k \in 1 .. Len(items) : items[k] \in Items
  BY <1>1, <1>2, <1>3, QueueNumbers
<1>6. cursor \in 0 .. Len(items)
  BY DEF Typed, QueueOk
<1>7. \A k \in 1 .. cursor : items'[k] = items[k]
  BY <1>3, <1>4, <1>6
<1> QED
  BY <1>1, <1>3, <1>4, <1>5, <1>6, <1>7

\* A required start is popped before anything else has made it code.
LEMMA RequiredIsFirst ==
  ASSUME Typed, StartsPopped, cursor < Len(items), NEW o \in Offsets, o = items[cursor + 1].at,
         items[cursor + 1].conf = Required, o \in starts, Decodes(o)
  PROVE  FALSE
<1>1. QueueInv(TheQueue) /\ TheQueue.items = items
  BY DEF Typed, QueueOk, TheQueue
<1>2. Len(items) \in Nat /\ DOMAIN items = 1 .. Len(items) /\ cursor \in 0 .. Len(items)
  BY <1>1, QueueNumbers DEF QueueInv, Typed, QueueOk
<1>3. PICK k \in 1 .. cursor : items[k].at = o
  BY DEF StartsPopped
<1>4. k \in DOMAIN items /\ cursor + 1 \in DOMAIN items /\ k < cursor + 1 /\ k # cursor + 1
  BY <1>2
<1>5. items[k].conf = Required
  BY <1>1, <1>4 DEF QueueInv, RequiredFirst
<1>6. items[k].variant = 0 /\ items[cursor + 1].variant = 0
  BY <1>1, <1>4, <1>5 DEF QueueInv, RequiredArePlain
<1>7. k = cursor + 1
  BY <1>1, <1>3, <1>4, <1>5, <1>6 DEF QueueInv, PlainOnce
<1> QED
  BY <1>4, <1>7

LEMMA AdvanceKeeps ==
  ASSUME Typed, Advance, Answered
  PROVE  Answered'
<1>1. /\ case' = case /\ Grown(TheQueue, QueueAfter)
      /\ violations \subseteq violations'
      /\ \A s \in starts' \ starts : Decodes(s) =>
           \A t \in Continuations(s) : Decodes(t) => t \in starts' \/ HasItem(QueueAfter, t) \/ <<s, t>> \in violations'
  BY DEF Advance
<1>2. /\ Len(items) \in Nat /\ Len(items') \in Nat /\ Len(items) <= Len(items') /\ cursor \in 0 .. Len(items)
      /\ \A k \in 1 .. Len(items) : items'[k] = items[k]
      /\ \A k \in 1 .. cursor : items'[k] = items[k]
  BY <1>1, ItemsStay
<1>3. \/ cursor' = cursor /\ starts' \subseteq starts
      \/ /\ cursor' = cursor + 1 /\ cursor < Len(items)
         /\ \A o : o = items[cursor + 1].at =>
              /\ starts' \subseteq starts \cup {o}
              /\ Decodes(o) => o \in starts' \/ Named(o)'
              /\ items[cursor + 1].conf = Required /\ o \in Offsets => Honoured(o)' \/ (o \in starts /\ Decodes(o))
  BY DEF Advance
<1>4. \A o : (Decodes(o)' <=> Decodes(o)) /\ Continuations(o)' = Continuations(o)
  BY <1>1, CaseStays
<1>5. \A k \in 1 .. cursor' : k \in 1 .. cursor \/ (k = cursor + 1 /\ cursor' = cursor + 1)
  BY <1>2, <1>3
<1>6. cursor' = cursor + 1 => items'[cursor + 1] = items[cursor + 1]
  <2>1. cursor' = cursor + 1 => cursor + 1 \in 1 .. Len(items)
    BY <1>2, <1>3
  <2> QED
    BY <1>2, <2>1
<1>7. \A k \in 1 .. cursor' : items'[k] = items[k]
  BY <1>2, <1>5, <1>6
<1>8. PoppedSettled'
  <2> SUFFICES ASSUME NEW k \in 1 .. cursor', NEW o, o = items[k].at, Decodes(o) PROVE Settled(o)'
    BY <1>4, <1>7 DEF PoppedSettled
  <2>1. o \in Offsets
    BY DecodesIs
  <2>2. CASE k \in 1 .. cursor
    BY <2>1, <2>2, SettledStays DEF Answered, PoppedSettled
  <2>3. CASE k = cursor + 1 /\ cursor' = cursor + 1
    <3>1. o \in starts' \/ Named(o)'
      BY <1>2, <1>3, <2>3
    <3> QED
      BY <3>1 DEF Settled
  <2> QED
    BY <1>5, <2>2, <2>3
<1>9. PoppedHonoured'
  <2> SUFFICES ASSUME NEW k \in 1 .. cursor', NEW o \in Offsets, o = items[k].at, items[k].conf = Required
               PROVE  Honoured(o)'
    BY <1>7 DEF PoppedHonoured
  <2>1. CASE k \in 1 .. cursor
    BY <2>1, HonouredStays DEF Answered, PoppedHonoured
  <2>2. CASE k = cursor + 1 /\ cursor' = cursor + 1
    <3>1. cursor < Len(items) /\ (Honoured(o)' \/ (o \in starts /\ Decodes(o)))
      BY <1>2, <1>3, <2>2
    <3> QED
      BY <2>2, <3>1, RequiredIsFirst DEF Answered
  <2> QED
    BY <1>5, <2>1, <2>2
<1>10. StartsPopped'
  <2> SUFFICES ASSUME NEW s \in starts', Decodes(s) PROVE \E k \in 1 .. cursor' : items'[k].at = s
    BY <1>4 DEF StartsPopped
  <2>1. CASE s \in starts
    <3>1. PICK k \in 1 .. cursor : items[k].at = s
      BY <2>1 DEF Answered, StartsPopped
    <3>2. k \in 1 .. cursor'
      BY <1>2, <1>3
    <3> QED
      BY <1>7, <3>1, <3>2
  <2>2. CASE s \notin starts
    <3>1. cursor' = cursor + 1 /\ s = items[cursor + 1].at
      BY <1>3, <2>2
    <3>2. cursor + 1 \in 1 .. cursor'
      BY <1>2, <3>1
    <3> QED
      BY <1>6, <3>1, <3>2
  <2> QED
    BY <2>1, <2>2
<1>11. Continued'
  <2>0. TheQueue' = QueueAfter
    BY DEF TheQueue, QueueAfter
  <2> SUFFICES ASSUME NEW s \in starts', Decodes(s), NEW t \in Continuations(s), Decodes(t)
               PROVE  Settled(t)' \/ <<s, t>> \in violations' \/ HasItem(QueueAfter, t)
    BY <1>4, <2>0 DEF Continued
  <2>1. t \in Offsets
    BY DecodesIs
  <2>2. CASE s \in starts
    <3>1. Settled(t) \/ <<s, t>> \in violations \/ HasItem(TheQueue, t)
      BY <2>2 DEF Answered, Continued
    <3>2. HasItem(TheQueue, t) => HasItem(QueueAfter, t)
      BY <1>1, GrownHas
    <3> QED
      BY <1>1, <2>1, <3>1, <3>2, SettledStays
  <2>3. CASE s \notin starts
    <3>1. t \in starts' \/ HasItem(QueueAfter, t) \/ <<s, t>> \in violations'
      BY <1>1, <2>3
    <3> QED
      BY <3>1 DEF Settled
  <2> QED
    BY <2>2, <2>3
<1> QED
  BY <1>8, <1>9, <1>10, <1>11 DEF Answered

\* Which steps there are in the phases at either end, and which lead there.
LEMMA EndPhases ==
  ASSUME Typed, [Next]_vars
  PROVE  /\ phase' = "done" => Prune \/ UNCHANGED vars
         /\ phase = "done" => UNCHANGED vars
         /\ phase = "entries" => (\E e \in todo : SeedRequired(e)) \/ Seeded \/ UNCHANGED vars
<1> DEFINE P == /\ phase' = "done" => Prune \/ UNCHANGED vars
                /\ phase = "done" => UNCHANGED vars
                /\ phase = "entries" => (\E e \in todo : SeedRequired(e)) \/ Seeded \/ UNCHANGED vars
<1>1. CASE \E e \in todo : SeedRequired(e)
  BY <1>1 DEF SeedRequired
<1>2. CASE Seeded
  BY <1>2 DEF Seeded
<1>3. CASE Pop
  <2>1. phase' = phase /\ Solving
    BY <1>3 DEF Pop, PopOutside, PopPlatformCall, PopUndecodable, PopAccepted, PopRejected, PopAccepting,
                PopContinuation, Pops
  <2> QED
    BY <2>1 DEF Solving
<1>4. CASE ReplayStep
  BY <1>4 DEF ReplayStep, Solving
<1>5. CASE Solved
  BY <1>5 DEF Solved, Solving
<1>6. CASE \E o \in todo : DemoteLabel(o)
  BY <1>6 DEF DemoteLabel
<1>7. CASE LabelsDemoted \/ RelocationsDemoted
  BY <1>7 DEF LabelsDemoted, RelocationsDemoted
<1>8. CASE \E at \in todo : DemoteRelocation(at)
  BY <1>8 DEF DemoteRelocation
<1>9. CASE Rebuild
  <2>1. phase \in {"rebuild", "rebuild api"} /\ phase' \in {"failed", "seed", "prune"}
    BY <1>9 DEF Rebuild
  <2> QED
    BY <2>1
<1>10. CASE SeedEntries
  BY <1>10 DEF SeedEntries
<1>11. CASE \E s \in todo : SeedEntry(s)
  BY <1>11 DEF SeedEntry
<1>12. CASE Prune
  BY <1>12 DEF Prune
<1>13. CASE Finished
  BY <1>13 DEF Finished
<1>14. CASE UNCHANGED vars
  <2>1. phase' = phase
    BY <1>14 DEF vars
  <2> QED
    BY <1>14, <2>1
<1> QED
  BY <1>1, <1>2, <1>3, <1>4, <1>5, <1>6, <1>7, <1>8, <1>9, <1>10, <1>11, <1>12, <1>13, <1>14 DEF Next

\* An entry waits to be queued, or is, as a required start.
EntriesQueued ==
  \A e \in case.entries :
    \/ phase = "entries" /\ e \in todo
    \/ e \in origins /\ (e \in Offsets => HasRequired(TheQueue, e))
AnswersInv == Typed /\ EntriesQueued /\ (phase # "done" => Answered) /\ EntriesAreAnswered

LEMMA InitAnswers == Init => AnswersInv
<1> SUFFICES ASSUME Init PROVE AnswersInv
  OBVIOUS
<1>1. phase = "entries" /\ todo = case.entries /\ cursor = 0 /\ starts = {}
  BY DEF Init
<1>2. Typed
  BY InitTyped
<1>3. EntriesQueued /\ EntriesAreAnswered
  BY <1>1 DEF EntriesQueued, EntriesAreAnswered
<1>4. Answered
  <2>1. \A k \in 1 .. cursor : FALSE
    BY <1>1
  <2> QED
    BY <1>1, <2>1 DEF Answered, PoppedSettled, PoppedHonoured, StartsPopped, Continued
<1> QED
  BY <1>2, <1>3, <1>4 DEF AnswersInv

LEMMA EntriesStayQueued ==
  ASSUME AnswersInv, [Next]_vars
  PROVE  EntriesQueued'
<1>1. Typed /\ EntriesQueued
  BY DEF AnswersInv
<1>2. TheQueue' = QueueAfter
  BY DEF TheQueue, QueueAfter
<1>3. CASE Advance
  <2>1. case' = case /\ Grown(TheQueue, QueueAfter)
    BY <1>3 DEF Advance
  <2>2. origins \subseteq origins' /\ \A e : HasRequired(TheQueue, e) => HasRequired(QueueAfter, e)
    BY <1>1, <2>1, ItemsStay, GrownHas
  <2> SUFFICES ASSUME NEW e \in case.entries
               PROVE  \/ phase' = "entries" /\ e \in todo'
                      \/ e \in origins' /\ (e \in Offsets => HasRequired(QueueAfter, e))
    BY <1>2, <2>1 DEF EntriesQueued
  <2>3. CASE e \in origins /\ (e \in Offsets => HasRequired(TheQueue, e))
    BY <2>2, <2>3
  <2>4. CASE phase = "entries" /\ e \in todo
    <3>1. CASE \E f \in todo : SeedRequired(f)
      <4>1. PICK f \in todo : SeedRequired(f)
        BY <3>1
      <4>2. todo' = todo \ {f} /\ phase' = phase
        BY <4>1 DEF SeedRequired
      <4>3. e = f => e \in origins' /\ (e \in Offsets => HasRequired(QueueAfter, e))
        BY <1>1, <4>1, SeedRequiredOk
      <4> QED
        BY <2>4, <4>2, <4>3
    <3>2. CASE Seeded
      BY <2>4, <3>2 DEF Seeded
    <3>3. CASE UNCHANGED vars
      BY <2>4, <3>3 DEF vars
    <3> QED
      BY <1>1, <2>4, <3>1, <3>2, <3>3, EndPhases
  <2> QED
    BY <1>1, <2>3, <2>4 DEF EntriesQueued
<1>4. CASE \E f \in todo : SeedRequired(f)
  <2>1. PICK f \in todo : SeedRequired(f)
    BY <1>4
  <2>2. /\ f \in origins' /\ origins \subseteq origins'
        /\ f \in Offsets => HasRequired(QueueAfter, f)
        /\ \A e : HasRequired(TheQueue, e) => HasRequired(QueueAfter, e)
    BY <1>1, <2>1, SeedRequiredOk
  <2>3. todo' = todo \ {f} /\ phase' = phase /\ case' = case
    BY <2>1 DEF SeedRequired
  <2> QED
    BY <1>1, <1>2, <2>2, <2>3 DEF EntriesQueued
<1>5. CASE Prune
  <2>1. UNCHANGED <<case, items, queued, origins>> /\ phase = "prune"
    BY <1>5 DEF Prune, queueVars
  <2>2. TheQueue' = TheQueue
    BY <2>1 DEF TheQueue
  <2> QED
    BY <1>1, <2>1, <2>2 DEF EntriesQueued
<1> QED
  BY <1>1, <1>3, <1>4, <1>5, NextOk

\* When the analysis prunes, the queue is empty: every entry was popped.
LEMMA PruneAnswers ==
  ASSUME AnswersInv, Prune
  PROVE  EntriesAreAnswered'
<1>1. /\ phase = "prune" /\ UNCHANGED <<case, violations, failures>>
      /\ starts' = starts \ (starts \ Reachable)
  BY DEF Prune, factVars
<1>2. Typed /\ EntriesQueued /\ Answered
  BY <1>1 DEF AnswersInv
<1>3. cursor = Len(items)
  BY <1>1, <1>2 DEF Typed, StageOk, Solving
<1> SUFFICES ASSUME NEW e \in case.entries \cap Offsets
             PROVE  e \in starts' \/ e \in failures' \/ \E v \in violations' : v[1] = e
  BY <1>1 DEF EntriesAreAnswered
<1>4. e \in origins /\ HasRequired(TheQueue, e)
  BY <1>1, <1>2 DEF EntriesQueued
<1>5. PICK k \in DOMAIN items : items[k].at = e /\ items[k].conf = Required
  BY <1>4 DEF HasRequired, TheQueue
<1>6. k \in 1 .. cursor
  <2>1. TheQueue.items = items /\ QueueTyped(TheQueue)
    BY <1>2 DEF Typed, QueueOk, QueueInv, TheQueue
  <2>2. DOMAIN items = 1 .. Len(items)
    BY <2>1, QueueNumbers
  <2> QED
    BY <1>3, <1>5, <2>2
<1>7. Honoured(e)
  BY <1>2, <1>5, <1>6 DEF Answered, PoppedHonoured
<1>8. e \in starts => e \in Reachable
  BY <1>4 DEF Reachable
<1> QED
  BY <1>1, <1>7, <1>8 DEF Honoured, Named

LEMMA NextAnswers == ASSUME AnswersInv, [Next]_vars PROVE AnswersInv'
<1>1. Typed /\ Typed' /\ (Advance \/ (\E e \in todo : SeedRequired(e)) \/ Prune)
  BY NextOk DEF AnswersInv
<1>2. EntriesQueued'
  BY EntriesStayQueued
<1>3. phase' # "done" => Answered'
  <2> SUFFICES ASSUME phase' # "done" PROVE Answered'
    OBVIOUS
  <2>1. phase # "done"
    <3>1. phase = "done" => phase' = phase
      BY <1>1, EndPhases DEF vars
    <3> QED
      BY <3>1
  <2>2. CASE Advance
    BY <1>1, <2>1, <2>2, AdvanceKeeps DEF AnswersInv
  <2>3. CASE \E e \in todo : SeedRequired(e)
    <3>1. phase' = "entries"
      BY <2>3 DEF SeedRequired
    <3>2. cursor' = 0 /\ starts' = {}
      BY <1>1, <3>1 DEF Typed, StageOk
    <3>3. \A k \in 1 .. cursor' : FALSE
      BY <3>2
    <3> QED
      BY <3>2, <3>3 DEF Answered, PoppedSettled, PoppedHonoured, StartsPopped, Continued
  <2>4. CASE Prune
    BY <2>4 DEF Prune
  <2> QED
    BY <1>1, <2>2, <2>3, <2>4
<1>4. EntriesAreAnswered'
  <2>1. CASE phase' # "done"
    BY <2>1 DEF EntriesAreAnswered
  <2>2. CASE Prune
    BY <2>2, PruneAnswers
  <2>3. CASE UNCHANGED vars
    BY <2>3 DEF AnswersInv, EntriesAreAnswered, vars, mapVars, factVars
  <2> QED
    BY <1>1, <2>1, <2>2, <2>3, EndPhases
<1> QED
  BY <1>1, <1>2, <1>3, <1>4 DEF AnswersInv

LEMMA AlwaysAnswers == Spec => []AnswersInv
<1>1. AnswersInv /\ [Next]_vars => AnswersInv'
  BY NextAnswers
<1> QED
  BY <1>1, InitAnswers, PTL DEF Spec

\* An entry of the object is code in the end, or the analysis has counted a
\* required start it cannot honour, or a violation names it: demotion, the
\* later passes and pruning lose none silently.
THEOREM EntriesAnswered == Spec => []EntriesAreAnswered
<1>1. AnswersInv => EntriesAreAnswered
  BY DEF AnswersInv
<1> QED
  BY <1>1, AlwaysAnswers, PTL

\* With the queue empty, whatever accepted code continues with is accepted, has
\* given way, or is named: no reachable instruction is forgotten.
THEOREM FixedPointClosed == Spec => []FixedPointIsClosed
<1>1. AnswersInv => FixedPointIsClosed
  <2> SUFFICES ASSUME AnswersInv, Solving, replay = NoReplay, cursor = Len(items),
                      NEW s \in DecodedStarts, NEW t \in Continuations(s), Decodes(t)
               PROVE  t \in starts \cup Evicted \/ \E v \in violations : v[1] = t \/ v = <<s, t>>
    BY DEF FixedPointIsClosed
  <2>1. Typed /\ Answered
    BY DEF AnswersInv, Solving
  <2>2. s \in starts /\ Decodes(s)
    BY DEF DecodedStarts
  <2>3. Settled(t) \/ <<s, t>> \in violations \/ HasItem(TheQueue, t)
    BY <2>1, <2>2 DEF Answered, Continued
  <2>4. HasItem(TheQueue, t) => Settled(t)
    <3>1. TheQueue.items = items /\ QueueTyped(TheQueue)
      BY <2>1 DEF Typed, QueueOk, QueueInv, TheQueue
    <3>2. DOMAIN items = 1 .. cursor
      BY <3>1, QueueNumbers
    <3> QED
      BY <2>1, <3>1, <3>2 DEF HasItem, Answered, PoppedSettled
  <2> QED
    BY <2>3, <2>4 DEF Settled, Named
<1> QED
  BY <1>1, AlwaysAnswers, PTL

-----------------------------------------------------------------------------
(* Conflicts with labels and relocations                                   *)

\* The instructions the demotions know alone at their bytes.
Alone == {s \in DecodedStarts : \A t \in indexed : ~Overlap(s, t)}
LabelClear(o) == \A s \in Alone : InteriorOf(o, starts, bytes) => o \notin Extent(s)
RelocationClear(at) == \A s \in Alone : Extent(s) \cap {at, at + 1} # {} => s < at /\ at + 2 <= End(s)

\* The requests and the relocations a loop has been over are in conflict with
\* no instruction any more, and the later demotions bring no conflict back.
Demoting == phase \in {"labels", "relocations", "rebuild"}
DemotionInv ==
  Demoting =>
    /\ DecodedStarts \subseteq indexed
    /\ \A o \in RequiredRequests : (phase = "labels" /\ o \in todo) \/ LabelClear(o)
    /\ phase # "labels" => \A r \in case.relocations : (phase = "relocations" /\ r.at \in todo) \/ RelocationClear(r.at)

\* What covers a byte of an instruction that is alone is that instruction.
LEMMA AloneCovers ==
  ASSUME Typed, NEW s \in Alone, s \in indexed, NEW o \in Extent(s)
  PROVE  s \in Covering(o)
<1>1. case \in Cases /\ indexed \subseteq Offsets /\ s \in starts /\ s \in Offsets
  BY DEF Typed, LoopsOk, Alone, DecodedStarts
<1>2. s \in Nat /\ End(s) \in Nat /\ o \in Nat /\ s <= o /\ o < End(s)
  <2>1. s \in Nat /\ End(s) \in Nat
    BY <1>1, CaseType, Constants
  <2> QED
    BY <2>1 DEF Extent
<1>3. ASSUME NEW t \in indexed, t <= o PROVE t <= s
  <2>1. t \in Nat /\ t \in Extent(t)
    BY <1>1, CaseType, Constants
  <2>2. CASE s < t
    <3>1. t \in Extent(s) /\ s # t
      BY <1>2, <1>3, <2>1, <2>2 DEF Extent
    <3>2. Overlap(s, t)
      BY <2>1, <3>1 DEF Overlap
    <3> QED
      BY <3>2 DEF Alone
  <2> QED
    BY <1>2, <2>1, <2>2
<1> QED
  BY <1>1, <1>2, <1>3 DEF Covering

LEMMA CaseStaysToo ==
  ASSUME case' = case
  PROVE  \A s, t : (Overlap(s, t)' <=> Overlap(s, t)) /\ End(s)' = End(s)
<1>1. \A s : Extent(s)' = Extent(s)
  BY CaseStays
<1>2. \A s : End(s)' = End(s)
  BY DEF End, At
<1>3. \A s, t : Overlap(s, t)' <=> Overlap(s, t)
  BY <1>1 DEF Overlap
<1> QED
  BY <1>2, <1>3

\* Taking instructions back brings no conflict back.
LEMMA StaysClear ==
  ASSUME Typed, NEW gone, gone \subseteq starts \cap indexed,
         starts' = starts \ gone, bytes' = bytes \ Extents(gone), UNCHANGED <<case, indexed>>
  PROVE  /\ Alone' = Alone \ gone /\ DecodedStarts' = DecodedStarts \ gone
         /\ \A o \in Offsets : InteriorOf(o, starts, bytes)' => InteriorOf(o, starts, bytes)
         /\ \A o \in Offsets : LabelClear(o) => LabelClear(o)'
         /\ \A at : RelocationClear(at) => RelocationClear(at)'
<1>1. /\ \A o : Extent(o)' = Extent(o) /\ \A s, t : (Overlap(s, t)' <=> Overlap(s, t)) /\ End(s)' = End(s)
      /\ DecodedStarts' = DecodedStarts \ gone
  BY CaseStays, CaseStaysToo DEF DecodedStarts
<1>2. Alone' = Alone \ gone
  BY <1>1 DEF Alone
<1>3. ASSUME NEW o \in Offsets, InteriorOf(o, starts, bytes)' PROVE InteriorOf(o, starts, bytes)
  <2>1. o \in bytes' /\ o \notin starts'
    BY <1>3 DEF InteriorOf
  <2>2. o \in bytes /\ o \notin Extents(gone)
    BY <2>1
  <2>3. o \in Extent(o)
    BY CaseType DEF Typed, LoopsOk
  <2>4. o \notin gone
    BY <2>2, <2>3 DEF Extents
  <2>5. o \notin starts
    BY <2>1, <2>4
  <2> QED
    BY <2>2, <2>5 DEF InteriorOf
<1>4. ASSUME NEW o \in Offsets, LabelClear(o) PROVE LabelClear(o)'
  BY <1>1, <1>2, <1>3, <1>4 DEF LabelClear
<1>5. ASSUME NEW at, RelocationClear(at) PROVE RelocationClear(at)'
  BY <1>1, <1>2, <1>5 DEF RelocationClear
<1> QED
  BY <1>1, <1>2, <1>3, <1>4, <1>5

LEMMA DemoteLabelClears ==
  ASSUME Typed, DemotionInv, NEW o \in todo, DemoteLabel(o)
  PROVE  DemotionInv'
<1> DEFINE gone == IF InteriorOf(o, starts, bytes) THEN {s \in Covering(o) : s < o} ELSE {}
<1>1. /\ phase = "labels" /\ phase' = phase /\ todo' = todo \ {o}
      /\ starts' = starts \ gone /\ bytes' = bytes \ Extents(gone)
      /\ UNCHANGED <<case, indexed, requests>>
  BY DEF DemoteLabel
<1>2. o \in Offsets /\ gone \subseteq starts \cap indexed /\ RequiredRequests \subseteq Offsets
  BY <1>1, CoveringAre DEF Typed, LoopsOk, FactsOk, FactsTyped, RequiredRequests
<1>3. DecodedStarts \subseteq indexed
  BY <1>1 DEF DemotionInv, Demoting
<1> HIDE DEF gone
<1>4. /\ Alone' = Alone \ gone /\ DecodedStarts' = DecodedStarts \ gone
      /\ InteriorOf(o, starts, bytes)' => InteriorOf(o, starts, bytes)
      /\ \A p \in Offsets : LabelClear(p) => LabelClear(p)'
  BY <1>1, <1>2, StaysClear
<1>5. LabelClear(o)'
  <2> SUFFICES ASSUME NEW s \in Alone', InteriorOf(o, starts, bytes)', o \in Extent(s)' PROVE FALSE
    BY DEF LabelClear
  <2>1. s \in Alone /\ s \notin gone /\ s \in indexed /\ o \in Extent(s) /\ InteriorOf(o, starts, bytes)
    BY <1>1, <1>3, <1>4, CaseStays DEF Alone
  <2>2. s \in Covering(o)
    BY <2>1, AloneCovers
  <2>3. s # o /\ s <= o /\ s \in Nat /\ o \in Nat
    BY <1>2, <2>1, <2>2, Constants DEF Covering, InteriorOf, Alone, DecodedStarts, Typed, MapOk
  <2> QED
    BY <2>1, <2>2, <2>3 DEF gone
<1>6. RequiredRequests' = RequiredRequests
  BY <1>1 DEF RequiredRequests
<1>7. \A p \in RequiredRequests : p \in todo' \/ LabelClear(p)'
  BY <1>1, <1>2, <1>4, <1>5 DEF DemotionInv, Demoting
<1> QED
  BY <1>1, <1>3, <1>4, <1>6, <1>7 DEF DemotionInv

LEMMA DemoteRelocationClears ==
  ASSUME Typed, DemotionInv, NEW at \in todo, DemoteRelocation(at)
  PROVE  DemotionInv'
<1> DEFINE gone == RelocationConflicts(at)
<1>1. /\ phase = "relocations" /\ phase' = phase /\ todo' = todo \ {at}
      /\ starts' = starts \ gone /\ bytes' = bytes \ Extents(gone)
      /\ UNCHANGED <<case, indexed, requests>>
  BY DEF DemoteRelocation
<1>2. at \in Offsets /\ gone \subseteq starts \cap indexed /\ RequiredRequests \subseteq Offsets
  BY <1>1, CoveringAre DEF Typed, LoopsOk, FactsOk, FactsTyped, RequiredRequests, RelocationConflicts
<1>3. DecodedStarts \subseteq indexed /\ \A o \in RequiredRequests : LabelClear(o)
  BY <1>1 DEF DemotionInv, Demoting
<1> HIDE DEF gone
<1>4. /\ Alone' = Alone \ gone /\ DecodedStarts' = DecodedStarts \ gone
      /\ \A p \in Offsets : LabelClear(p) => LabelClear(p)'
      /\ \A p : RelocationClear(p) => RelocationClear(p)'
  BY <1>1, <1>2, StaysClear
<1>5. RelocationClear(at)'
  <2> SUFFICES ASSUME NEW s \in Alone', NEW o \in {at, at + 1}, o \in Extent(s)' PROVE s < at /\ at + 2 <= End(s)'
    BY DEF RelocationClear
  <2>1. s \in Alone /\ s \notin gone /\ s \in indexed /\ o \in Extent(s) /\ End(s)' = End(s)
    BY <1>1, <1>3, <1>4, CaseStays, CaseStaysToo DEF Alone
  <2>2. s \in Covering(o)
    BY <2>1, AloneCovers
  <2>3. s \in Offsets /\ Extent(s) \subseteq Offsets /\ End(s) \in Nat
    BY <2>1, CaseType DEF Alone, DecodedStarts, Typed, MapOk, LoopsOk
  <2>4. s \in Nat /\ at \in Nat /\ o \in {at, at + 1} \cap Offsets
    BY <1>2, <2>1, <2>3, Constants
  <2>5. ~(s >= at \/ End(s) < at + 2)
    BY <2>1, <2>2, <2>4 DEF gone, RelocationConflicts
  <2> QED
    BY <2>1, <2>3, <2>4, <2>5
<1>6. RequiredRequests' = RequiredRequests
  BY <1>1 DEF RequiredRequests
<1>7. \A r \in case.relocations : r.at \in todo' \/ RelocationClear(r.at)'
  <2> TAKE r \in case.relocations
  <2>1. r.at \in todo \/ RelocationClear(r.at)
    BY <1>1 DEF DemotionInv, Demoting
  <2>2. CASE r.at = at
    BY <1>5, <2>2
  <2>3. CASE r.at # at
    BY <1>1, <1>4, <2>1, <2>3
  <2> QED
    BY <2>2, <2>3
<1>8. \A p \in RequiredRequests : LabelClear(p)'
  BY <1>2, <1>3, <1>4
<1> QED
  BY <1>1, <1>3, <1>4, <1>6, <1>7, <1>8 DEF DemotionInv

\* The first fixed point hands over to the loop over the labels.
LEMMA SolvedStartsDemoting == ASSUME Typed, Solved PROVE DemotionInv'
<1>1. CASE phase = "solve"
  <2>1. /\ phase' = "labels" /\ todo' = RequiredRequests /\ indexed' = DecodedStarts
        /\ UNCHANGED <<case, starts, requests>>
    BY <1>1 DEF Solved, DecodedStarts, mapVars, factVars
  <2>2. DecodedStarts' = DecodedStarts
    BY <2>1, CaseStays DEF DecodedStarts
  <2>3. RequiredRequests' = RequiredRequests
    BY <2>1 DEF RequiredRequests
  <2> QED
    BY <2>1, <2>2, <2>3 DEF DemotionInv
<1>2. CASE phase = "solve api"
  BY <1>2 DEF Solved, DemotionInv, Demoting
<1> QED
  BY <1>1, <1>2 DEF Solved, Solving

\* A loop that has been over everything leaves the instructions as they are.
LEMMA LoopsLeaveClear ==
  ASSUME Typed, DemotionInv, UNCHANGED <<case, starts, bytes, indexed, requests>>,
         LabelsDemoted \/ RelocationsDemoted \/ UNCHANGED vars
  PROVE  DemotionInv'
<1>1. /\ DecodedStarts' = DecodedStarts /\ RequiredRequests' = RequiredRequests
      /\ \A s : Extent(s)' = Extent(s)
      /\ \A s, t : (Overlap(s, t)' <=> Overlap(s, t)) /\ End(s)' = End(s)
  BY CaseStays, CaseStaysToo DEF DecodedStarts, RequiredRequests
<1>2. Alone' = Alone
  BY <1>1 DEF Alone
<1>3. \A o : InteriorOf(o, starts, bytes)' <=> InteriorOf(o, starts, bytes)
  BY DEF InteriorOf
<1>4. \A o : LabelClear(o)' <=> LabelClear(o)
  BY <1>1, <1>2, <1>3 DEF LabelClear
<1>5. \A at : RelocationClear(at)' <=> RelocationClear(at)
  BY <1>1, <1>2 DEF RelocationClear
<1>6. CASE LabelsDemoted
  <2>1. phase = "labels" /\ todo = {} /\ phase' = "relocations" /\ todo' = {r.at : r \in case.relocations}
    BY <1>6 DEF LabelsDemoted
  <2>2. DecodedStarts \subseteq indexed /\ \A o \in RequiredRequests : LabelClear(o)
    BY <2>1 DEF DemotionInv, Demoting
  <2>3. \A r \in case.relocations : r.at \in todo'
    BY <2>1
  <2> QED
    BY <1>1, <1>4, <2>1, <2>2, <2>3 DEF DemotionInv
<1>7. CASE RelocationsDemoted
  <2>1. phase = "relocations" /\ todo = {} /\ phase' = "rebuild"
    BY <1>7 DEF RelocationsDemoted
  <2>2. /\ DecodedStarts \subseteq indexed /\ \A o \in RequiredRequests : LabelClear(o)
        /\ \A r \in case.relocations : RelocationClear(r.at)
    BY <2>1 DEF DemotionInv, Demoting
  <2> QED
    BY <1>1, <1>4, <1>5, <2>1, <2>2 DEF DemotionInv
<1>8. CASE UNCHANGED vars
  <2>1. phase' = phase /\ todo' = todo
    BY <1>8 DEF vars
  <2> QED
    BY <1>1, <1>4, <1>5, <2>1 DEF DemotionInv, Demoting
<1> QED
  BY <1>6, <1>7, <1>8

LEMMA NextDemotes == ASSUME Typed, DemotionInv, [Next]_vars PROVE DemotionInv'
<1>1. phase' \notin {"labels", "relocations", "rebuild"} => DemotionInv'
  BY DEF DemotionInv, Demoting
<1>2. CASE \E e \in todo : SeedRequired(e)
  BY <1>1, <1>2 DEF SeedRequired
<1>3. CASE Seeded
  BY <1>1, <1>3 DEF Seeded
<1>4. CASE Pop
  <2>1. phase' = phase /\ Solving
    BY <1>4 DEF Pop, PopOutside, PopPlatformCall, PopUndecodable, PopAccepted, PopRejected, PopAccepting,
                PopContinuation, Pops
  <2> QED
    BY <1>1, <2>1 DEF Solving
<1>5. CASE ReplayStep
  <2>1. phase' = phase /\ Solving
    BY <1>5 DEF ReplayStep
  <2> QED
    BY <1>1, <2>1 DEF Solving
<1>6. CASE Solved
  BY <1>6, SolvedStartsDemoting
<1>7. CASE \E o \in todo : DemoteLabel(o)
  BY <1>7, DemoteLabelClears
<1>8. CASE \E at \in todo : DemoteRelocation(at)
  BY <1>8, DemoteRelocationClears
<1>9. CASE LabelsDemoted \/ RelocationsDemoted
  <2>1. UNCHANGED <<case, starts, bytes, indexed, requests>>
    BY <1>9 DEF LabelsDemoted, RelocationsDemoted, mapVars, factVars
  <2> QED
    BY <1>9, <2>1, LoopsLeaveClear
<1>10. CASE Rebuild
  <2>1. phase' \in {"failed", "seed", "prune"}
    BY <1>10 DEF Rebuild
  <2> QED
    BY <1>1, <2>1
<1>11. CASE SeedEntries
  <2>1. phase' \in {"prune", "seeding"}
    BY <1>11 DEF SeedEntries
  <2> QED
    BY <1>1, <2>1
<1>12. CASE \E s \in todo : SeedEntry(s)
  <2>1. phase' \in {"seeding", "solve api"}
    BY <1>12 DEF SeedEntry
  <2> QED
    BY <1>1, <2>1
<1>13. CASE Prune
  BY <1>1, <1>13 DEF Prune
<1>14. CASE Finished \/ UNCHANGED vars
  <2>1. UNCHANGED vars
    BY <1>14 DEF Finished
  <2>2. UNCHANGED <<case, starts, bytes, indexed, requests>>
    BY <2>1 DEF vars, mapVars, factVars
  <2> QED
    BY <2>1, <2>2, LoopsLeaveClear
<1> QED
  BY <1>2, <1>3, <1>4, <1>5, <1>6, <1>7, <1>8, <1>9, <1>10, <1>11, <1>12, <1>13, <1>14 DEF Next

\* When the map is rebuilt, no required label is inside an instruction that
\* had its bytes alone, and no relocated long word lies over its opcode or
\* over its end: the demotion of one conflict brings no other back.
THEOREM ConflictsDemoted == Spec => []ConflictsAreDemoted
<1>1. Init => DemotionInv
  BY DEF Init, DemotionInv, Demoting
<1>2. Typed /\ Typed' /\ DemotionInv /\ [Next]_vars => DemotionInv'
  BY NextDemotes
<1>3. DemotionInv => ConflictsAreDemoted
  <2> SUFFICES ASSUME DemotionInv, phase = "rebuild",
                      NEW s \in DecodedStarts, \A t \in indexed : ~Overlap(s, t)
               PROVE  /\ \A o \in RequiredRequests : InteriorOf(o, starts, bytes) => o \notin Extent(s)
                      /\ \A r \in case.relocations : Extent(s) \cap {r.at, r.at + 1} # {} => s < r.at /\ r.at + 2 <= End(s)
    BY DEF ConflictsAreDemoted
  <2>1. s \in Alone
    BY DEF Alone
  <2>2. /\ \A o \in RequiredRequests : LabelClear(o)
        /\ \A r \in case.relocations : RelocationClear(r.at)
    BY DEF DemotionInv, Demoting
  <2> QED
    BY <2>1, <2>2 DEF LabelClear, RelocationClear
<1> QED
  BY <1>1, <1>2, <1>3, AlwaysTyped, PTL DEF Spec

-----------------------------------------------------------------------------
(* Bytes and overlaps                                                      *)

\* What the map says, for any starts S, bytes B and acceptance facts A of the
\* object: the operators of the properties with the variables as parameters.
Instructions(S) == {o \in S : Decodes(o)}
Tried(A) == {o \in Offsets : Decodes(o) /\ A[o].conf # 0}
Lost(S, A) == {o \in Offsets : A[o].conf # 0 /\ o \notin S}
MapInv(S, B, A) ==
  /\ \A s \in S : A[s].conf # 0
  /\ \A s \in Instructions(S) : \A b \in Extent(s) : b \in B \/ \E r \in Lost(S, A) : b \in WordsOf(r)
  /\ \A b \in B : b \in S \/ \E s \in Instructions(S) : b \in Extent(s)
Third(A, s, t) == \E r \in Tried(A) \ {s, t} : Overlap(r, s) \/ Overlap(r, t)
PairsInv(S, A) == \A s, t \in Instructions(S) : Overlap(s, t) => Third(A, s, t)

\* While instructions are accepted, a byte an instruction misses was held by
\* one that gave way to yet another.
Damaged(S, A, s, b) ==
  \E r \in Lost(S, A) : Decodes(r) /\ b \in Extent(r) /\ \E e \in Tried(A) \ {s, r} : Overlap(e, r)
DamageInv(S, B, A) == \A s \in Instructions(S) : \A b \in Extent(s) : b \in B \/ Damaged(S, A, s, b)

\* A demotion.
LEMMA RemovingKeeps ==
  ASSUME case \in Cases, NEW S, S \subseteq Offsets, NEW B, NEW A, NEW gone, gone \subseteq Instructions(S)
  PROVE  /\ MapInv(S, B, A) => MapInv(S \ gone, B \ Extents(gone), A)
         /\ PairsInv(S, A) => PairsInv(S \ gone, A)
<1>1. Instructions(S \ gone) = Instructions(S) \ gone
  BY DEF Instructions
<1>2. \A r : r \in gone => r \in Offsets /\ r \in S /\ WordsOf(r) = Extent(r)
  BY DEF Instructions, WordsOf
<1>3. ASSUME MapInv(S, B, A) PROVE MapInv(S \ gone, B \ Extents(gone), A)
  <2>1. \A s \in S \ gone : A[s].conf # 0
    BY <1>3 DEF MapInv
  <2>2. Lost(S, A) \subseteq Lost(S \ gone, A) /\ gone \subseteq Lost(S \ gone, A)
    BY <1>2, <1>3 DEF Lost, MapInv
  <2>3. ASSUME NEW s \in Instructions(S) \ gone, NEW b \in Extent(s)
        PROVE  b \in B \ Extents(gone) \/ \E r \in Lost(S \ gone, A) : b \in WordsOf(r)
    <3>1. CASE \E r \in Lost(S, A) : b \in WordsOf(r)
      BY <2>2, <3>1
    <3>2. CASE b \in Extents(gone)
      BY <1>2, <2>2, <3>2 DEF Extents
    <3> QED
      BY <1>3, <3>1, <3>2 DEF MapInv
  <2>4. ASSUME NEW b \in B \ Extents(gone)
        PROVE  b \in S \ gone \/ \E s \in Instructions(S) \ gone : b \in Extent(s)
    <3>1. \A s \in gone : b \notin Extent(s)
      BY DEF Extents
    <3>2. CASE b \in S
      <4>1. b \in Extent(b)
        BY <3>2, CaseType
      <4> QED
        BY <3>1, <3>2, <4>1
    <3>3. CASE \E s \in Instructions(S) : b \in Extent(s)
      BY <3>1, <3>3
    <3> QED
      BY <1>3, <3>2, <3>3 DEF MapInv
  <2> QED
    BY <1>1, <2>1, <2>3, <2>4 DEF MapInv
<1>4. PairsInv(S, A) => PairsInv(S \ gone, A)
  BY <1>1 DEF PairsInv
<1> QED
  BY <1>3, <1>4

\* Pruning: the words of platform calls go as well.
LEMMA PruningKeeps ==
  ASSUME case \in Cases, NEW S, S \subseteq Offsets, NEW B, NEW A, NEW gone, gone \subseteq S
  PROVE  /\ MapInv(S, B, A) => MapInv(S \ gone, B \ UNION {WordsOf(o) : o \in gone}, A)
         /\ PairsInv(S, A) => PairsInv(S \ gone, A)
<1> DEFINE words == UNION {WordsOf(o) : o \in gone}
<1>1. Instructions(S \ gone) = Instructions(S) \ gone
  BY DEF Instructions
<1>2. \A b : b \in words <=> \E o \in gone : b \in WordsOf(o)
  OBVIOUS
<1>3. \A o \in gone : o \in WordsOf(o) /\ (Decodes(o) => WordsOf(o) = Extent(o))
  BY CaseType DEF WordsOf
<1> HIDE DEF words
<1>4. ASSUME MapInv(S, B, A) PROVE MapInv(S \ gone, B \ words, A)
  <2>1. \A s \in S \ gone : A[s].conf # 0
    BY <1>4 DEF MapInv
  <2>2. Lost(S, A) \subseteq Lost(S \ gone, A) /\ gone \subseteq Lost(S \ gone, A)
    BY <1>4 DEF Lost, MapInv
  <2>3. ASSUME NEW s \in Instructions(S) \ gone, NEW b \in Extent(s)
        PROVE  b \in B \ words \/ \E r \in Lost(S \ gone, A) : b \in WordsOf(r)
    <3>1. b \in B \/ \E r \in Lost(S, A) : b \in WordsOf(r)
      BY <1>4 DEF MapInv
    <3> QED
      BY <1>2, <2>2, <3>1
  <2>4. ASSUME NEW b \in B \ words
        PROVE  b \in S \ gone \/ \E s \in Instructions(S) \ gone : b \in Extent(s)
    <3>1. \A s \in gone : b \notin WordsOf(s)
      BY <1>2
    <3>2. b \in S \/ \E s \in Instructions(S) : b \in Extent(s)
      BY <1>4 DEF MapInv
    <3>3. \A s \in Instructions(S) \cap gone : b \notin Extent(s)
      BY <1>3, <3>1 DEF Instructions
    <3> QED
      BY <1>3, <3>1, <3>2, <3>3
  <2> QED
    BY <1>1, <2>1, <2>3, <2>4 DEF MapInv
<1>5. PairsInv(S, A) => PairsInv(S \ gone, A)
  BY <1>1 DEF PairsInv
<1> QED
  BY <1>4, <1>5 DEF words

\* The map rebuilt from instructions that do not overlap.
LEMMA RebuildingKeeps ==
  ASSUME NEW S, NEW A, \A s \in S : A[s].conf # 0, NEW B, B = Extents(Instructions(S))
  PROVE  MapInv(S, B, A) /\ DamageInv(S, B, A)
<1>1. \A b : b \in B <=> \E s \in Instructions(S) : b \in Extent(s)
  BY DEF Extents
<1> QED
  BY <1>1 DEF MapInv, DamageInv

\* A platform call: no candidate, one word.
LEMMA CallingKeeps ==
  ASSUME case \in Cases, NEW S, S \subseteq Offsets, NEW B, NEW A \in [Offsets -> Facts], NEW o \in Offsets, ~Decodes(o),
         NEW fact, fact.conf # 0
  PROVE  LET A2 == [A EXCEPT ![o] = fact] IN
         /\ MapInv(S, B, A) => MapInv(S \cup {o}, B \cup {o}, A2)
         /\ PairsInv(S, A) => PairsInv(S \cup {o}, A2)
         /\ DamageInv(S, B, A) => DamageInv(S \cup {o}, B \cup {o}, A2)
<1> DEFINE A2 == [A EXCEPT ![o] = fact]
<1>1. A2[o] = fact /\ \A p \in Offsets \ {o} : A2[p] = A[p]
  OBVIOUS
<1> HIDE DEF A2
<1>2. Instructions(S \cup {o}) = Instructions(S)
  BY DEF Instructions
<1>3. Tried(A2) = Tried(A)
  BY <1>1 DEF Tried
<1>4. Lost(S \cup {o}, A2) = Lost(S, A) \ {o}
  BY <1>1 DEF Lost
<1>5. WordsOf(o) = {o}
  BY DEF WordsOf
<1>6. ASSUME MapInv(S, B, A) PROVE MapInv(S \cup {o}, B \cup {o}, A2)
  <2>1. \A s \in S \cup {o} : A2[s].conf # 0
    BY <1>1, <1>6 DEF MapInv
  <2>2. ASSUME NEW s \in Instructions(S), NEW b \in Extent(s)
        PROVE  b \in B \cup {o} \/ \E r \in Lost(S, A) \ {o} : b \in WordsOf(r)
    BY <1>5, <1>6 DEF MapInv
  <2>3. \A b \in B \cup {o} : b \in S \cup {o} \/ \E s \in Instructions(S) : b \in Extent(s)
    BY <1>6 DEF MapInv
  <2> QED
    BY <1>2, <1>4, <2>1, <2>2, <2>3 DEF MapInv
<1>7. PairsInv(S, A) => PairsInv(S \cup {o}, A2)
  BY <1>2, <1>3 DEF PairsInv, Third
<1>8. DamageInv(S, B, A) => DamageInv(S \cup {o}, B \cup {o}, A2)
  BY <1>2, <1>3, <1>4 DEF DamageInv, Damaged
<1> QED
  BY <1>6, <1>7, <1>8 DEF A2

\* An instruction is accepted in the place of those it evicts.
LEMMA AcceptingKeeps ==
  ASSUME case \in Cases, NEW S, S \subseteq Offsets, NEW B, NEW A \in [Offsets -> Facts],
         NEW o \in Offsets, Decodes(o), o \notin S, NEW gone, gone \subseteq Instructions(S) \cap Extent(o),
         NEW fact, fact.conf # 0, MapInv(S, B, A)
  PROVE  LET S2 == (S \ gone) \cup {o}
             B2 == (B \ Extents(gone)) \cup Extent(o)
             A2 == [A EXCEPT ![o] = fact]
         IN  /\ MapInv(S2, B2, A2)
             /\ DamageInv(S, B, A) => DamageInv(S2, B2, A2)
             /\ PairsInv(S, A) /\ DamageInv(S, B, A) /\ (gone # {} \/ Extent(o) \cap B = {}) => PairsInv(S2, A2)
<1> DEFINE S2 == (S \ gone) \cup {o}
           B2 == (B \ Extents(gone)) \cup Extent(o)
           A2 == [A EXCEPT ![o] = fact]
<1>1. A2[o] = fact /\ \A p \in Offsets \ {o} : A2[p] = A[p]
  OBVIOUS
<1>2. Instructions(S2) = (Instructions(S) \ gone) \cup {o}
  BY DEF Instructions
<1>3. \A p : p \in S2 <=> (p \in S /\ p \notin gone) \/ p = o
  OBVIOUS
<1>4. \A b : b \in B2 <=> (b \in B /\ \A r \in gone : b \notin Extent(r)) \/ b \in Extent(o)
  BY DEF Extents
<1>5. \A r \in gone : r \in S /\ r \in Offsets /\ Decodes(r) /\ r # o /\ r \in Extent(o) /\ r \in Extent(r)
  BY CaseType DEF Instructions
<1> HIDE DEF A2, S2, B2
<1>6. Tried(A2) = Tried(A) \cup {o}
  BY <1>1 DEF Tried
<1>7. Lost(S2, A2) = (Lost(S, A) \ {o}) \cup gone
  <2>1. \A p \in gone : A2[p].conf # 0
    BY <1>1, <1>5 DEF MapInv
  <2> QED
    BY <1>1, <1>3, <1>5, <2>1 DEF Lost
<1>8. gone \subseteq Tried(A2) /\ \A s \in Instructions(S) : s \in Tried(A)
  BY <1>1, <1>5 DEF Tried, MapInv, Instructions
<1>9. \A r \in gone : Overlap(o, r) /\ Overlap(r, o) /\ WordsOf(r) = Extent(r)
  BY <1>5 DEF Overlap, WordsOf
<1>10. WordsOf(o) = Extent(o)
  BY DEF WordsOf
<1>11. MapInv(S2, B2, A2)
  <2>1. \A s \in S2 : A2[s].conf # 0
    BY <1>1, <1>3 DEF MapInv
  <2>2. ASSUME NEW s \in Instructions(S2), NEW b \in Extent(s)
        PROVE  b \in B2 \/ \E r \in Lost(S2, A2) : b \in WordsOf(r)
    <3>1. s = o \/ s \in Instructions(S)
      BY <1>2
    <3>2. CASE b \in Extent(o)
      BY <1>4, <3>2
    <3>3. CASE b \notin Extent(o) /\ b \in B
      BY <1>4, <1>7, <1>9, <3>3
    <3>4. CASE b \notin Extent(o) /\ \E r \in Lost(S, A) : b \in WordsOf(r)
      BY <1>7, <1>10, <3>4
    <3> QED
      BY <3>1, <3>2, <3>3, <3>4 DEF MapInv
  <2>3. ASSUME NEW b \in B2
        PROVE  b \in S2 \/ \E s \in Instructions(S2) : b \in Extent(s)
    <3>1. CASE b \in Extent(o)
      BY <1>2, <3>1
    <3>2. CASE b \in B /\ \A r \in gone : b \notin Extent(r)
      <4>1. b \in S \/ \E s \in Instructions(S) : b \in Extent(s)
        BY <3>2 DEF MapInv
      <4> QED
        BY <1>2, <1>3, <1>5, <3>2, <4>1
    <3> QED
      BY <1>4, <3>1, <3>2
  <2> QED
    BY <2>1, <2>2, <2>3 DEF MapInv
<1>12. ASSUME DamageInv(S, B, A) PROVE DamageInv(S2, B2, A2)
  <2> SUFFICES ASSUME NEW s \in Instructions(S2), NEW b \in Extent(s), b \notin B2
               PROVE  Damaged(S2, A2, s, b)
    BY DEF DamageInv
  <2>1. b \notin Extent(o) /\ s \in Instructions(S) /\ s # o
    BY <1>2, <1>4
  <2>2. CASE b \in B
    <3>1. PICK r \in gone : b \in Extent(r)
      BY <1>4, <2>1, <2>2
    <3>2. r \in Lost(S2, A2) /\ Decodes(r) /\ o \in Tried(A2) \ {s, r} /\ Overlap(o, r)
      BY <1>5, <1>6, <1>7, <1>9, <2>1
    <3> QED
      BY <3>1, <3>2 DEF Damaged
  <2>3. CASE b \notin B
    <3>1. PICK r \in Lost(S, A) : Decodes(r) /\ b \in Extent(r) /\ \E e \in Tried(A) \ {s, r} : Overlap(e, r)
      BY <1>12, <2>1, <2>3 DEF DamageInv, Damaged
    <3>2. r # o
      BY <2>1, <3>1
    <3>3. r \in Lost(S2, A2) /\ \E e \in Tried(A2) \ {s, r} : Overlap(e, r)
      BY <1>6, <1>7, <3>1, <3>2
    <3> QED
      BY <3>1, <3>3 DEF Damaged
  <2> QED
    BY <2>2, <2>3
<1>13. ASSUME PairsInv(S, A), DamageInv(S, B, A), gone # {} \/ Extent(o) \cap B = {}
       PROVE  PairsInv(S2, A2)
  <2>1. ASSUME NEW s \in Instructions(S) \ gone, Extent(s) \cap Extent(o) # {}
        PROVE  \E r \in Tried(A2) \ {s, o} : Overlap(r, s) \/ Overlap(r, o)
    <3>1. CASE gone # {}
      <4>1. PICK r \in gone : TRUE
        BY <3>1
      <4>2. r \in Tried(A2) \ {s, o} /\ Overlap(r, o)
        BY <1>5, <1>8, <1>9, <4>1
      <4> QED
        BY <4>2
    <3>2. CASE Extent(o) \cap B = {}
      <4>1. PICK b \in Extent(s) : b \in Extent(o)
        BY <2>1
      <4>2. b \notin B
        BY <3>2, <4>1
      <4>3. PICK r \in Lost(S, A) : Decodes(r) /\ b \in Extent(r) /\ \E e \in Tried(A) \ {s, r} : Overlap(e, r)
        BY <1>13, <4>2 DEF DamageInv, Damaged
      <4>4. r # s /\ r \in Tried(A2)
        BY <1>6, <4>3 DEF Lost, Tried, Instructions
      <4>5. CASE r = o
        BY <1>6, <4>3, <4>5
      <4>6. CASE r # o
        <5>1. Overlap(r, s)
          BY <4>1, <4>3, <4>4 DEF Overlap
        <5> QED
          BY <4>4, <4>6, <5>1
      <4> QED
        BY <4>5, <4>6
    <3> QED
      BY <1>13, <3>1, <3>2
  <2> SUFFICES ASSUME NEW s \in Instructions(S2), NEW t \in Instructions(S2), Overlap(s, t)
               PROVE  Third(A2, s, t)
    BY DEF PairsInv
  <2>2. s # t /\ Extent(s) \cap Extent(t) # {} /\ Extent(t) \cap Extent(s) # {}
    BY DEF Overlap
  <2>3. CASE s = o
    <3>1. t \in Instructions(S) \ gone
      BY <1>2, <2>2, <2>3
    <3> QED
      BY <2>1, <2>2, <2>3, <3>1 DEF Third
  <2>4. CASE t = o
    <3>1. s \in Instructions(S) \ gone
      BY <1>2, <2>2, <2>4
    <3> QED
      BY <2>1, <2>2, <2>4, <3>1 DEF Third
  <2>5. CASE s # o /\ t # o
    <3>1. Third(A, s, t)
      BY <1>2, <1>13, <2>5 DEF PairsInv
    <3> QED
      BY <1>6, <3>1 DEF Third
  <2> QED
    BY <2>3, <2>4, <2>5
<1> QED
  BY <1>11, <1>12, <1>13 DEF S2, B2, A2

\* Nothing is accepted between the fixed points, and nothing after the last.
Accepting == phase \notin {"labels", "relocations", "rebuild", "failed", "done"}
TheMapInv == MapInv(starts, bytes, accepted)
ThePairsInv == PairsInv(starts, accepted)
TheDamageInv == DamageInv(starts, bytes, accepted)
OverlapInv ==
  /\ TheMapInv /\ \A o \in indexed : Decodes(o)
  /\ failures = {} => ThePairsInv
  /\ failures = {} /\ Accepting => TheDamageInv
  /\ phase \in {"seed", "seeding", "prune"} => bytes = Extents(DecodedStarts)

\* With the object unchanged the parametrised formulas commute with the step.
LEMMA MapAfter ==
  ASSUME case' = case
  PROVE  /\ TheMapInv' <=> MapInv(starts', bytes', accepted')
         /\ ThePairsInv' <=> PairsInv(starts', accepted')
         /\ TheDamageInv' <=> DamageInv(starts', bytes', accepted')
         /\ Extents(DecodedStarts)' = Extents(Instructions(starts'))
         /\ (\A o \in indexed : Decodes(o))' <=> \A o \in indexed' : Decodes(o)
<1>1. /\ \A o : (Decodes(o)' <=> Decodes(o)) /\ Extent(o)' = Extent(o)
      /\ \A s, t : Overlap(s, t)' <=> Overlap(s, t)
  BY CaseStays, CaseStaysToo
<1>2. \A o : WordsOf(o)' = WordsOf(o)
  BY <1>1 DEF WordsOf
<1>3. Instructions(starts)' = Instructions(starts') /\ DecodedStarts' = Instructions(starts')
  BY <1>1 DEF Instructions, DecodedStarts
<1>4. Tried(accepted)' = Tried(accepted') /\ Lost(starts, accepted)' = Lost(starts', accepted')
  BY <1>1 DEF Tried, Lost
<1>5. TheMapInv' <=> MapInv(starts', bytes', accepted')
  BY <1>1, <1>2, <1>3, <1>4 DEF TheMapInv, MapInv
<1>6. ThePairsInv' <=> PairsInv(starts', accepted')
  BY <1>1, <1>3, <1>4 DEF ThePairsInv, PairsInv, Third
<1>7. TheDamageInv' <=> DamageInv(starts', bytes', accepted')
  BY <1>1, <1>3, <1>4 DEF TheDamageInv, DamageInv, Damaged
<1>8. Extents(DecodedStarts)' = Extents(Instructions(starts'))
  <2>1. Extents(DecodedStarts)' = UNION {Extent(o)' : o \in DecodedStarts'}
    BY DEF Extents
  <2> QED
    BY <1>1, <1>3, <2>1 DEF Extents
<1>9. (\A o \in indexed : Decodes(o))' <=> \A o \in indexed' : Decodes(o)
  BY <1>1
<1> QED
  BY <1>5, <1>6, <1>7, <1>8, <1>9

\* A step that leaves the map alone.
LEMMA MapStays ==
  ASSUME OverlapInv, UNCHANGED <<case, starts, bytes, accepted>>, failures \subseteq failures',
         indexed' \subseteq indexed \cup DecodedStarts,
         phase' \notin {"labels", "relocations", "rebuild", "failed", "done"} => Accepting,
         phase' \in {"seed", "seeding", "prune"} => phase \in {"seed", "seeding", "prune"}
  PROVE  OverlapInv'
<1>1. failures' = {} => failures = {}
  OBVIOUS
<1>2. TheMapInv' /\ (failures' = {} => ThePairsInv') /\ (failures' = {} /\ Accepting => TheDamageInv')
  BY <1>1, MapAfter DEF OverlapInv, TheMapInv, ThePairsInv, TheDamageInv
<1>3. (\A o \in indexed : Decodes(o))'
  BY MapAfter DEF OverlapInv, DecodedStarts
<1>4. Extents(DecodedStarts)' = Extents(DecodedStarts)
  <2>1. Instructions(starts) = DecodedStarts
    BY DEF Instructions, DecodedStarts
  <2> QED
    BY <2>1, MapAfter
<1>5. Accepting' => Accepting
  BY DEF Accepting
<1>6. phase' \in {"seed", "seeding", "prune"} => bytes' = Extents(DecodedStarts)'
  BY <1>4 DEF OverlapInv
<1> QED
  BY <1>2, <1>3, <1>5, <1>6 DEF OverlapInv

LEMMA PopOverlaps == ASSUME Typed, OverlapInv, Pop PROVE OverlapInv'
<1>1. phase' = phase /\ Solving /\ case' = case
  BY DEF Pop, PopOutside, PopPlatformCall, PopUndecodable, PopAccepted, PopRejected, PopAccepting,
         PopContinuation, Pops
<1>2. /\ phase' \notin {"seed", "seeding", "prune"} /\ Accepting
      /\ case \in Cases /\ starts \subseteq Offsets /\ accepted \in [Offsets -> Facts]
  BY <1>1 DEF Solving, Accepting, Typed, LoopsOk, MapOk
<1>3. CASE PopOutside
  BY <1>1, <1>2, <1>3, MapStays DEF PopOutside, mapVars, factVars
<1>4. CASE PopPlatformCall
  <2>0. PICK o : o = Popped.at
    OBVIOUS
  <2> DEFINE fact == [conf |-> Popped.conf, reason |-> Popped.reason]
  <2>1. /\ Pops(Popped) /\ o \in Offsets /\ At(o).kind = "linea"
        /\ starts' = starts \cup {o} /\ bytes' = bytes \cup {o}
        /\ accepted' = [accepted EXCEPT ![o] = fact]
        /\ UNCHANGED <<failures, indexed>>
    BY <1>4, <2>0 DEF PopPlatformCall, factVars
  <2>2. fact.conf # 0
    <3>1. Popped.conf \in 1 .. 3
      BY <2>1, PoppedType, ItemType
    <3> QED
      BY <3>1
  <2>3. ~Decodes(o)
    BY <2>1 DEF Decodes, Flows
  <2> HIDE DEF fact
  <2>4. /\ TheMapInv => MapInv(starts', bytes', accepted')
        /\ ThePairsInv => PairsInv(starts', accepted')
        /\ TheDamageInv => DamageInv(starts', bytes', accepted')
    BY <1>2, <2>1, <2>2, <2>3, CallingKeeps DEF TheMapInv, ThePairsInv, TheDamageInv
  <2>5. TheMapInv' /\ (failures' = {} => ThePairsInv') /\ (failures' = {} => TheDamageInv')
    BY <1>1, <1>2, <2>1, <2>4, MapAfter DEF OverlapInv
  <2>6. (\A p \in indexed : Decodes(p))'
    BY <1>1, <2>1, MapAfter DEF OverlapInv
  <2> QED
    BY <1>2, <2>5, <2>6 DEF OverlapInv
<1>5. CASE PopUndecodable
  BY <1>1, <1>2, <1>5, MapStays DEF PopUndecodable, mapVars
<1>6. CASE PopAccepted
  BY <1>1, <1>2, <1>6, MapStays DEF PopAccepted, mapVars, factVars
<1>7. CASE PopRejected
  BY <1>1, <1>2, <1>7, MapStays DEF PopRejected, mapVars
<1>8. CASE PopAccepting
  <2>0. PICK o : o = Popped.at
    OBVIOUS
  <2> DEFINE it == MarkedItem(Popped)
             gone == IF Overlaps(o) /\ CanReplace(o, it) THEN Replaced(o, it) ELSE {}
             fact == [conf |-> it.conf, reason |-> it.reason]
  <2>1. /\ Pops(Popped) /\ Decodes(o) /\ o \notin starts
        /\ starts' = (starts \ gone) \cup {o} /\ bytes' = (bytes \ Extents(gone)) \cup Extent(o)
        /\ accepted' = [accepted EXCEPT ![o] = fact]
        /\ failures' = (IF Conflicts(o, it) THEN failures \cup {o} ELSE failures)
        /\ indexed' = indexed
    BY <1>8, <2>0 DEF PopAccepting
  <2>2. o \in Offsets /\ Popped \in Items
    BY <2>1, PoppedType, DecodesIs
  <2>3. fact.conf # 0
    <3>1. it.conf \in 1 .. 3
      BY <1>2, <2>0, <2>2, MarkedItemType, ItemType
    <3> QED
      BY <3>1
  <2>4. gone \subseteq Instructions(starts) \cap Extent(o)
    BY DEF CanReplace, Replaced, Instructions
  <2>5. failures' = {} => failures = {} /\ (gone # {} \/ Extent(o) \cap bytes = {})
    <3>1. failures' = {} => failures = {} /\ ~Conflicts(o, it)
      BY <2>1
    <3>2. ~Conflicts(o, it) => gone # {} \/ Extent(o) \cap bytes = {}
      BY DEF Conflicts, Overlaps, CanReplace
    <3> QED
      BY <3>1, <3>2
  <2> HIDE DEF it, gone, fact
  <2>6. TheMapInv
    BY DEF OverlapInv
  <2>7. /\ MapInv(starts', bytes', accepted')
        /\ TheDamageInv => DamageInv(starts', bytes', accepted')
        /\ ThePairsInv /\ TheDamageInv /\ (gone # {} \/ Extent(o) \cap bytes = {}) => PairsInv(starts', accepted')
    BY <1>2, <2>1, <2>2, <2>3, <2>4, <2>6, AcceptingKeeps DEF TheMapInv, ThePairsInv, TheDamageInv
  <2>8. TheMapInv' /\ (failures' = {} => ThePairsInv') /\ (failures' = {} => TheDamageInv')
    BY <1>1, <1>2, <2>5, <2>7, MapAfter DEF OverlapInv
  <2>9. (\A p \in indexed : Decodes(p))'
    BY <1>1, <2>1, MapAfter DEF OverlapInv
  <2> QED
    BY <1>2, <2>8, <2>9 DEF OverlapInv
<1>9. CASE PopContinuation
  BY <1>1, <1>2, <1>9, MapStays DEF PopContinuation, mapVars
<1> QED
  BY <1>3, <1>4, <1>5, <1>6, <1>7, <1>8, <1>9, PopIs

LEMMA DemotionOverlaps ==
  ASSUME Typed, OverlapInv, NEW gone, gone \subseteq starts \cap indexed,
         starts' = starts \ gone, bytes' = bytes \ Extents(gone), UNCHANGED <<case, accepted, failures, indexed>>,
         phase' \in {"labels", "relocations"}
  PROVE  OverlapInv'
<1>1. gone \subseteq Instructions(starts) /\ case \in Cases /\ starts \subseteq Offsets
  BY DEF OverlapInv, Instructions, Typed, LoopsOk, MapOk
<1>2. /\ TheMapInv => MapInv(starts', bytes', accepted')
      /\ ThePairsInv => PairsInv(starts', accepted')
  BY <1>1, RemovingKeeps DEF TheMapInv, ThePairsInv
<1>3. TheMapInv' /\ (failures' = {} => ThePairsInv')
  BY <1>2, MapAfter DEF OverlapInv
<1>4. (\A p \in indexed : Decodes(p))'
  BY MapAfter DEF OverlapInv
<1>5. ~Accepting' /\ phase' \notin {"seed", "seeding", "prune"}
  BY DEF Accepting
<1> QED
  BY <1>3, <1>4, <1>5 DEF OverlapInv

LEMMA RebuildOverlaps == ASSUME Typed, OverlapInv, Rebuild PROVE OverlapInv'
<1>1. /\ UNCHANGED <<case, starts, accepted, failures, indexed>> /\ phase' \in {"failed", "seed", "prune"}
      /\ DecodedStarts = Instructions(starts)
  BY DEF Rebuild, DecodedStarts, Instructions
<1>2. (\A p \in indexed : Decodes(p))'
  BY <1>1, MapAfter DEF OverlapInv
<1>3. CASE \E s, t \in DecodedStarts : Overlap(s, t)
  <2>1. phase' = "failed" /\ bytes' = bytes
    BY <1>3 DEF Rebuild
  <2>2. TheMapInv' /\ (failures' = {} => ThePairsInv')
    BY <1>1, <2>1, MapAfter DEF OverlapInv, TheMapInv, ThePairsInv
  <2>3. ~Accepting' /\ phase' \notin {"seed", "seeding", "prune"}
    BY <2>1 DEF Accepting
  <2> QED
    BY <1>2, <2>2, <2>3 DEF OverlapInv
<1>4. CASE ~ \E s, t \in DecodedStarts : Overlap(s, t)
  <2>1. bytes' = Extents(DecodedStarts)
    BY <1>4 DEF Rebuild
  <2>2. MapInv(starts', bytes', accepted') /\ DamageInv(starts', bytes', accepted')
    <3>1. \A s \in starts : accepted[s].conf # 0
      BY DEF OverlapInv, TheMapInv, MapInv
    <3> QED
      BY <1>1, <2>1, <3>1, RebuildingKeeps
  <2>3. PairsInv(starts', accepted')
    BY <1>1, <1>4 DEF PairsInv
  <2>4. TheMapInv' /\ ThePairsInv' /\ TheDamageInv'
    BY <1>1, <2>2, <2>3, MapAfter
  <2>5. bytes' = Extents(DecodedStarts)'
    BY <1>1, <2>1, MapAfter
  <2> QED
    BY <1>2, <2>4, <2>5 DEF OverlapInv
<1> QED
  BY <1>3, <1>4

LEMMA PruneOverlaps == ASSUME Typed, OverlapInv, Prune PROVE OverlapInv'
<1> DEFINE gone == starts \ Reachable
<1>1. /\ phase' = "done" /\ UNCHANGED <<case, accepted, failures, indexed>>
      /\ starts' = starts \ gone /\ bytes' = bytes \ UNION {WordsOf(o) : o \in gone}
  BY DEF Prune, factVars
<1>2. gone \subseteq starts /\ case \in Cases /\ starts \subseteq Offsets
  BY DEF Typed, LoopsOk, MapOk
<1> HIDE DEF gone
<1>3. /\ TheMapInv => MapInv(starts', bytes', accepted')
      /\ ThePairsInv => PairsInv(starts', accepted')
  BY <1>1, <1>2, PruningKeeps DEF TheMapInv, ThePairsInv
<1>4. TheMapInv' /\ (failures' = {} => ThePairsInv')
  BY <1>1, <1>3, MapAfter DEF OverlapInv
<1>5. (\A p \in indexed : Decodes(p))'
  BY <1>1, MapAfter DEF OverlapInv
<1>6. ~Accepting' /\ phase' \notin {"seed", "seeding", "prune"}
  BY <1>1 DEF Accepting
<1> QED
  BY <1>4, <1>5, <1>6 DEF OverlapInv

LEMMA NextOverlaps == ASSUME Typed, OverlapInv, [Next]_vars PROVE OverlapInv'
<1>1. CASE \E e \in todo : SeedRequired(e)
  BY <1>1, MapStays DEF SeedRequired, mapVars, factVars, Accepting
<1>2. CASE Seeded
  BY <1>2, MapStays DEF Seeded, mapVars, factVars, Accepting
<1>3. CASE Pop
  BY <1>3, PopOverlaps
<1>4. CASE ReplayStep
  <2>1. /\ phase' = phase /\ Solving /\ failures' = failures /\ indexed' = indexed
        /\ UNCHANGED <<case, starts, bytes, accepted>>
    BY <1>4 DEF ReplayStep, mapVars
  <2> QED
    BY <2>1, MapStays DEF Solving, Accepting
<1>5. CASE Solved
  <2>1. /\ phase \in {"solve", "solve api"} /\ phase' \in {"labels", "rebuild api"} /\ failures' = failures
        /\ indexed' \in {indexed, DecodedStarts} /\ UNCHANGED <<case, starts, bytes, accepted>>
    BY <1>5 DEF Solved, Solving, mapVars, factVars, DecodedStarts
  <2> QED
    BY <2>1, MapStays DEF Accepting
<1>6. CASE \E o \in todo : DemoteLabel(o)
  <2>1. PICK o \in todo : DemoteLabel(o)
    BY <1>6
  <2> DEFINE gone == IF InteriorOf(o, starts, bytes) THEN {s \in Covering(o) : s < o} ELSE {}
  <2>2. /\ starts' = starts \ gone /\ bytes' = bytes \ Extents(gone) /\ phase' = "labels"
        /\ UNCHANGED <<case, accepted, failures, indexed>>
    BY <2>1 DEF DemoteLabel
  <2>3. gone \subseteq starts \cap indexed
    BY CoveringAre
  <2> HIDE DEF gone
  <2> QED
    BY <2>2, <2>3, DemotionOverlaps
<1>7. CASE \E at \in todo : DemoteRelocation(at)
  <2>1. PICK at \in todo : DemoteRelocation(at)
    BY <1>7
  <2>2. /\ starts' = starts \ RelocationConflicts(at) /\ bytes' = bytes \ Extents(RelocationConflicts(at))
        /\ phase' = "relocations" /\ UNCHANGED <<case, accepted, failures, indexed>>
    BY <2>1 DEF DemoteRelocation
  <2>3. RelocationConflicts(at) \subseteq starts \cap indexed
    BY CoveringAre DEF RelocationConflicts
  <2> QED
    BY <2>2, <2>3, DemotionOverlaps
<1>8. CASE LabelsDemoted \/ RelocationsDemoted
  <2>1. /\ phase' \in {"relocations", "rebuild"} /\ failures' = failures /\ indexed' = indexed
        /\ UNCHANGED <<case, starts, bytes, accepted>>
    BY <1>8 DEF LabelsDemoted, RelocationsDemoted, mapVars, factVars
  <2> QED
    BY <2>1, MapStays
<1>9. CASE Rebuild
  BY <1>9, RebuildOverlaps
<1>10. CASE SeedEntries
  <2>1. /\ phase = "seed" /\ phase' \in {"prune", "seeding"} /\ failures' = failures /\ indexed' = indexed
        /\ UNCHANGED <<case, starts, bytes, accepted>>
    BY <1>10 DEF SeedEntries, mapVars, factVars
  <2> QED
    BY <2>1, MapStays DEF Accepting
<1>11. CASE \E s \in todo : SeedEntry(s)
  <2>1. /\ phase = "seeding" /\ phase' \in {"solve api", "seeding"} /\ failures' = failures /\ indexed' = indexed
        /\ UNCHANGED <<case, starts, bytes, accepted>>
    BY <1>11 DEF SeedEntry, mapVars, factVars
  <2> QED
    BY <2>1, MapStays DEF Accepting
<1>12. CASE Prune
  BY <1>12, PruneOverlaps
<1>13. CASE Finished \/ UNCHANGED vars
  <2>1. /\ phase' = phase /\ failures' = failures /\ indexed' = indexed
        /\ UNCHANGED <<case, starts, bytes, accepted>>
    BY <1>13 DEF Finished, vars, mapVars, factVars
  <2> QED
    BY <2>1, MapStays DEF Accepting
<1> QED
  BY <1>1, <1>2, <1>3, <1>4, <1>5, <1>6, <1>7, <1>8, <1>9, <1>10, <1>11, <1>12, <1>13 DEF Next

LEMMA InitOverlaps == Init => OverlapInv
<1> SUFFICES ASSUME Init PROVE OverlapInv
  OBVIOUS
<1>1. starts = {} /\ bytes = {} /\ indexed = {} /\ phase = "entries"
  BY DEF Init
<1>2. Instructions(starts) = {}
  BY <1>1 DEF Instructions
<1>3. TheMapInv /\ ThePairsInv /\ TheDamageInv
  BY <1>1, <1>2 DEF TheMapInv, ThePairsInv, TheDamageInv, MapInv, PairsInv, DamageInv
<1> QED
  BY <1>1, <1>3 DEF OverlapInv

LEMMA AlwaysOverlap == Spec => []OverlapInv
<1>1. Typed /\ OverlapInv /\ [Next]_vars => OverlapInv'
  BY NextOverlaps
<1> QED
  BY <1>1, InitOverlaps, AlwaysTyped, PTL DEF Spec

\* The byte map tells the story of the starts: no byte outlives its instruction,
\* and an instruction misses one only where another that held it was taken back.
THEOREM BytesFollow == Spec => []BytesFollowStarts
<1>1. OverlapInv => BytesFollowStarts
  <2> SUFFICES ASSUME TheMapInv PROVE BytesFollowStarts
    BY DEF OverlapInv
  <2>1. Instructions(starts) = DecodedStarts /\ Lost(starts, accepted) = TakenBack
    BY DEF Instructions, DecodedStarts, Lost, TakenBack
  <2>2. bytes \subseteq Extents(DecodedStarts) \cup starts
    BY <2>1 DEF TheMapInv, MapInv, Extents
  <2> QED
    BY <2>1, <2>2 DEF TheMapInv, MapInv, BytesFollowStarts
<1> QED
  BY <1>1, AlwaysOverlap, PTL

\* Two instructions alone never come to share a byte: while every required start
\* is honoured, it takes a third that was accepted over one of them.
THEOREM OverlapTakesAThird == Spec => []OverlapsNeedAThird
<1>1. OverlapInv => OverlapsNeedAThird
  <2> SUFFICES ASSUME ThePairsInv
               PROVE  \A s, t \in DecodedStarts :
                        Overlap(s, t) => \E r \in Once \ {s, t} : Overlap(r, s) \/ Overlap(r, t)
    BY DEF OverlapInv, OverlapsNeedAThird
  <2>1. Instructions(starts) = DecodedStarts /\ Tried(accepted) = Once
    BY DEF Instructions, DecodedStarts, Tried, Once
  <2> QED
    BY <2>1 DEF ThePairsInv, PairsInv, Third
<1> QED
  BY <1>1, AlwaysOverlap, PTL

-----------------------------------------------------------------------------
(* The passes over wrappers                                                *)

\* Whether something is a wrapper depends on the object and the byte map alone.
LEMMA WrapperStays ==
  ASSUME case' = case, NEW o, NEW relocated, NEW B
  PROVE  Wrapper(o, relocated, B)' <=> Wrapper(o, relocated, B)
BY DEF Wrapper, Decodes, Extent, End, At, Falls

Seedable(B) == LinkageEntries(B) \cup BoundaryEntries(B)

LEMMA SeedableStays ==
  ASSUME case' = case, starts \subseteq starts', labels' = labels, RequiredRequests' = RequiredRequests, NEW B
  PROVE  \A o : o \in Seedable(B)' => o \in Seedable(B)
<1>1. \A o, r : Wrapper(o, r, B)' <=> Wrapper(o, r, B)
  BY WrapperStays
<1>2. \A o : o \in LinkageEntries(B)' => o \in LinkageEntries(B)
  BY <1>1 DEF LinkageEntries
<1>3. \A o : o \in BoundaryEntries(B)' => o \in BoundaryEntries(B)
  BY <1>1 DEF BoundaryEntries
<1> QED
  BY <1>2, <1>3 DEF Seedable

\* The starts that have been queued with the confidence of a seed.
High == {o \in Offsets : queued[o] >= Inferred}

LEMMA HighIsFinite == IsFiniteSet(High) /\ Cardinality(High) \in Nat /\ Cardinality(High) <= Size
<1>1. High \subseteq Offsets
  BY DEF High
<1> QED
  BY <1>1, StartsAreFew

LEMMA HighGrows ==
  ASSUME Grown(TheQueue, QueueAfter)
  PROVE  /\ High \subseteq High' /\ Cardinality(High) <= Cardinality(High')
         /\ Cardinality(High) \in Nat /\ Cardinality(High') \in Nat /\ Cardinality(High') <= Size
         /\ \A o \in Offsets : queued[o] >= Inferred => queued'[o] >= Inferred
<1>1. \A o \in Offsets : queued[o] \in Nat /\ queued'[o] \in Nat /\ queued[o] <= queued'[o]
  <2>1. QueueTyped(TheQueue) /\ QueueTyped(QueueAfter) /\ Later(TheQueue, QueueAfter)
    BY DEF Grown, QueueInv
  <2>2. TheQueue.queued = queued /\ QueueAfter.queued = queued'
    BY DEF TheQueue, QueueAfter
  <2> QED
    BY <2>1, <2>2, QueueNumbers DEF Later
<1>2. Inferred \in Nat
  BY DEF Inferred
<1>3. \A o \in Offsets : queued[o] >= Inferred => queued'[o] >= Inferred
  BY <1>1, <1>2
<1>4. High' = {o \in Offsets : queued'[o] >= Inferred}
  BY DEF High, Inferred
<1>5. High \subseteq High'
  BY <1>3, <1>4 DEF High
<1>6. High' \subseteq Offsets
  BY <1>4
<1>7. IsFiniteSet(High') /\ Cardinality(High') \in Nat /\ Cardinality(High') <= Size
  BY <1>6, StartsAreFew
<1>8. Cardinality(High) <= Cardinality(High')
  BY <1>5, <1>7, FS_Subset
<1> QED
  BY <1>3, <1>5, <1>7, <1>8, HighIsFinite

\* The passes are fewer than the starts queued as seeds: a pass in which
\* something is accepted has queued one it had not before.
Busy == cursor < Len(items) \/ replay # NoReplay \/ (phase # "seeding" /\ fresh # 0)
CountInv ==
  /\ phase \in {"entries", "solve", "labels", "relocations", "rebuild"} => passes = 0
  /\ phase \in {"seed", "seeding", "solve api", "rebuild api"} => passes <= Cardinality(High)
  /\ phase \in {"seeding", "solve api", "rebuild api"} /\ Busy => passes + 1 <= Cardinality(High)

\* What can be seeded over the instructions has been queued, or is about to be.
Complete(B) == \A o \in Seedable(B) : queued[o] >= Inferred \/ (phase = "seeding" /\ \E s \in todo : s[1] = o)
Collected == phase \in {"seeding", "prune"} \/ (phase \in {"solve api", "rebuild api"} /\ fresh = 0)
SeedsInv == CountInv /\ \A B : Collected /\ B = Extents(DecodedStarts) => Complete(B)

LEMMA SeedableAreOffsets == ASSUME NEW B PROVE Seedable(B) \subseteq Offsets
BY DEF Seedable, LinkageEntries, BoundaryEntries

\* Outside the passes there is nothing to say.
LEMMA EarlySeeds ==
  ASSUME passes' = 0, phase' \in {"entries", "solve", "labels", "relocations", "rebuild"}
  PROVE  SeedsInv'
BY DEF SeedsInv, CountInv, Collected

LEMMA LateSeeds == ASSUME phase' \in {"done", "failed"} PROVE SeedsInv'
BY DEF SeedsInv, CountInv, Collected

\* A step of the fixed point: it solves what was busy, and asks for no label.
LEMMA RequestsStay ==
  ASSUME Typed, Pop \/ ReplayStep
  PROVE  RequiredRequests' = RequiredRequests /\ labels' = labels /\ passes' = passes
<1>1. /\ passes' = passes /\ labels' = labels
      /\ requests' = requests \/ PopAccepting \/ PopContinuation \/ ReplayStep
  BY DEF Pop, PopOutside, PopPlatformCall, PopUndecodable, PopAccepted, PopRejected, PopAccepting,
         PopContinuation, ReplayStep, factVars
<1>2. ASSUME NEW R, requests' = requests \cup R, \A r \in R : r[2] = Inferred
      PROVE  RequiredRequests' = RequiredRequests
  <2>1. Inferred # Required
    BY DEF Inferred, Required
  <2>2. {r \in requests' : r[2] = Required} = {r \in requests : r[2] = Required}
    BY <1>2, <2>1
  <2> QED
    BY <2>2 DEF RequiredRequests, Required
<1>3. case \in Cases
  BY DEF Typed, LoopsOk
<1>4. CASE requests' = requests
  BY <1>1, <1>4 DEF RequiredRequests
<1>5. CASE PopAccepting
  <2>0. PICK o : o = Popped.at
    OBVIOUS
  <2> DEFINE it == MarkedItem(Popped)
             gone == IF Overlaps(o) /\ CanReplace(o, it) THEN Replaced(o, it) ELSE {}
             S == (starts \ gone) \cup {o}
             B == (bytes \ Extents(gone)) \cup Extent(o)
  <2>1. Decodes(o) /\ requests' = requests \cup FlowRequests(o, it, S, B)
    BY <1>5, <2>0 DEF PopAccepting
  <2> HIDE DEF it, S, B
  <2>2. \A r \in FlowRequests(o, it, S, B) : r[2] = Inferred
    BY <1>3, <2>1, FlowFactsType
  <2> QED
    BY <1>1, <1>2, <2>1, <2>2
<1>6. CASE PopContinuation
  <2>0. PICK o : o = Popped.at
    OBVIOUS
  <2> DEFINE it == MarkedItem(Popped)
  <2>1. Decodes(o) /\ requests' = requests \cup FlowRequests(o, it, starts, bytes)
    BY <1>6, <2>0 DEF PopContinuation
  <2> HIDE DEF it
  <2>2. \A r \in FlowRequests(o, it, starts, bytes) : r[2] = Inferred
    BY <1>3, <2>1, FlowFactsType
  <2> QED
    BY <1>1, <1>2, <2>1, <2>2
<1>7. CASE ReplayStep
  <2>1. PICK T : requests' = requests \/ requests' = requests \cup {<<t, Inferred>> : t \in T}
    <3>1. \/ requests' = requests
          \/ requests' = requests \cup {<<t, Inferred>> : t \in {t \in TracedTargets(replay.at, replay.trace) :
                                                                Reaches(t, starts, bytes)}}
      BY <1>7 DEF ReplayStep
    <3> QED
      BY <3>1
  <2>2. \A r \in {<<t, Inferred>> : t \in T} : r[2] = Inferred
    OBVIOUS
  <2> QED
    BY <1>1, <1>2, <1>4, <2>1, <2>2
<1> QED
  BY <1>1, <1>4, <1>5, <1>6, <1>7

LEMMA ExtentsStay ==
  ASSUME case' = case, DecodedStarts' = DecodedStarts
  PROVE  Extents(DecodedStarts)' = Extents(DecodedStarts)
<1>1. \A o : Extent(o)' = Extent(o)
  BY CaseStays
<1>2. Extents(DecodedStarts)' = UNION {Extent(o)' : o \in DecodedStarts'}
  BY DEF Extents
<1> QED
  BY <1>1, <1>2 DEF Extents

LEMMA SolvingSeeds ==
  ASSUME Typed, SeedsInv, Pop \/ ReplayStep
  PROVE  SeedsInv'
<1>1. /\ phase' = phase /\ Solving /\ case' = case
      /\ cursor < Len(items) \/ replay # NoReplay
  BY DEF Pop, PopOutside, PopPlatformCall, PopUndecodable, PopAccepted, PopRejected, PopAccepting,
         PopContinuation, Pops, ReplayStep
<1>2. Grown(TheQueue, QueueAfter) /\ (fresh' = fresh \/ fresh' # 0)
  <2>1. CASE Pop
    BY <2>1, PopOk DEF Advance
  <2>2. CASE ReplayStep
    BY <2>2, ReplayStepOk DEF Advance, ReplayStep
  <2> QED
    BY <2>1, <2>2
<1>3. RequiredRequests' = RequiredRequests /\ labels' = labels /\ passes' = passes
  BY RequestsStay
<1>4. CASE phase = "solve"
  <2>1. passes' = 0
    BY <1>3, <1>4 DEF SeedsInv, CountInv
  <2> QED
    BY <1>1, <1>4, <2>1, EarlySeeds
<1>5. CASE phase = "solve api"
  <2>1. passes + 1 <= Cardinality(High) /\ passes \in Nat
    <3>1. Busy
      BY <1>1 DEF Busy
    <3>2. CountInv
      BY DEF SeedsInv
    <3>3. passes \in Nat
      BY DEF Typed, PassesOk
    <3> QED
      BY <1>5, <3>1, <3>2, <3>3, Zenon DEF CountInv
  <2>2. passes + 1 <= Cardinality(High') /\ passes <= Cardinality(High')
    BY <1>2, <2>1, HighGrows
  <2>3. CountInv'
    BY <1>1, <1>3, <1>5, <2>2 DEF CountInv
  <2>4. ASSUME Collected', NEW B, B = Extents(DecodedStarts)' PROVE Complete(B)'
    <3>1. fresh' = 0 /\ fresh = 0
      BY <1>1, <1>2, <1>5, <2>4 DEF Collected
    <3>2. starts \subseteq starts' /\ DecodedStarts' = DecodedStarts
      <4>1. ~PopAccepting
        BY <3>1, PopAcceptingOk
      <4>2. starts' = starts \/ PopPlatformCall
        BY <4>1 DEF Pop, PopOutside, PopUndecodable, PopAccepted, PopRejected, PopContinuation, ReplayStep, mapVars
      <4>3. CASE starts' = starts
        BY <1>1, <4>3, CaseStays DEF DecodedStarts
      <4>4. CASE PopPlatformCall
        <5>1. PICK o : starts' = starts \cup {o} /\ At(o).kind = "linea"
          BY <4>4 DEF PopPlatformCall
        <5>2. ~Decodes(o)
          BY <5>1 DEF Decodes, Flows
        <5> QED
          BY <1>1, <5>1, <5>2, CaseStays DEF DecodedStarts
      <4> QED
        BY <4>2, <4>3, <4>4
    <3>3. Extents(DecodedStarts)' = Extents(DecodedStarts)
      BY <1>1, <3>2, ExtentsStay
    <3>4. Complete(B)
      BY <1>5, <2>4, <3>1, <3>3 DEF SeedsInv, Collected
    <3>5. ASSUME NEW o, o \in Seedable(B)' PROVE queued'[o] >= Inferred
      <4>1. o \in Seedable(B) /\ o \in Offsets
        BY <1>1, <1>3, <3>2, <3>5, SeedableStays, SeedableAreOffsets
      <4>2. queued[o] >= Inferred
        BY <1>5, <3>4, <4>1 DEF Complete
      <4> QED
        BY <1>2, <4>1, <4>2, HighGrows
    <3>6. Inferred' = Inferred
      BY DEF Inferred
    <3> QED
      BY <3>5, <3>6 DEF Complete
  <2> QED
    BY <2>3, <2>4 DEF SeedsInv
<1> QED
  BY <1>1, <1>4, <1>5 DEF Solving

LEMMA SolvedSeeds == ASSUME Typed, SeedsInv, Solved PROVE SeedsInv'
<1>1. /\ UNCHANGED <<case, starts, queued, items, cursor, labels, requests, replay, fresh, passes>>
      /\ Solving /\ replay = NoReplay /\ cursor = Len(items)
      /\ phase' = IF phase = "solve" THEN "labels" ELSE "rebuild api"
  BY DEF Solved, queueVars, mapVars, factVars
<1>2. CASE phase = "solve"
  <2>1. passes' = 0
    BY <1>1, <1>2 DEF SeedsInv, CountInv
  <2> QED
    BY <1>1, <1>2, <2>1, EarlySeeds
<1>3. CASE phase = "solve api"
  <2>1. High' = High
    BY <1>1 DEF High, Inferred
  <2>2. CountInv'
    BY <1>1, <1>3, <2>1 DEF SeedsInv, CountInv, Busy
  <2>3. RequiredRequests' = RequiredRequests
    BY <1>1 DEF RequiredRequests
  <2>4. ASSUME Collected', NEW B, B = Extents(DecodedStarts)' PROVE Complete(B)'
    <3>1. Extents(DecodedStarts)' = Extents(DecodedStarts)
      BY <1>1, MapAfter DEF Instructions, DecodedStarts
    <3>2. Complete(B)
      BY <1>1, <1>3, <2>4, <3>1 DEF SeedsInv, Collected
    <3>3. \A o : o \in Seedable(B)' => o \in Seedable(B)
      BY <1>1, <2>3, SeedableStays
    <3> QED
      BY <1>1, <1>3, <3>2, <3>3 DEF Complete, Inferred
  <2> QED
    BY <2>2, <2>4 DEF SeedsInv
<1> QED
  BY <1>1, <1>2, <1>3 DEF Solving

\* The passes end because there was nothing new, not because they were many.
LEMMA RebuildSeeds == ASSUME Typed, SeedsInv, Rebuild PROVE SeedsInv'
<1>1. /\ UNCHANGED <<case, starts, queued, items, cursor, requests, replay, fresh>>
      /\ phase \in {"rebuild", "rebuild api"} /\ phase' \in {"failed", "seed", "prune"}
  BY DEF Rebuild, queueVars
<1>2. High' = High
  BY <1>1 DEF High, Inferred
<1>3. CASE phase' = "failed"
  BY <1>3, LateSeeds
<1>4. CASE phase = "rebuild" /\ phase' # "failed"
  <2>1. passes' = passes /\ phase' = "seed"
    BY <1>4 DEF Rebuild
  <2>2. passes = 0 /\ Cardinality(High) \in Nat
    BY <1>4, HighIsFinite DEF SeedsInv, CountInv
  <2>3. CountInv'
    BY <1>2, <2>1, <2>2 DEF CountInv
  <2>4. ~Collected'
    BY <2>1 DEF Collected
  <2> QED
    BY <2>3, <2>4 DEF SeedsInv
<1>5. CASE phase = "rebuild api" /\ phase' # "failed"
  <2>1. /\ passes' = passes + 1 /\ labels' = labels
        /\ phase' = IF fresh = 0 \/ passes > Size THEN "prune" ELSE "seed"
    BY <1>5 DEF Rebuild
  <2>2. fresh # 0 => passes + 1 <= Cardinality(High)
    BY <1>5 DEF SeedsInv, CountInv, Busy
  <2>3. Cardinality(High) \in Nat /\ Cardinality(High) <= Size /\ Size \in Nat /\ passes \in Nat
    BY HighIsFinite, Constants DEF Typed, PassesOk
  <2>4. fresh # 0 => phase' = "seed" /\ passes' <= Cardinality(High)
    <3>1. fresh # 0 => ~(passes > Size)
      BY <2>2, <2>3
    <3> QED
      BY <2>1, <2>2, <3>1
  <2>5. CASE fresh # 0
    <3>1. CountInv'
      BY <1>2, <2>4, <2>5 DEF CountInv
    <3>2. ~Collected'
      BY <2>4, <2>5 DEF Collected
    <3> QED
      BY <3>1, <3>2 DEF SeedsInv
  <2>6. CASE fresh = 0
    <3>1. phase' = "prune"
      BY <2>1, <2>6
    <3>2. CountInv'
      BY <3>1 DEF CountInv
    <3>3. RequiredRequests' = RequiredRequests
      BY <1>1 DEF RequiredRequests
    <3>4. ASSUME NEW B, B = Extents(DecodedStarts)' PROVE Complete(B)'
      <4>1. Extents(DecodedStarts)' = Extents(DecodedStarts)
        BY <1>1, MapAfter DEF Instructions, DecodedStarts
      <4>2. Complete(B)
        BY <1>5, <2>6, <3>4, <4>1 DEF SeedsInv, Collected
      <4>3. \A o : o \in Seedable(B)' => o \in Seedable(B)
        BY <1>1, <2>1, <3>3, SeedableStays
      <4> QED
        BY <1>1, <1>5, <4>2, <4>3 DEF Complete, Inferred
    <3> QED
      BY <3>2, <3>4 DEF SeedsInv
  <2> QED
    BY <2>5, <2>6
<1> QED
  BY <1>1, <1>3, <1>4, <1>5

LEMMA SeedEntriesSeeds == ASSUME Typed, SeedsInv, OverlapInv, SeedEntries PROVE SeedsInv'
<1>1. /\ UNCHANGED <<case, starts, bytes, queued, items, cursor, labels, requests, replay, passes>>
      /\ phase = "seed"
      /\ todo' = {<<o, "linkage">> : o \in LinkageEntries(bytes)} \cup {<<o, "boundary">> : o \in BoundaryEntries(bytes)}
      /\ phase' = IF todo' = {} THEN "prune" ELSE "seeding"
  BY DEF SeedEntries, queueVars, mapVars, factVars
<1>2. High' = High
  BY <1>1 DEF High, Inferred
<1>3. cursor = Len(items) /\ replay = NoReplay
  BY <1>1 DEF Typed, StageOk, Solving
<1>4. CountInv'
  <2>1. phase' = "seeding" => ~Busy'
    BY <1>1, <1>3 DEF Busy
  <2>2. passes' <= Cardinality(High')
    BY <1>1, <1>2 DEF SeedsInv, CountInv
  <2> QED
    BY <1>1, <2>1, <2>2 DEF CountInv
<1>5. bytes = Extents(DecodedStarts) /\ Extents(DecodedStarts)' = Extents(DecodedStarts)
  <2>1. bytes = Extents(DecodedStarts)
    BY <1>1 DEF OverlapInv
  <2> QED
    BY <1>1, <2>1, MapAfter DEF Instructions, DecodedStarts
<1>6. RequiredRequests' = RequiredRequests
  BY <1>1 DEF RequiredRequests
<1>7. ASSUME NEW B, B = Extents(DecodedStarts)' PROVE Complete(B)'
  <2>1. B = bytes /\ \A o : o \in Seedable(B)' => o \in Seedable(B)
    BY <1>1, <1>5, <1>6, <1>7, SeedableStays
  <2>2. ASSUME NEW o \in Seedable(B) PROVE phase' = "seeding" /\ \E s \in todo' : s[1] = o
    <3>1. <<o, "linkage">> \in todo' \/ <<o, "boundary">> \in todo'
      BY <1>1, <2>1, <2>2 DEF Seedable
    <3> QED
      BY <1>1, <3>1
  <2> QED
    BY <2>1, <2>2 DEF Complete
<1> QED
  BY <1>4, <1>7 DEF SeedsInv

LEMMA SeedEntrySeeds == ASSUME Typed, SeedsInv, NEW s \in todo, SeedEntry(s) PROVE SeedsInv'
<1>1. /\ UNCHANGED <<case, starts, cursor, labels, requests, replay, passes>>
      /\ phase = "seeding" /\ todo' = todo \ {s} /\ fresh' = 0
      /\ phase' = IF todo = {s} THEN "solve api" ELSE phase
      /\ TakesQueue(Enqueue(TheQueue, SeedItem(s)))
  BY DEF SeedEntry, SeedItem, mapVars, factVars
<1>2. s \in Seeds /\ QueueInv(TheQueue) /\ cursor \in 0 .. Len(items)
  BY <1>1 DEF Typed, LoopsOk, QueueOk
<1>3. /\ SeedItem(s) \in Items /\ SeedItem(s).conf = Inferred /\ SeedItem(s).conf \in Weaker
      /\ SeedItem(s).at = s[1] /\ SeedItem(s).variant = 0 /\ s[1] \in Offsets
  BY <1>2, SeedItemType
<1>4. Grown(TheQueue, QueueAfter)
  BY <1>1, SeedEntryOk DEF Advance, SeedEntry
<1>5. queued'[s[1]] >= Inferred /\ (items' # items => queued[s[1]] < Inferred)
  <2>1. TheQueue.items = items /\ TheQueue.queued = queued
    BY DEF TheQueue
  <2>2. Enqueue(TheQueue, SeedItem(s)).items = items' /\ Enqueue(TheQueue, SeedItem(s)).queued = queued'
    BY <1>1 DEF TakesQueue
  <2> QED
    BY <1>2, <1>3, <2>1, <2>2, EnqueueAdds
<1>6. /\ Cardinality(High) <= Cardinality(High') /\ Cardinality(High) \in Nat /\ Cardinality(High') \in Nat
      /\ High \subseteq High' /\ \A o \in Offsets : queued[o] >= Inferred => queued'[o] >= Inferred
  BY <1>4, HighGrows
<1>7. items' # items => Cardinality(High) + 1 <= Cardinality(High')
  <2> SUFFICES ASSUME items' # items PROVE Cardinality(High) + 1 <= Cardinality(High')
    OBVIOUS
  <2>1. queued[s[1]] \in Nat /\ Inferred \in Nat
    <3>1. TheQueue.queued = queued /\ QueueTyped(TheQueue)
      BY <1>2 DEF TheQueue, QueueInv
    <3> QED
      BY <1>3, <3>1, QueueNumbers DEF Inferred
  <2>2. s[1] \notin High
    BY <1>5, <2>1 DEF High
  <2>3. s[1] \in High'
    BY <1>3, <1>5 DEF High, Inferred
  <2>4. High' \subseteq Offsets
    BY DEF High
  <2>5. IsFiniteSet(High') /\ IsFiniteSet(High)
    BY <2>4, StartsAreFew, HighIsFinite
  <2>6. Cardinality(High \cup {s[1]}) = Cardinality(High) + 1
    BY <2>2, <2>5, FS_AddElement
  <2>7. High \cup {s[1]} \subseteq High'
    BY <1>6, <2>3
  <2>8. Cardinality(High \cup {s[1]}) <= Cardinality(High')
    BY <2>5, <2>7, FS_Subset
  <2> QED
    BY <2>6, <2>8
<1>8. passes \in Nat /\ passes' = passes
  <2>1. passes \in Nat
    BY DEF Typed, PassesOk
  <2> QED
    BY <1>1, <2>1
<1>11. phase' \in {"seeding", "solve api"}
  BY <1>1
<1>9. CountInv'
  <2>1. CountInv
    BY DEF SeedsInv
  <2>2. passes <= Cardinality(High)
    BY <1>1, <2>1 DEF CountInv
  <2>3. passes' <= Cardinality(High')
    BY <1>6, <1>8, <2>2
  <2>4. ASSUME Busy' PROVE passes' + 1 <= Cardinality(High')
    <3>1. cursor < Len(items) \/ replay # NoReplay \/ items' # items
      BY <1>1, <2>4 DEF Busy, NoReplay, Nowhere, Unknown
    <3>2. CASE items' # items
      BY <1>6, <1>7, <1>8, <2>2, <3>2
    <3>3. CASE cursor < Len(items) \/ replay # NoReplay
      <4>1. Busy
        BY <3>3 DEF Busy
      <4>2. passes + 1 <= Cardinality(High)
        BY <1>1, <2>1, <4>1, Zenon DEF CountInv
      <4> QED
        BY <1>6, <1>8, <4>2
    <3> QED
      BY <3>1, <3>2, <3>3
  <2>5. phase' \notin {"entries", "solve", "labels", "relocations", "rebuild"}
    BY <1>11
  <2> QED
    BY <2>3, <2>4, <2>5, Zenon DEF CountInv
<1>10. ASSUME NEW B, B = Extents(DecodedStarts)' PROVE Complete(B)'
  <2>1. RequiredRequests' = RequiredRequests
    BY <1>1 DEF RequiredRequests
  <2>2. DecodedStarts' = DecodedStarts
    BY <1>1, CaseStays DEF DecodedStarts
  <2>3. Complete(B)
    BY <1>1, <1>10, <2>2, ExtentsStay DEF SeedsInv, Collected
  <2>4. ASSUME NEW o, o \in Seedable(B)'
        PROVE  queued'[o] >= Inferred \/ (phase' = "seeding" /\ \E t \in todo' : t[1] = o)
    <3>1. o \in Seedable(B) /\ o \in Offsets
      BY <1>1, <2>1, <2>4, SeedableStays, SeedableAreOffsets
    <3>2. CASE queued[o] >= Inferred
      BY <1>6, <3>1, <3>2
    <3>3. CASE \E t \in todo : t[1] = o
      <4>1. PICK t \in todo : t[1] = o
        BY <3>3
      <4>2. CASE t = s
        BY <1>5, <4>1, <4>2
      <4>3. CASE t # s
        BY <1>1, <4>1, <4>3
      <4> QED
        BY <4>2, <4>3
    <3> QED
      BY <2>3, <3>1, <3>2, <3>3 DEF Complete
  <2>5. Inferred' = Inferred
    BY DEF Inferred
  <2> QED
    BY <2>4, <2>5 DEF Complete
<1> QED
  BY <1>9, <1>10 DEF SeedsInv

LEMMA IdleSeeds == ASSUME SeedsInv, UNCHANGED vars PROVE SeedsInv'
<1>1. /\ UNCHANGED <<case, phase, starts, queued, items, cursor, labels, requests, replay, passes, fresh, todo>>
  BY DEF vars, queueVars, mapVars, factVars
<1>2. High' = High
  BY <1>1 DEF High, Inferred
<1>3. CountInv'
  BY <1>1, <1>2 DEF SeedsInv, CountInv, Busy
<1>4. ASSUME Collected', NEW B, B = Extents(DecodedStarts)' PROVE Complete(B)'
  <2>1. RequiredRequests' = RequiredRequests
    BY <1>1 DEF RequiredRequests
  <2>2. DecodedStarts' = DecodedStarts
    BY <1>1, CaseStays DEF DecodedStarts
  <2>3. Complete(B)
    BY <1>1, <1>4, <2>2, ExtentsStay DEF SeedsInv, Collected
  <2>4. \A o : o \in Seedable(B)' => o \in Seedable(B)
    BY <1>1, <2>1, SeedableStays
  <2> QED
    BY <1>1, <2>3, <2>4 DEF Complete, Inferred
<1> QED
  BY <1>3, <1>4 DEF SeedsInv

\* Before the passes nothing counts them.
LEMMA EarlyStays ==
  ASSUME SeedsInv, phase \in {"entries", "solve", "labels", "relocations", "rebuild"}, passes' = passes,
         phase' \in {"entries", "solve", "labels", "relocations", "rebuild"}
  PROVE  SeedsInv'
<1>1. passes' = 0
  BY DEF SeedsInv, CountInv
<1> QED
  BY <1>1, EarlySeeds

LEMMA NextSeeds == ASSUME Typed, OverlapInv, SeedsInv, [Next]_vars PROVE SeedsInv'
<1>1. CASE \E e \in todo : SeedRequired(e)
  BY <1>1, EarlyStays DEF SeedRequired
<1>2. CASE Seeded
  BY <1>2, EarlyStays DEF Seeded
<1>3. CASE Pop \/ ReplayStep
  BY <1>3, SolvingSeeds
<1>4. CASE Solved
  BY <1>4, SolvedSeeds
<1>5. CASE \E o \in todo : DemoteLabel(o)
  BY <1>5, EarlyStays DEF DemoteLabel
<1>6. CASE \E at \in todo : DemoteRelocation(at)
  BY <1>6, EarlyStays DEF DemoteRelocation
<1>7. CASE LabelsDemoted \/ RelocationsDemoted
  BY <1>7, EarlyStays DEF LabelsDemoted, RelocationsDemoted
<1>8. CASE Rebuild
  BY <1>8, RebuildSeeds
<1>9. CASE SeedEntries
  BY <1>9, SeedEntriesSeeds
<1>10. CASE \E s \in todo : SeedEntry(s)
  BY <1>10, SeedEntrySeeds
<1>11. CASE Prune
  BY <1>11, LateSeeds DEF Prune
<1>12. CASE Finished \/ UNCHANGED vars
  BY <1>12, IdleSeeds DEF Finished
<1> QED
  BY <1>1, <1>2, <1>3, <1>4, <1>5, <1>6, <1>7, <1>8, <1>9, <1>10, <1>11, <1>12 DEF Next

\* The passes over wrappers end at a fixed point, not at their limit: whatever
\* could be seeded when the analysis prunes was queued as a seed, and refused.
THEOREM SeedingCompletes == Spec => []SeedingIsComplete
<1>1. Init => SeedsInv
  BY DEF Init, SeedsInv, CountInv, Collected
<1>2. Typed /\ OverlapInv /\ SeedsInv /\ [Next]_vars => SeedsInv'
  BY NextSeeds
<1>3. OverlapInv /\ SeedsInv => SeedingIsComplete
  <2> SUFFICES ASSUME OverlapInv, SeedsInv, phase = "prune", NEW o \in LinkageEntries(bytes) \cup BoundaryEntries(bytes)
               PROVE  queued[o] >= Inferred
    BY DEF SeedingIsComplete
  <2>1. bytes = Extents(DecodedStarts)
    BY DEF OverlapInv
  <2>2. Complete(bytes)
    BY <2>1 DEF SeedsInv, Collected
  <2> QED
    BY <2>2 DEF Complete, Seedable
<1> QED
  BY <1>1, <1>2, <1>3, AlwaysTyped, AlwaysOverlap, PTL DEF Spec

=============================================================================
