-------------------------------- MODULE Arena --------------------------------
(***************************************************************************)
(* The arena of the native code (src/src/util_arena.c): a chain of blocks  *)
(* from malloc, filled from the front, given back from the back by marks.  *)
(*                                                                         *)
(* The operators Alloc, Rewind and Reset are what the functions do to the  *)
(* variables of one arena; the modules that extend this one bring the      *)
(* callers.  A call of malloc returns any address that is not in use, one  *)
(* that was freed before included.  Memory is modelled by cell, so that    *)
(* what an object holds can be compared with what was written to it.       *)
(***************************************************************************)
EXTENDS Naturals, Sequences, FiniteSets

CONSTANTS
  Blocks,         \* addresses malloc may return
  BlockSize,      \* default_block_size
  MaxBlock,       \* the largest block malloc can provide
  MaxBlocks,      \* bound: blocks a run takes from malloc
  Alignment,      \* ARENA_ALIGNMENT
  SizeMod,        \* SIZE_MAX + 1
  Values,         \* what a cell can hold
  Zero,           \* the value memset(.., 0, ..) leaves
  Junk,           \* what a cell holds that nobody has written
  Poisons         \* is it a debug build, which overwrites what is given back

ArenaAssumption ==
  /\ BlockSize \in Nat \ {0} /\ MaxBlock \in Nat /\ BlockSize <= MaxBlock /\ MaxBlocks \in Nat \ {0}
  /\ Alignment \in Nat \ {0} /\ SizeMod \in Nat /\ SizeMod > MaxBlock /\ SizeMod % Alignment = 0
  /\ BlockSize % Alignment = 0
  /\ Zero \in Values /\ Junk \in Values
  /\ Poisons \in BOOLEAN
ASSUME ArenaAssumption

VARIABLES
  chain,     \* the blocks from arena->head: address, capacity, used
  current,   \* which of them is arena->current
  memory,    \* what every cell of every block holds
  stats      \* the counters of arena_stats

arenaVars == <<chain, current, memory, stats>>

Cells == 0 .. MaxBlock - 1
Block == [at : Blocks, capacity : 1 .. MaxBlock, used : 0 .. MaxBlock]
Mark == [at : Blocks, used : 0 .. MaxBlock]

Addresses(c) == {c[i].at : i \in DOMAIN c}
SizeOf(field, c) ==
  LET total[k \in 0 .. Len(c)] == IF k = 0 THEN 0 ELSE total[k - 1] + c[k][field]
  IN  total[Len(c)]
Greater(a, b) == IF a > b THEN a ELSE b

InitArena ==
  /\ \E b \in Blocks : chain = <<[at |-> b, capacity |-> BlockSize, used |-> 0]>>
  /\ current = 1
  /\ memory = [b \in Blocks |-> [i \in Cells |-> Junk]]
  /\ stats = [used |-> 0, peakUsed |-> 0, capacity |-> BlockSize, peakCapacity |-> BlockSize,
              blocks |-> 1, total |-> 1]

---------------------------------------------------------------------------
(* arena_alloc                                                             *)

\* The addition wraps around.
AlignUp(n) == LET up == (n + Alignment - 1) % SizeMod IN up - (up % Alignment)
Refused(n) == n = 0 \/ AlignUp(n) < n
Fits(n) == AlignUp(n) <= chain[current].capacity - chain[current].used
NewCapacity(n) == Greater(AlignUp(n), BlockSize)

Filled(m, h, contents) ==
  [m EXCEPT ![h.at] = [i \in Cells |-> IF i - h.from \in DOMAIN contents THEN contents[i - h.from] ELSE @[i]]]

\* The pointer returned is h, and the caller writes its contents there.
Alloc(n, h, contents) ==
  /\ ~Refused(n)
  /\ memory' = Filled(memory, h, contents)
  /\ \/ /\ Fits(n)
        /\ h = [at |-> chain[current].at, from |-> chain[current].used]
        /\ chain' = [chain EXCEPT ![current].used = @ + AlignUp(n)]
        /\ stats' = [stats EXCEPT !.used = @ + AlignUp(n),
                                  !.peakUsed = Greater(@, stats.used + AlignUp(n))]
        /\ UNCHANGED current
     \/ /\ ~Fits(n) /\ NewCapacity(n) <= MaxBlock
        /\ h.at \in Blocks \ Addresses(chain) /\ h.from = 0
        /\ chain' = Append(SubSeq(chain, 1, current),
                           [at |-> h.at, capacity |-> NewCapacity(n), used |-> AlignUp(n)])
        /\ current' = current + 1
        /\ stats' = [used |-> stats.used + AlignUp(n),
                     peakUsed |-> Greater(stats.peakUsed, stats.used + AlignUp(n)),
                     capacity |-> stats.capacity + NewCapacity(n),
                     peakCapacity |-> Greater(stats.peakCapacity, stats.capacity + NewCapacity(n)),
                     blocks |-> stats.blocks + 1,
                     total |-> stats.total + 1]
        /\ stats.total < MaxBlocks

\* Where the next object can be.
Places(n) ==
  IF Fits(n) THEN {[at |-> chain[current].at, from |-> chain[current].used]}
  ELSE [at : Blocks \ Addresses(chain), from : {0}]

---------------------------------------------------------------------------
(* arena_mark, arena_rewind, arena_reset                                   *)
MarkOfBlock == [at |-> chain[current].at, used |-> 0]
TakenMark == [at |-> chain[current].at, used |-> chain[current].used]

\* arena_poison_range on what is given back of the last block kept;
\* arena_block_chain_destroy on the blocks behind it.
Poisoned(kept, used) ==
  [b \in Blocks |-> [i \in Cells |->
     IF \/ \E k \in DOMAIN chain : k > kept /\ chain[k].at = b
        \/ Poisons /\ b = chain[kept].at /\ used <= i /\ i < chain[kept].used
     THEN Junk ELSE memory[b][i]]]

\* arena_refresh_current_stats
Refreshed(c) == [stats EXCEPT !.used = SizeOf("used", c), !.capacity = SizeOf("capacity", c), !.blocks = Len(c)]

\* What a rewind that forgets to drop the later blocks would do; what a reset
\* that forgets the current block, or the capacity, would do.
RewindUsedOnly(mark) ==
  IF mark.at \notin Addresses(chain) THEN UNCHANGED arenaVars
  ELSE \E k \in DOMAIN chain :
         LET used == IF mark.used > chain[k].capacity THEN chain[k].capacity ELSE mark.used IN
         /\ chain[k].at = mark.at
         /\ memory' = memory
         /\ chain' = [chain EXCEPT ![k].used = used]
         /\ current' = k
         /\ stats' = Refreshed(chain')

ResetInPlace ==
  /\ memory' = Poisoned(1, 0)
  /\ chain' = <<[chain[1] EXCEPT !.used = 0]>>
  /\ current' = current
  /\ stats' = [stats EXCEPT !.used = 0, !.capacity = chain[1].capacity, !.blocks = 1]

ResetUsedOnly ==
  /\ memory' = Poisoned(1, 0)
  /\ chain' = <<[chain[1] EXCEPT !.used = 0]>>
  /\ current' = 1
  /\ stats' = [stats EXCEPT !.used = 0, !.blocks = 1]

\* A mark of a block that is not in the chain has no effect; a mark beyond
\* what is used moves the end of the block forward.
Rewind(mark) ==
  IF mark.at \notin Addresses(chain) THEN UNCHANGED arenaVars
  ELSE \E k \in DOMAIN chain :
         LET used == IF mark.used > chain[k].capacity THEN chain[k].capacity ELSE mark.used IN
         /\ chain[k].at = mark.at
         /\ memory' = Poisoned(k, used)
         /\ chain' = SubSeq([chain EXCEPT ![k].used = used], 1, k)
         /\ current' = k
         /\ stats' = Refreshed(chain')

Reset ==
  /\ memory' = Poisoned(1, 0)
  /\ chain' = <<[chain[1] EXCEPT !.used = 0]>>
  /\ current' = 1
  /\ stats' = [stats EXCEPT !.used = 0, !.capacity = chain[1].capacity, !.blocks = 1]

---------------------------------------------------------------------------
ArenaTypeOK ==
  /\ chain \in Seq(Block) /\ current \in DOMAIN chain
  /\ memory \in [Blocks -> [Cells -> Values]]
  /\ stats \in [used : Nat, peakUsed : Nat, capacity : Nat, peakCapacity : Nat, blocks : Nat, total : Nat]

\* The counters that are kept up step by step are those of the chain, after
\* any mixture of growth, rewinds and resets: what the profiles report as
\* memory in use and at its peak.
StatsAreExact ==
  /\ stats.used = SizeOf("used", chain) /\ stats.capacity = SizeOf("capacity", chain)
  /\ stats.blocks = Len(chain) /\ stats.blocks <= stats.total
  /\ stats.used <= stats.peakUsed /\ stats.peakUsed <= stats.peakCapacity
  /\ stats.capacity <= stats.peakCapacity

=============================================================================
