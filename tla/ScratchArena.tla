---------------------------- MODULE ScratchArena -----------------------------
(***************************************************************************)
(* Callers of an arena as the native code has them: objects are allocated, *)
(* copied and written, scopes are opened by arena_mark and left by         *)
(* arena_rewind in the opposite order, or left without it on the paths     *)
(* that keep what they made.                                               *)
(***************************************************************************)
EXTENDS Arena

CONSTANTS
  Sizes,      \* sizes that are asked for
  Counts,     \* the "count" of arena_calloc
  MaxLive,    \* bound: objects at a time
  MaxDepth    \* bound: scopes at a time

\* Sizes and counts are of type size_t.
CallersAssumption ==
  /\ Sizes \subseteq 0 .. SizeMod - 1 /\ Counts \subseteq 0 .. SizeMod - 1
  /\ MaxDepth \in Nat
ASSUME CallersAssumption

VARIABLES
  live,   \* the objects their owners may still use
  marks   \* the marks of the open scopes; "saved" is the chain they saw

scratchVars == <<arenaVars, live, marks>>

Depth == Len(marks)
Handle(o) == [at |-> o.at, from |-> o.from]
Held(o) == [i \in 0 .. o.size - 1 |-> memory[o.at][o.from + i]]

\* The caller gets n bytes and writes contents to them.
Take(n, contents) ==
  /\ Cardinality(live) < MaxLive
  /\ \E h \in Places(n) :
       /\ Alloc(n, h, contents)
       /\ live' = live \cup {[at |-> h.at, from |-> h.from, size |-> n, depth |-> Depth]}
  /\ UNCHANGED marks

AllocRaw == \E n \in Sizes : Take(n, << >>)

\* arena_calloc, whose product may not wrap around
Calloc ==
  \E count \in Counts, size \in Sizes :
    /\ count # 0 => size <= (SizeMod - 1) \div count
    /\ Take((count * size) % SizeMod, [i \in 0 .. count * size - 1 |-> Zero])

\* arena_memdup: a copy of nothing is one byte
MemdupNothing == Take(1, << >>)
Memdup == \E o \in live : Take(o.size, Held(o))

\* arena_realloc_copy: the old object stays
ReallocCopy ==
  \E o \in live, n \in Sizes :
    Take(n, [i \in 0 .. (IF o.size < n THEN o.size ELSE n) - 1 |-> Held(o)[i]])

\* arena_strndup
Strndup ==
  \E n \in Sizes : Take((n + 1) % SizeMod, [i \in 0 .. n |-> IF i = n THEN Zero ELSE Junk])

Fill ==
  \E o \in live, v \in Values \ {Junk} :
    /\ memory' = Filled(memory, Handle(o), [i \in 0 .. o.size - 1 |-> v])
    /\ UNCHANGED <<chain, current, stats, live, marks>>

OpenScope ==
  /\ Depth < MaxDepth
  /\ marks' = Append(marks, [mark |-> TakenMark, saved |-> chain])
  /\ UNCHANGED <<arenaVars, live>>

CloseScope ==
  /\ Depth > 0
  /\ Rewind(marks[Depth].mark)
  /\ marks' = SubSeq(marks, 1, Depth - 1)
  /\ live' = {o \in live : o.depth < Depth}

KeepScope ==
  /\ Depth > 0
  /\ marks' = SubSeq(marks, 1, Depth - 1)
  /\ live' = {[o EXCEPT !.depth = IF @ = Depth THEN @ - 1 ELSE @] : o \in live}
  /\ UNCHANGED arenaVars

\* arena_reset, when the owner starts again
StartAgain == Reset /\ live' = {} /\ marks' = <<>>

Init == InitArena /\ live = {} /\ marks = <<>>
Next ==
  \/ AllocRaw \/ Calloc \/ MemdupNothing \/ Memdup \/ ReallocCopy \/ Strndup \/ Fill
  \/ OpenScope \/ CloseScope \/ KeepScope \/ StartAgain
Spec == Init /\ [][Next]_scratchVars

---------------------------------------------------------------------------
(* Properties                                                              *)
TypeOK ==
  /\ ArenaTypeOK
  /\ live \subseteq [at : Blocks, from : Cells, size : 1 .. MaxBlock, depth : 0 .. MaxDepth]
  /\ marks \in Seq([mark : Mark, saved : Seq(Block)])

\* Leaving a scope by arena_rewind gives back exactly what the scope took:
\* the blocks and their fill are those of the moment it was opened, however
\* much was allocated, nested, kept or reallocated since.
RewindRestores ==
  [][CloseScope => chain' = marks[Depth].saved /\ current' = Len(chain')]_scratchVars

\* What the live objects hold, by handle, and the objects of every open scope.
Contents == [h \in {Handle(o) : o \in live} |-> Held(CHOOSE o \in live : Handle(o) = h)]
ScopeObjects == [d \in 1 .. Depth + 1 |-> {Handle(o) : o \in {o \in live : o.depth = d - 1}}]

\* The objects hold what was written to them and belong to one owner until
\* their scope is left: the arena implements scratch memory.
Scratch == INSTANCE ScratchMemory WITH contents <- Contents, scopes <- ScopeObjects
ImplementsScratch == Scratch!Spec

=============================================================================
