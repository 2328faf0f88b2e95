------------------------ MODULE ScratchArena_proofs --------------------------
(***************************************************************************)
(* Proofs about ScratchArena, for every size of blocks, alignment, width   *)
(* of sizes and number of objects and scopes: a rewind gives back exactly  *)
(* what the scope took, and the arena implements scratch memory.           *)
(*                                                                         *)
(* The chain a mark has seen is a beginning of every later chain until the *)
(* mark is rewound: only the end of the last block it saw moves, and only  *)
(* forward (Extends).  An object lies within what was used when its scope  *)
(* was the innermost one (Within).  The two together say that a rewind     *)
(* takes back the objects of its scope and touches no other.               *)
(***************************************************************************)
EXTENDS ScratchArena, WellFoundedInduction, TLAPS

\* An object lies in the used part of a chain.
Within(o, c) == \E k \in DOMAIN c : c[k].at = o.at /\ o.from + o.size <= c[k].used

\* Chain c is chain s with more in its last block, or behind it.
Extends(s, c) ==
  /\ 1 <= Len(s) /\ Len(s) <= Len(c)
  /\ \A i \in 1 .. Len(s) - 1 : c[i] = s[i]
  /\ c[Len(s)].at = s[Len(s)].at /\ c[Len(s)].capacity = s[Len(s)].capacity
  /\ s[Len(s)].used <= c[Len(s)].used

Chains ==
  {c \in Seq(Block) : /\ Len(c) > 0
                      /\ \A k \in DOMAIN c : c[k].used <= c[k].capacity
                      /\ \A i, j \in DOMAIN c : c[i].at = c[j].at => i = j}

Apart(o, p) == o.at # p.at \/ o.from + o.size <= p.from \/ p.from + p.size <= o.from

Objects == [at : Blocks, from : Cells, size : 1 .. MaxBlock, depth : 0 .. MaxDepth]
Scopes == [mark : Mark, saved : Chains]

Chained == chain \in Chains /\ current = Len(chain) /\ memory \in [Blocks -> [Cells -> Values]]
Placed ==
  /\ live \subseteq Objects
  /\ \A o \in live : Within(o, chain) /\ o.depth <= Depth
  /\ \A o, p \in live : o # p => Apart(o, p)
Nested ==
  /\ marks \in Seq(Scopes) /\ Depth <= MaxDepth
  /\ \A d \in 1 .. Depth :
       /\ marks[d].mark.at = marks[d].saved[Len(marks[d].saved)].at
       /\ marks[d].mark.used = marks[d].saved[Len(marks[d].saved)].used
       /\ Extends(marks[d].saved, chain)
       /\ \A e \in 1 .. Depth : d < e => Extends(marks[d].saved, marks[e].saved)
       /\ \A o \in live : o.depth < d => Within(o, marks[d].saved)

\* The inductive invariant.
ScratchInv == Chained /\ Placed /\ Nested

-----------------------------------------------------------------------------
(* Sizes                                                                   *)

\* AlignUp gives at least what was asked for, or the request is refused.
LEMMA Aligned ==
  ASSUME NEW n \in 0 .. SizeMod - 1, ~Refused(n)
  PROVE  AlignUp(n) \in Nat /\ n <= AlignUp(n) /\ n > 0
<1>1. /\ Alignment \in Nat \ {0} /\ SizeMod \in Nat \ {0}
  BY ArenaAssumption DEF ArenaAssumption
<1> DEFINE up == (n + Alignment - 1) % SizeMod
<1>2. up \in Nat
  BY <1>1
<1>3. up % Alignment \in Nat /\ up % Alignment <= up
  BY <1>1, <1>2
<1>4. AlignUp(n) = up - (up % Alignment)
  BY DEF AlignUp
<1> HIDE DEF up
<1> QED
  BY <1>1, <1>2, <1>3, <1>4 DEF Refused

-----------------------------------------------------------------------------
(* Chains                                                                  *)
LEMMA ChainType ==
  ASSUME NEW c \in Chains
  PROVE  /\ Len(c) \in Nat \ {0} /\ DOMAIN c = 1 .. Len(c)
         /\ \A k \in 1 .. Len(c) : c[k] \in Block
         /\ \A k \in 1 .. Len(c) : c[k].at \in Blocks /\ c[k].capacity \in 1 .. MaxBlock /\ c[k].used \in Nat
         /\ \A k \in 1 .. Len(c) : c[k].used <= c[k].capacity /\ c[k].used <= MaxBlock
<1>1. MaxBlock \in Nat
  BY ArenaAssumption DEF ArenaAssumption
<1>2. c \in Seq(Block) /\ Len(c) > 0
  BY DEF Chains
<1>3. \A k \in 1 .. Len(c) : c[k] \in Block
  BY <1>2
<1>4. \A k \in 1 .. Len(c) : c[k].used <= c[k].capacity
  BY <1>2 DEF Chains
<1> QED
  BY <1>1, <1>2, <1>3, <1>4 DEF Block

LEMMA ExtendsItself == ASSUME NEW c \in Chains PROVE Extends(c, c)
BY ChainType DEF Extends

\* What lies within a chain lies within its extensions.
LEMMA ExtensionsKeep ==
  ASSUME NEW s \in Chains, NEW c \in Chains, Extends(s, c),
         NEW o \in Objects, Within(o, s)
  PROVE  Within(o, c)
<1>1. PICK k \in 1 .. Len(s) : s[k].at = o.at /\ o.from + o.size <= s[k].used
  BY ChainType DEF Within
<1>2. k \in DOMAIN c /\ c[k].at = s[k].at /\ s[k].used <= c[k].used
  <2>1. /\ Len(s) \in Nat \ {0} /\ Len(c) \in Nat /\ DOMAIN c = 1 .. Len(c) /\ s[k].used \in Nat
    BY ChainType
  <2>2. CASE k = Len(s)
    BY <2>1, <2>2 DEF Extends
  <2>3. CASE k # Len(s)
    <3>1. k \in 1 .. Len(s) - 1
      BY <2>1, <2>3
    <3> QED
      BY <2>1, <3>1 DEF Extends
  <2> QED
    BY <2>2, <2>3
<1>3. o.from + o.size \in Nat
  BY ArenaAssumption DEF ArenaAssumption, Objects, Cells
<1>4. s[k].used \in Nat /\ c[k].used \in Nat
  BY <1>2, ChainType
<1> QED
  BY <1>1, <1>2, <1>3, <1>4 DEF Within

LEMMA ExtensionsNest ==
  ASSUME NEW r \in Chains, NEW s \in Chains, NEW c \in Chains, Extends(r, s), Extends(s, c)
  PROVE  Extends(r, c)
<1>1. Len(r) \in Nat \ {0} /\ Len(s) \in Nat \ {0} /\ Len(c) \in Nat \ {0}
  BY ChainType
<1>2. Len(r) <= Len(s) /\ Len(s) <= Len(c)
  BY DEF Extends
<1>3. \A i \in 1 .. Len(r) - 1 : c[i] = r[i]
  BY <1>1, <1>2 DEF Extends
<1>4. /\ c[Len(r)].at = r[Len(r)].at /\ c[Len(r)].capacity = r[Len(r)].capacity
      /\ r[Len(r)].used <= c[Len(r)].used
  <2>1. /\ s[Len(r)].at = r[Len(r)].at /\ s[Len(r)].capacity = r[Len(r)].capacity
        /\ r[Len(r)].used <= s[Len(r)].used
    BY DEF Extends
  <2>2. r[Len(r)].used \in Nat /\ s[Len(r)].used \in Nat /\ c[Len(r)].used \in Nat
    BY <1>1, <1>2, ChainType
  <2>3. /\ c[Len(r)].at = s[Len(r)].at /\ c[Len(r)].capacity = s[Len(r)].capacity
        /\ s[Len(r)].used <= c[Len(r)].used
    <3>1. CASE Len(r) = Len(s)
      BY <3>1 DEF Extends
    <3>2. CASE Len(r) # Len(s)
      <4>1. c[Len(r)] = s[Len(r)]
        BY <1>1, <1>2, <3>2 DEF Extends
      <4> QED
        BY <2>2, <4>1
    <3> QED
      BY <3>1, <3>2
  <2> QED
    BY <2>1, <2>2, <2>3
<1> QED
  BY <1>1, <1>2, <1>3, <1>4 DEF Extends

LEMMA WithBlock ==
  ASSUME NEW c \in Seq(Block), NEW n \in 1 .. Len(c), NEW b \in Block
  PROVE  LET d == [c EXCEPT ![n] = b] IN
         /\ d \in Seq(Block) /\ Len(d) = Len(c) /\ d[n] = b
         /\ \A i \in 1 .. Len(c) : i # n => d[i] = c[i]
OBVIOUS

LEMMA FilledBlock ==
  ASSUME NEW x \in Block, NEW u \in Nat, u <= x.capacity
  PROVE  LET b == [x EXCEPT !.used = u] IN
         b \in Block /\ b.at = x.at /\ b.capacity = x.capacity /\ b.used = u
<1>1. /\ x.capacity \in 1 .. MaxBlock /\ MaxBlock \in Nat
  BY ArenaAssumption DEF ArenaAssumption, Block
<1>2. u \in 0 .. MaxBlock
  BY <1>1
<1> QED
  BY <1>2 DEF Block

\* A chain whose last block is filled further.
LEMMA Filling ==
  ASSUME NEW c \in Chains, NEW a \in Nat, a <= c[Len(c)].capacity - c[Len(c)].used
  PROVE  LET d == [c EXCEPT ![Len(c)].used = @ + a] IN
         /\ d \in Chains /\ Len(d) = Len(c) /\ Extends(c, d)
         /\ d[Len(c)].at = c[Len(c)].at /\ d[Len(c)].used = c[Len(c)].used + a
<1> DEFINE n == Len(c)
           b == [c[n] EXCEPT !.used = c[n].used + a]
           d == [c EXCEPT ![n] = b]
<1>1. /\ n \in Nat \ {0} /\ DOMAIN c = 1 .. n /\ c[n] \in Block /\ c[n].used \in Nat /\ c[n].capacity \in 1 .. MaxBlock
      /\ c \in Seq(Block) /\ \A k \in 1 .. n : c[k].used \in Nat /\ c[k].used <= c[k].capacity
      /\ \A i, j \in 1 .. n : c[i].at = c[j].at => i = j
  BY ChainType DEF Chains
<1>2. [c EXCEPT ![Len(c)].used = @ + a] = d
  OBVIOUS
<1>3. /\ b.at = c[n].at /\ b.capacity = c[n].capacity /\ b.used = c[n].used + a
      /\ b \in Block /\ b.used <= b.capacity
  <2>1. c[n].used + a \in Nat /\ c[n].used + a <= c[n].capacity
    BY <1>1
  <2> QED
    BY <1>1, <2>1, FilledBlock
<1> HIDE DEF b
<1> HIDE DEF n
<1>4. d \in Seq(Block) /\ Len(d) = n /\ DOMAIN d = 1 .. n /\ d[n] = b
      /\ \A i \in 1 .. n : i # n => d[i] = c[i]
  <2>1. n = Len(c)
    BY DEF n
  <2>2. n \in 1 .. Len(c) /\ c \in Seq(Block) /\ b \in Block
    BY <1>1, <1>3, <2>1
  <2>3. /\ d \in Seq(Block) /\ Len(d) = Len(c) /\ d[n] = b
        /\ \A i \in 1 .. Len(c) : i # n => d[i] = c[i]
    BY <2>2, WithBlock
  <2> QED
    BY <2>1, <2>3
<1> HIDE DEF d
<1>5. d \in Chains
  <2>1. \A i \in 1 .. n : d[i].at = c[i].at
    <3> TAKE i \in 1 .. n
    <3>1. CASE i = n
      BY <1>3, <1>4, <3>1
    <3>2. CASE i # n
      BY <1>4, <3>2
    <3> QED
      BY <3>1, <3>2
  <2>2. \A k \in 1 .. n : d[k].used <= d[k].capacity
    <3> TAKE k \in 1 .. n
    <3>1. CASE k = n
      BY <1>3, <1>4, <3>1
    <3>2. CASE k # n
      BY <1>1, <1>4, <3>2
    <3> QED
      BY <3>1, <3>2
  <2> QED
    BY <1>1, <1>4, <2>1, <2>2 DEF Chains
<1>6. Extends(c, d)
  <2>1. \A i \in 1 .. n - 1 : d[i] = c[i]
    BY <1>1, <1>4
  <2>2. c[n].used <= d[n].used
    BY <1>1, <1>3, <1>4
  <2>3. Len(c) = n /\ Len(d) = n
    BY <1>4 DEF n
  <2>4. 1 <= n /\ n <= n
    BY <1>1
  <2> QED
    BY <1>3, <1>4, <2>1, <2>2, <2>3, <2>4 DEF Extends
<1> QED
  BY <1>2, <1>3, <1>4, <1>5, <1>6 DEF n

\* A chain with a block of another address behind it.
LEMMA Growing ==
  ASSUME NEW c \in Chains, NEW b \in Block, b.at \notin Addresses(c), b.used <= b.capacity
  PROVE  /\ Append(c, b) \in Chains /\ Len(Append(c, b)) = Len(c) + 1 /\ Extends(c, Append(c, b))
         /\ Append(c, b)[Len(c) + 1] = b
<1> DEFINE n == Len(c)
           d == Append(c, b)
<1>1. /\ n \in Nat \ {0} /\ DOMAIN c = 1 .. n
      /\ c \in Seq(Block) /\ \A k \in 1 .. n : c[k].used \in Nat /\ c[k].used <= c[k].capacity
      /\ \A i, j \in 1 .. n : c[i].at = c[j].at => i = j
  BY ChainType DEF Chains
<1>2. /\ d \in Seq(Block) /\ Len(d) = n + 1 /\ DOMAIN d = 1 .. n + 1 /\ d[n + 1] = b
      /\ \A i \in 1 .. n : d[i] = c[i]
  BY <1>1
<1> HIDE DEF d, n
<1>3. \A i \in 1 .. n : c[i].at # b.at
  BY <1>1 DEF Addresses
<1>4. d \in Chains
  <2>1. \A i, j \in 1 .. n + 1 : d[i].at = d[j].at => i = j
    BY <1>1, <1>2, <1>3
  <2>2. \A k \in 1 .. n + 1 : d[k].used <= d[k].capacity
    BY <1>1, <1>2
  <2> QED
    BY <1>1, <1>2, <2>1, <2>2 DEF Chains
<1>5. Extends(c, d)
  BY <1>1, <1>2 DEF Extends, n
<1> QED
  BY <1>2, <1>4, <1>5 DEF n, d

\* The block at a given address of a chain that a mark has seen.
LEMMA Found ==
  ASSUME NEW s \in Chains, NEW c \in Chains, Extends(s, c), NEW k \in DOMAIN c, c[k].at = s[Len(s)].at
  PROVE  k = Len(s) /\ SubSeq([c EXCEPT ![k].used = s[k].used], 1, k) = s
<1> DEFINE n == Len(s)
<1>1. /\ n \in Nat \ {0} /\ n <= Len(c) /\ Len(c) \in Nat /\ DOMAIN c = 1 .. Len(c) /\ DOMAIN s = 1 .. n
      /\ c \in Seq(Block) /\ s \in Seq(Block)
      /\ \A i, j \in 1 .. Len(c) : c[i].at = c[j].at => i = j
  BY ChainType DEF Extends, Chains
<1>2. k = n
  BY <1>1 DEF Extends
<1> DEFINE b == [c[n] EXCEPT !.used = s[n].used]
           d == [c EXCEPT ![n] = b]
<1>3. [c EXCEPT ![n].used = s[n].used] = d
  BY <1>1
<1>4. b = s[n]
  <2>1. c[n] \in Block /\ s[n] \in Block
    BY <1>1
  <2> QED
    BY <2>1 DEF Extends, Block
<1> HIDE DEF b
<1>5. /\ d \in Seq(Block) /\ Len(d) = Len(c) /\ d[n] = s[n]
      /\ \A i \in 1 .. n - 1 : d[i] = s[i]
  BY <1>1, <1>4 DEF Extends
<1> HIDE DEF d
<1>6. SubSeq(d, 1, n) = s
  <2>1. \A i \in 1 .. n : SubSeq(d, 1, n)[i] = s[i]
    BY <1>1, <1>5
  <2>2. SubSeq(d, 1, n) \in Seq(Block) /\ Len(SubSeq(d, 1, n)) = n
    BY <1>1, <1>5
  <2> QED
    BY <1>1, <2>1, <2>2
<1> QED
  BY <1>2, <1>3, <1>6

-----------------------------------------------------------------------------
(* Memory                                                                  *)
LEMMA Writing ==
  ASSUME NEW m \in [Blocks -> [Cells -> Values]], NEW h \in [at : Blocks, from : Cells], NEW n \in Nat,
         NEW w, DOMAIN w \subseteq 0 .. n - 1, \A i \in DOMAIN w : w[i] \in Values
  PROVE  /\ Filled(m, h, w) \in [Blocks -> [Cells -> Values]]
         /\ \A b \in Blocks, i \in Cells :
              b # h.at \/ i < h.from \/ h.from + n <= i => Filled(m, h, w)[b][i] = m[b][i]
<1> DEFINE row == [i \in Cells |-> IF i - h.from \in DOMAIN w THEN w[i - h.from] ELSE m[h.at][i]]
<1>1. h.at \in Blocks /\ h.from \in Cells /\ Cells \subseteq Nat
  BY ArenaAssumption DEF ArenaAssumption, Cells
<1>2. Filled(m, h, w) = [m EXCEPT ![h.at] = row]
  BY DEF Filled
<1>3. row \in [Cells -> Values]
  BY <1>1
<1>4. \A i \in Cells : i < h.from \/ h.from + n <= i => row[i] = m[h.at][i]
  <2> SUFFICES ASSUME NEW i \in Cells, i < h.from \/ h.from + n <= i
               PROVE  i - h.from \notin DOMAIN w
    OBVIOUS
  <2>1. i - h.from \notin 0 .. n - 1
    <3>1. i \in Nat /\ h.from \in Nat
      BY <1>1
    <3>2. i - h.from < 0 \/ i - h.from >= n
      BY <3>1
    <3> QED
      BY <3>1, <3>2
  <2> QED
    BY <2>1
<1> HIDE DEF row
<1>5. \A b \in Blocks : b # h.at => [m EXCEPT ![h.at] = row][b] = m[b]
  OBVIOUS
<1>6. [m EXCEPT ![h.at] = row][h.at] = row
  BY <1>1
<1> QED
  BY <1>1, <1>2, <1>3, <1>4, <1>5, <1>6

-----------------------------------------------------------------------------
(* Allocation                                                              *)

\* What arena_alloc returns lies behind everything that is in use, and the
\* chain is extended.
LEMMA Allocated ==
  ASSUME Chained, NEW n \in 0 .. SizeMod - 1, NEW h \in Places(n), NEW w, Alloc(n, h, w)
  PROVE  /\ chain' \in Chains /\ current' = Len(chain') /\ Extends(chain, chain')
         /\ n > 0 /\ h \in [at : Blocks, from : Cells] /\ h.from + n <= MaxBlock
         /\ \E k \in DOMAIN chain' : chain'[k].at = h.at /\ h.from + n <= chain'[k].used
         /\ \A o \in Objects : Within(o, chain) => o.at # h.at \/ o.from + o.size <= h.from
<1> DEFINE a == AlignUp(n)
           last == chain[Len(chain)]
<1>1. a \in Nat /\ n <= a /\ n > 0
  BY Aligned DEF Alloc
<1>2. /\ chain \in Chains /\ current = Len(chain) /\ current \in Nat \ {0} /\ DOMAIN chain = 1 .. current
      /\ last.at \in Blocks /\ last.used \in Nat /\ last.capacity \in 1 .. MaxBlock
      /\ MaxBlock \in Nat /\ BlockSize \in Nat \ {0}
      /\ \A i, j \in DOMAIN chain : chain[i].at = chain[j].at => i = j
  <2>1. chain \in Chains /\ current = Len(chain)
    BY DEF Chained
  <2>2. MaxBlock \in Nat /\ BlockSize \in Nat \ {0}
    BY ArenaAssumption DEF ArenaAssumption
  <2>3. \A i, j \in DOMAIN chain : chain[i].at = chain[j].at => i = j
    BY <2>1 DEF Chains
  <2> QED
    BY <2>1, <2>2, <2>3, ChainType
<1>3. CASE /\ Fits(n) /\ h = [at |-> last.at, from |-> last.used]
           /\ chain' = [chain EXCEPT ![current].used = @ + a] /\ current' = current
  <2>1. a <= last.capacity - last.used
    BY <1>2, <1>3 DEF Fits
  <2>2. /\ chain' \in Chains /\ Len(chain') = Len(chain) /\ Extends(chain, chain')
        /\ chain'[Len(chain)].at = last.at /\ chain'[Len(chain)].used = last.used + a
    BY <1>1, <1>2, <1>3, <2>1, Filling
  <2>3. h.at = last.at /\ h.from = last.used
    BY <1>3
  <2>4. h.from + n <= MaxBlock /\ h.from \in Cells
    BY <1>1, <1>2, <2>1, <2>3 DEF Cells
  <2>5. h \in [at : Blocks, from : Cells]
    BY <1>2, <1>3, <2>3, <2>4
  <2>6. Len(chain) \in DOMAIN chain' /\ h.from + n <= chain'[Len(chain)].used
    BY <1>1, <1>2, <2>2, <2>3, ChainType
  <2>7. ASSUME NEW o \in Objects, Within(o, chain), o.at = h.at
        PROVE  o.from + o.size <= h.from
    <3>1. PICK k \in DOMAIN chain : chain[k].at = o.at /\ o.from + o.size <= chain[k].used
      BY <2>7 DEF Within
    <3>2. k = Len(chain)
      BY <1>2, <2>3, <2>7, <3>1
    <3> QED
      BY <2>3, <3>1, <3>2
  <2> QED
    BY <1>1, <1>2, <1>3, <2>2, <2>3, <2>4, <2>5, <2>6, <2>7
<1>4. CASE /\ ~Fits(n) /\ NewCapacity(n) <= MaxBlock
           /\ h.at \in Blocks \ Addresses(chain) /\ h.from = 0
           /\ chain' = Append(SubSeq(chain, 1, current),
                              [at |-> h.at, capacity |-> NewCapacity(n), used |-> a])
           /\ current' = current + 1
  <2> DEFINE b == [at |-> h.at, capacity |-> NewCapacity(n), used |-> a]
  <2>1. NewCapacity(n) \in 1 .. MaxBlock /\ a <= NewCapacity(n)
    BY <1>1, <1>2, <1>4 DEF NewCapacity, Greater
  <2>2. b \in Block /\ b.at = h.at /\ b.capacity = NewCapacity(n) /\ b.used = a
    BY <1>1, <1>2, <1>4, <2>1 DEF Block
  <2>3. SubSeq(chain, 1, current) = chain
    BY <1>2 DEF Chains
  <2>4. chain' = Append(chain, b)
    BY <1>4, <2>3
  <2> HIDE DEF b
  <2>5. /\ chain' \in Chains /\ Len(chain') = Len(chain) + 1 /\ Extends(chain, chain')
        /\ chain'[Len(chain) + 1] = b
    <3>1. b.at \notin Addresses(chain) /\ b.used <= b.capacity /\ b \in Block
      BY <1>4, <2>1, <2>2
    <3> QED
      BY <1>2, <2>4, <3>1, Growing
  <2>6. h \in [at : Blocks, from : Cells] /\ h.from + n <= MaxBlock
    <3>1. 0 \in Cells
      BY <1>1, <1>2, <2>1 DEF Cells
    <3>2. h \in [at : Blocks \ Addresses(chain), from : {0}]
      BY <1>4 DEF Places
    <3> QED
      BY <1>1, <1>2, <1>4, <2>1, <3>1, <3>2
  <2>7. /\ Len(chain) + 1 \in DOMAIN chain' /\ chain'[Len(chain) + 1].at = h.at
        /\ h.from + n <= chain'[Len(chain) + 1].used
    BY <1>1, <1>2, <1>4, <2>2, <2>5, ChainType
  <2>8. \A o \in Objects : Within(o, chain) => o.at # h.at
    BY <1>4 DEF Within, Addresses
  <2> QED
    BY <1>1, <1>2, <1>4, <2>5, <2>6, <2>7, <2>8
<1> QED
  BY <1>2, <1>3, <1>4 DEF Alloc

-----------------------------------------------------------------------------
(* Objects                                                                 *)
HeldIn(o, m) == [i \in 0 .. o.size - 1 |-> m[o.at][o.from + i]]
Handles(L) == {Handle(o) : o \in L}
ContentsOf(L, m) == [h \in Handles(L) |-> HeldIn(CHOOSE o \in L : Handle(o) = h, m)]
ScopesOf(L, d) == [i \in 1 .. d + 1 |-> Handles({o \in L : o.depth = i - 1})]
Separate(L) == \A o, p \in L : o # p => Apart(o, p)

LEMMA MappedState == Contents = ContentsOf(live, memory) /\ ScopeObjects = ScopesOf(live, Depth)
BY DEF Contents, ScopeObjects, ContentsOf, ScopesOf, Handles, HeldIn, Held

LEMMA MappedNext == Contents' = ContentsOf(live', memory') /\ ScopeObjects' = ScopesOf(live', Depth')
BY DEF Contents, ScopeObjects, ContentsOf, ScopesOf, Handles, HeldIn, Held, Handle, Depth

LEMMA ObjectType ==
  ASSUME NEW o \in Objects
  PROVE  /\ o.at \in Blocks /\ o.from \in Nat /\ o.from \in Cells /\ o.size \in Nat \ {0}
         /\ o.size \in 1 .. MaxBlock /\ o.depth \in Nat /\ o.depth \in 0 .. MaxDepth
         /\ Handle(o).at = o.at /\ Handle(o).from = o.from /\ Handle(o) \in [at : Blocks, from : Cells]
BY ArenaAssumption, CallersAssumption DEF ArenaAssumption, CallersAssumption, Objects, Cells, Handle

LEMMA WithinBlock ==
  ASSUME NEW o \in Objects, NEW c \in Chains, Within(o, c)
  PROVE  \A i \in 0 .. o.size - 1 : o.from + i \in Cells /\ o.from + i \in Nat
<1>1. PICK k \in DOMAIN c : c[k].at = o.at /\ o.from + o.size <= c[k].used
  BY DEF Within
<1>2. c[k].used <= MaxBlock /\ c[k].used \in Nat /\ MaxBlock \in Nat
  BY ChainType, ArenaAssumption DEF ArenaAssumption
<1> QED
  BY <1>1, <1>2, ObjectType DEF Cells

\* A handle belongs to one object.
LEMMA Identified ==
  ASSUME NEW L \in SUBSET Objects, Separate(L), NEW o \in L, NEW p \in L, Handle(o) = Handle(p)
  PROVE  o = p
<1>1. o.at = p.at /\ o.from = p.from /\ o.from \in Nat /\ o.size \in Nat \ {0} /\ p.size \in Nat \ {0}
  BY ObjectType
<1>2. ~Apart(o, p)
  BY <1>1 DEF Apart
<1> QED
  BY <1>2 DEF Separate

LEMMA ContentsAre ==
  ASSUME NEW L \in SUBSET Objects, Separate(L), NEW m, NEW o \in L
  PROVE  Handle(o) \in DOMAIN ContentsOf(L, m) /\ ContentsOf(L, m)[Handle(o)] = HeldIn(o, m)
<1> DEFINE p == CHOOSE p \in L : Handle(p) = Handle(o)
<1>1. p \in L /\ Handle(p) = Handle(o)
  OBVIOUS
<1>2. p = o
  BY <1>1, Identified
<1>3. ContentsOf(L, m)[Handle(o)] = HeldIn(p, m)
  BY DEF ContentsOf, Handles
<1>4. Handle(o) \in DOMAIN ContentsOf(L, m)
  BY DEF ContentsOf, Handles
<1> QED
  BY <1>2, <1>3, <1>4

LEMMA ContentsDomain == ASSUME NEW L, NEW m PROVE DOMAIN ContentsOf(L, m) = Handles(L)
BY DEF ContentsOf

\* What an object holds depends on its own cells only.
LEMMA HeldSame ==
  ASSUME NEW o, NEW m, NEW n, \A i \in 0 .. o.size - 1 : n[o.at][o.from + i] = m[o.at][o.from + i]
  PROVE  HeldIn(o, n) = HeldIn(o, m)
BY DEF HeldIn

Joined(C, D, h) == [x \in DOMAIN C \cup {h} |-> IF x = h THEN D[h] ELSE C[x]]

LEMMA OneMore ==
  ASSUME NEW L \in SUBSET Objects, NEW q \in Objects, q \notin L, Separate(L \cup {q}), NEW m, NEW n,
         \A o \in L : HeldIn(o, n) = HeldIn(o, m)
  PROVE  LET M == L \cup {q} IN
         /\ Handle(q) \in DOMAIN ContentsOf(M, n) \ DOMAIN ContentsOf(L, m)
         /\ ContentsOf(M, n) = Joined(ContentsOf(L, m), ContentsOf(M, n), Handle(q))
<1> DEFINE M == L \cup {q}
<1>1. M \in SUBSET Objects /\ Separate(M) /\ Separate(L)
  BY DEF Separate
<1>2. Handle(q) \notin Handles(L)
  BY <1>1, Identified DEF Handles
<1>3. Handles(M) = Handles(L) \cup {Handle(q)}
  BY DEF Handles
<1>4. \A x \in Handles(L) : ContentsOf(M, n)[x] = ContentsOf(L, m)[x]
  <2> SUFFICES ASSUME NEW o \in L PROVE ContentsOf(M, n)[Handle(o)] = ContentsOf(L, m)[Handle(o)]
    BY DEF Handles
  <2>1. ContentsOf(M, n)[Handle(o)] = HeldIn(o, n)
    BY <1>1, ContentsAre
  <2>2. ContentsOf(L, m)[Handle(o)] = HeldIn(o, m)
    BY <1>1, ContentsAre
  <2> QED
    BY <2>1, <2>2
<1>5. DOMAIN ContentsOf(M, n) = Handles(M) /\ DOMAIN ContentsOf(L, m) = Handles(L)
  BY ContentsDomain
<1> DEFINE F == ContentsOf(M, n)
           G == ContentsOf(L, m)
           H == Joined(G, F, Handle(q))
<1>6. F = [x \in Handles(M) |-> F[x]]
  BY DEF ContentsOf
<1> HIDE DEF F, G, M
<1>7. \A x \in Handles(M) : F[x] = H[x]
  BY <1>3, <1>4, <1>5 DEF F, G, Joined
<1>8. F = H
  BY <1>3, <1>5, <1>6, <1>7 DEF G, Joined
<1> QED
  BY <1>2, <1>3, <1>5, <1>8 DEF F, G, M

LEMMA ListOf ==
  ASSUME NEW S, NEW n \in Nat, NEW f \in [1 .. n -> S]
  PROVE  f \in Seq(S) /\ Len(f) = n
OBVIOUS

LEMMA ScopesLength ==
  ASSUME NEW L, NEW d \in Nat
  PROVE  /\ Len(ScopesOf(L, d)) = d + 1 /\ DOMAIN ScopesOf(L, d) = 1 .. d + 1
         /\ \A i \in 1 .. d + 1 : ScopesOf(L, d)[i] = Handles({o \in L : o.depth = i - 1})
BY DEF ScopesOf

LEMMA OneMoreInScope ==
  ASSUME NEW L \in SUBSET Objects, NEW q \in Objects, NEW d \in Nat, q.depth = d
  PROVE  ScopesOf(L \cup {q}, d) = [ScopesOf(L, d) EXCEPT ![Len(ScopesOf(L, d))] = @ \cup {Handle(q)}]
<1> DEFINE M == L \cup {q}
           S == ScopesOf(L, d)
           T == ScopesOf(M, d)
           R == [S EXCEPT ![d + 1] = @ \cup {Handle(q)}]
<1>1. /\ Len(S) = d + 1 /\ DOMAIN S = 1 .. d + 1 /\ DOMAIN T = 1 .. d + 1
      /\ \A i \in 1 .. d + 1 : S[i] = Handles({o \in L : o.depth = i - 1})
      /\ \A i \in 1 .. d + 1 : T[i] = Handles({o \in M : o.depth = i - 1})
  BY ScopesLength
<1>2. \A i \in 1 .. d + 1 : T[i] = R[i]
  <2> TAKE i \in 1 .. d + 1
  <2>1. CASE i = d + 1
    <3>1. {o \in M : o.depth = i - 1} = {o \in L : o.depth = i - 1} \cup {q}
      BY <2>1
    <3>2. Handles({o \in M : o.depth = i - 1}) = Handles({o \in L : o.depth = i - 1}) \cup {Handle(q)}
      BY <3>1 DEF Handles
    <3> QED
      BY <1>1, <2>1, <3>2
  <2>2. CASE i # d + 1
    <3>1. {o \in M : o.depth = i - 1} = {o \in L : o.depth = i - 1}
      BY <2>2
    <3> QED
      BY <1>1, <2>2, <3>1
  <2> QED
    BY <2>1, <2>2
<1>3. T = [i \in 1 .. d + 1 |-> T[i]]
  BY DEF ScopesOf
<1>4. R = [i \in 1 .. d + 1 |-> R[i]]
  BY <1>1
<1> HIDE DEF T, R
<1>5. T = R
  BY <1>2, <1>3, <1>4
<1> QED
  BY <1>1, <1>5 DEF T, R

-----------------------------------------------------------------------------
(* The steps                                                               *)
LEMMA TakeKeeps ==
  ASSUME ScratchInv, NEW n \in 0 .. SizeMod - 1, NEW w,
         DOMAIN w \subseteq 0 .. n - 1, \A i \in DOMAIN w : w[i] \in Values, Take(n, w)
  PROVE  ScratchInv' /\ Scratch!New
<1>1. PICK h \in Places(n) :
        /\ Alloc(n, h, w)
        /\ live' = live \cup {[at |-> h.at, from |-> h.from, size |-> n, depth |-> Depth]}
  BY DEF Take
<1> DEFINE q == [at |-> h.at, from |-> h.from, size |-> n, depth |-> Depth]
<1>2. /\ chain' \in Chains /\ current' = Len(chain') /\ Extends(chain, chain')
      /\ n > 0 /\ h \in [at : Blocks, from : Cells] /\ h.from + n <= MaxBlock
      /\ \E k \in DOMAIN chain' : chain'[k].at = h.at /\ h.from + n <= chain'[k].used
      /\ \A o \in Objects : Within(o, chain) => o.at # h.at \/ o.from + o.size <= h.from
  BY <1>1, Allocated DEF ScratchInv
<1>3. marks' = marks /\ Depth' = Depth /\ Depth \in Nat /\ Depth <= MaxDepth /\ MaxDepth \in Nat
  BY CallersAssumption DEF Take, Depth, ScratchInv, Nested, CallersAssumption
<1>4. /\ memory' \in [Blocks -> [Cells -> Values]]
      /\ \A b \in Blocks, i \in Cells : b # h.at \/ i < h.from \/ h.from + n <= i => memory'[b][i] = memory[b][i]
  <2>1. memory' = Filled(memory, h, w)
    BY <1>1 DEF Alloc
  <2>2. memory \in [Blocks -> [Cells -> Values]] /\ n \in Nat
    BY ArenaAssumption DEF ScratchInv, Chained, ArenaAssumption
  <2> QED
    BY <1>2, <2>1, <2>2, Writing
<1>5. Chained'
  BY <1>2, <1>4 DEF Chained
<1>6. q \in Objects /\ q.at = h.at /\ q.from = h.from /\ q.size = n /\ q.depth = Depth
  <2>1. n \in 1 .. MaxBlock /\ Depth \in 0 .. MaxDepth /\ h.from \in Nat /\ h.at \in Blocks /\ h.from \in Cells
    BY <1>2, <1>3, ArenaAssumption DEF ArenaAssumption, Cells
  <2> QED
    BY <2>1 DEF Objects
<1> HIDE DEF q
<1>7. live' = live \cup {q}
  BY <1>1 DEF q
<1>8. live \in SUBSET Objects /\ \A o \in live : Within(o, chain) /\ o.depth <= Depth
  BY DEF ScratchInv, Placed
<1>9. \A o \in live : o.at # h.at \/ o.from + o.size <= h.from
  BY <1>2, <1>8
<1>10. q \notin live
  BY <1>2, <1>6, <1>9, ObjectType
<1>11. Separate(live \cup {q})
  BY <1>6, <1>9 DEF ScratchInv, Placed, Separate, Apart
<1>12. \A o \in live : Within(o, chain')
  BY <1>2, <1>8, ExtensionsKeep DEF ScratchInv, Chained
<1>13. Within(q, chain')
  BY <1>2, <1>6 DEF Within
<1>14. Placed'
  <2>1. live' \subseteq Objects
    BY <1>6, <1>7, <1>8
  <2>2. \A o \in live' : Within(o, chain') /\ o.depth <= Depth'
    BY <1>3, <1>6, <1>7, <1>8, <1>12, <1>13
  <2>3. \A o, p \in live' : o # p => Apart(o, p)
    BY <1>7, <1>11 DEF Separate
  <2> QED
    BY <2>1, <2>2, <2>3 DEF Placed, Within, Apart
<1>15. Nested'
  <2> SUFFICES ASSUME NEW d \in 1 .. Depth
               PROVE  /\ marks[d].mark.at = marks[d].saved[Len(marks[d].saved)].at
                      /\ marks[d].mark.used = marks[d].saved[Len(marks[d].saved)].used
                      /\ Extends(marks[d].saved, chain')
                      /\ \A e \in 1 .. Depth : d < e => Extends(marks[d].saved, marks[e].saved)
                      /\ \A o \in live' : o.depth < d => Within(o, marks[d].saved)
    BY <1>3 DEF ScratchInv, Nested, Depth, Extends, Within
  <2>1. /\ marks[d].mark.at = marks[d].saved[Len(marks[d].saved)].at
        /\ marks[d].mark.used = marks[d].saved[Len(marks[d].saved)].used
        /\ \A e \in 1 .. Depth : d < e => Extends(marks[d].saved, marks[e].saved)
    BY DEF ScratchInv, Nested
  <2>2. Extends(marks[d].saved, chain) /\ marks[d].saved \in Chains
    <3>1. marks \in Seq(Scopes) /\ Extends(marks[d].saved, chain)
      BY DEF ScratchInv, Nested
    <3>2. marks[d] \in Scopes
      BY <3>1 DEF Depth
    <3> QED
      BY <3>1, <3>2 DEF Scopes
  <2>3. Extends(marks[d].saved, chain')
    BY <1>2, <2>2, ExtensionsNest DEF ScratchInv, Chained
  <2>4. \A o \in live' : o.depth < d => Within(o, marks[d].saved)
    BY <1>3, <1>6, <1>7 DEF ScratchInv, Nested
  <2> QED
    BY <2>1, <2>3, <2>4
<1>16. \A o \in live : HeldIn(o, memory') = HeldIn(o, memory)
  <2> TAKE o \in live
  <2>1. \A i \in 0 .. o.size - 1 : o.from + i \in Cells /\ o.from + i < o.from + o.size
    BY <1>8, WithinBlock, ObjectType DEF ScratchInv, Chained
  <2>2. o.at \in Blocks /\ o.from + o.size \in Nat /\ h.from \in Nat
    BY <1>2, <1>8, ObjectType, ArenaAssumption DEF Cells, ArenaAssumption
  <2>3. \A i \in 0 .. o.size - 1 : memory'[o.at][o.from + i] = memory[o.at][o.from + i]
    BY <1>4, <1>9, <2>1, <2>2, ObjectType, <1>8
  <2> QED
    BY <2>3, HeldSame
<1>17. Scratch!New
  <2>1. LET M == live \cup {q} IN
        /\ Handle(q) \in DOMAIN ContentsOf(M, memory') \ DOMAIN ContentsOf(live, memory)
        /\ ContentsOf(M, memory') = Joined(ContentsOf(live, memory), ContentsOf(M, memory'), Handle(q))
    BY <1>6, <1>8, <1>10, <1>11, <1>16, OneMore
  <2>2. /\ Handle(q) \in DOMAIN Contents' \ DOMAIN Contents
        /\ Contents' = Joined(Contents, Contents', Handle(q))
    BY <1>7, <2>1, MappedState, MappedNext
  <2>3. ScopesOf(live', Depth') =
          [ScopesOf(live, Depth) EXCEPT ![Len(ScopesOf(live, Depth))] = @ \cup {Handle(q)}]
    BY <1>3, <1>6, <1>7, <1>8, OneMoreInScope
  <2>4. ScopeObjects' = [ScopeObjects EXCEPT ![Len(ScopeObjects)] = @ \cup {Handle(q)}]
    BY <2>3, MappedState, MappedNext
  <2> QED
    BY <2>2, <2>4 DEF Scratch!New, Joined
<1> QED
  BY <1>5, <1>14, <1>15, <1>17 DEF ScratchInv

\* arena_alloc, arena_calloc, arena_memdup, arena_realloc_copy, arena_strndup:
\* each asks for a size that a size_t can hold, and writes no more than that, also
\* where the size wraps around.
LEMMA AllocatorsTake ==
  ASSUME ScratchInv,
         AllocRaw \/ Calloc \/ MemdupNothing \/ Memdup \/ ReallocCopy \/ Strndup
  PROVE  \E n \in 0 .. SizeMod - 1 : \E w :
           DOMAIN w \subseteq 0 .. n - 1 /\ (\A i \in DOMAIN w : w[i] \in Values) /\ Take(n, w)
<1> DEFINE Goal == \E n \in 0 .. SizeMod - 1 : \E w :
             DOMAIN w \subseteq 0 .. n - 1 /\ (\A i \in DOMAIN w : w[i] \in Values) /\ Take(n, w)
<1>1. /\ SizeMod \in Nat /\ MaxBlock \in Nat \ {0} /\ MaxBlock < SizeMod /\ Zero \in Values /\ Junk \in Values
  BY ArenaAssumption DEF ArenaAssumption
<1>2. Sizes \subseteq 0 .. SizeMod - 1 /\ Counts \subseteq 0 .. SizeMod - 1
  BY CallersAssumption DEF CallersAssumption
<1>3. ASSUME NEW o \in live, NEW i \in 0 .. o.size - 1
      PROVE  Held(o)[i] \in Values
  <2>1. o \in Objects /\ Within(o, chain) /\ chain \in Chains /\ memory \in [Blocks -> [Cells -> Values]]
    BY DEF ScratchInv, Placed, Chained
  <2>2. o.from + i \in Cells /\ o.at \in Blocks
    BY <2>1, WithinBlock, ObjectType
  <2> QED
    BY <2>1, <2>2 DEF Held
<1>4. \A o \in live : o.size \in 1 .. MaxBlock
  BY ObjectType DEF ScratchInv, Placed
<1>5. DOMAIN << >> = {}
  OBVIOUS
<1>6. ASSUME NEW n \in 0 .. SizeMod - 1, Take(n, << >>)
      PROVE  Goal
  BY <1>5, <1>6
<1>7. CASE AllocRaw
  BY <1>2, <1>6, <1>7 DEF AllocRaw
<1>8. CASE MemdupNothing
  BY <1>1, <1>6, <1>8 DEF MemdupNothing
<1>9. CASE Calloc
  <2>1. PICK count \in Counts, size \in Sizes :
          /\ count # 0 => size <= (SizeMod - 1) \div count
          /\ Take((count * size) % SizeMod, [i \in 0 .. count * size - 1 |-> Zero])
    BY <1>9 DEF Calloc
  <2>2. count \in Nat /\ size \in Nat
    BY <1>1, <1>2
  <2>3. count * size \in 0 .. SizeMod - 1
    <3>1. CASE count = 0
      BY <1>1, <2>2, <3>1
    <3>2. CASE count # 0
      BY <1>1, <2>1, <2>2, <3>2
    <3> QED
      BY <3>1, <3>2
  <2> DEFINE n == count * size
             w == [i \in 0 .. n - 1 |-> Zero]
  <2>4. (count * size) % SizeMod = n
    BY <1>1, <2>3
  <2>5. Take(n, w)
    BY <2>1, <2>4
  <2>6. n \in 0 .. SizeMod - 1
    BY <2>3
  <2> HIDE DEF n
  <2>7. DOMAIN w \subseteq 0 .. n - 1 /\ \A i \in DOMAIN w : w[i] \in Values
    BY <1>1
  <2> HIDE DEF w
  <2> QED
    BY <2>5, <2>6, <2>7
<1>10. CASE Memdup
  <2>1. PICK o \in live : Take(o.size, Held(o))
    BY <1>10 DEF Memdup
  <2>2. o.size \in 0 .. SizeMod - 1
    BY <1>1, <1>4
  <2>3. DOMAIN Held(o) \subseteq 0 .. o.size - 1 /\ \A i \in DOMAIN Held(o) : Held(o)[i] \in Values
    BY <1>3 DEF Held
  <2> QED
    BY <2>1, <2>2, <2>3
<1>11. CASE ReallocCopy
  <2>1. PICK o \in live, n \in Sizes :
          Take(n, [i \in 0 .. (IF o.size < n THEN o.size ELSE n) - 1 |-> Held(o)[i]])
    BY <1>11 DEF ReallocCopy
  <2> DEFINE kept == IF o.size < n THEN o.size ELSE n
             w == [i \in 0 .. kept - 1 |-> Held(o)[i]]
  <2>2. n \in 0 .. SizeMod - 1
    BY <1>2
  <2>3. kept \in Nat /\ kept <= n /\ kept <= o.size
    BY <1>1, <1>4, <2>2
  <2>4. Take(n, w)
    BY <2>1
  <2> HIDE DEF kept
  <2>5. DOMAIN w \subseteq 0 .. n - 1 /\ \A i \in DOMAIN w : w[i] \in Values
    <3>1. DOMAIN w = 0 .. kept - 1
      OBVIOUS
    <3>2. 0 .. kept - 1 \subseteq 0 .. n - 1 /\ 0 .. kept - 1 \subseteq 0 .. o.size - 1
      BY <1>1, <1>4, <2>2, <2>3
    <3> QED
      BY <1>3, <3>1, <3>2
  <2> HIDE DEF w
  <2> QED
    BY <2>2, <2>4, <2>5
<1>12. CASE Strndup
  <2>1. PICK n \in Sizes : Take((n + 1) % SizeMod, [i \in 0 .. n |-> IF i = n THEN Zero ELSE Junk])
    BY <1>12 DEF Strndup
  <2> DEFINE w == [i \in 0 .. n |-> IF i = n THEN Zero ELSE Junk]
  <2>2. n \in 0 .. SizeMod - 1
    BY <1>2
  <2>3. (n + 1) % SizeMod # 0
    <3>1. ~Refused((n + 1) % SizeMod)
      BY <2>1 DEF Take, Alloc
    <3> QED
      BY <3>1 DEF Refused
  <2>4. n + 1 # SizeMod
    <3>1. n + 1 = SizeMod => (n + 1) % SizeMod = 0
      BY <1>1
    <3> QED
      BY <2>3, <3>1
  <2>5. n + 1 \in 0 .. SizeMod - 1
    BY <1>1, <2>2, <2>4
  <2>6. (n + 1) % SizeMod = n + 1
    BY <1>1, <2>5
  <2>7. Take(n + 1, w)
    BY <2>1, <2>6
  <2>8. DOMAIN w \subseteq 0 .. (n + 1) - 1 /\ \A i \in DOMAIN w : w[i] \in Values
    BY <1>1, <2>2
  <2> HIDE DEF w
  <2> QED
    BY <2>5, <2>7, <2>8
<1> QED
  BY <1>7, <1>8, <1>9, <1>10, <1>11, <1>12

LEMMA AllocatorsKeep ==
  ASSUME ScratchInv,
         AllocRaw \/ Calloc \/ MemdupNothing \/ Memdup \/ ReallocCopy \/ Strndup
  PROVE  ScratchInv' /\ Scratch!New
<1>1. PICK n \in 0 .. SizeMod - 1 : \E w :
        DOMAIN w \subseteq 0 .. n - 1 /\ (\A i \in DOMAIN w : w[i] \in Values) /\ Take(n, w)
  BY AllocatorsTake
<1>2. PICK w : DOMAIN w \subseteq 0 .. n - 1 /\ (\A i \in DOMAIN w : w[i] \in Values) /\ Take(n, w)
  BY <1>1
<1> QED
  BY <1>2, TakeKeeps

\* An owner writes to its object; the others lie elsewhere.
LEMMA FillKeeps ==
  ASSUME ScratchInv, Fill
  PROVE  ScratchInv' /\ Scratch!Write
<1>1. PICK o \in live, v \in Values : memory' = Filled(memory, Handle(o), [i \in 0 .. o.size - 1 |-> v])
  BY DEF Fill
<1>2. UNCHANGED <<chain, current, live, marks>> /\ Depth' = Depth
  BY DEF Fill, Depth
<1>3. /\ live \in SUBSET Objects /\ \A p \in live : Within(p, chain)
      /\ Separate(live) /\ chain \in Chains /\ memory \in [Blocks -> [Cells -> Values]]
  BY DEF ScratchInv, Placed, Chained, Separate
<1>4. o \in Objects
  BY <1>3
<1> DEFINE w == [i \in 0 .. o.size - 1 |-> v]
<1>5. DOMAIN w \subseteq 0 .. o.size - 1 /\ \A i \in DOMAIN w : w[i] \in Values
  OBVIOUS
<1> HIDE DEF w
<1>6. /\ memory' \in [Blocks -> [Cells -> Values]]
      /\ \A b \in Blocks, i \in Cells :
           b # o.at \/ i < o.from \/ o.from + o.size <= i => memory'[b][i] = memory[b][i]
  <2>1. Handle(o) \in [at : Blocks, from : Cells] /\ Handle(o).at = o.at /\ Handle(o).from = o.from /\ o.size \in Nat
    BY <1>4, ObjectType
  <2>2. memory' = Filled(memory, Handle(o), w)
    BY <1>1 DEF w
  <2> QED
    BY <1>3, <1>5, <2>1, <2>2, Writing
<1>7. ASSUME NEW p \in live, p # o
      PROVE  HeldIn(p, memory') = HeldIn(p, memory)
  <2>1. Apart(p, o)
    BY <1>3, <1>7 DEF Separate
  <2>2. /\ p.at \in Blocks /\ p.from \in Nat /\ p.size \in Nat /\ o.from \in Nat /\ o.size \in Nat
    BY <1>3, <1>4, ObjectType
  <2>3. \A i \in 0 .. p.size - 1 : p.from + i \in Cells /\ p.from + i \in Nat
    BY <1>3, WithinBlock
  <2>4. \A i \in 0 .. p.size - 1 : memory'[p.at][p.from + i] = memory[p.at][p.from + i]
    <3> TAKE i \in 0 .. p.size - 1
    <3>1. p.at # o.at \/ p.from + i < o.from \/ o.from + o.size <= p.from + i
      BY <2>1, <2>2 DEF Apart
    <3> QED
      BY <1>6, <2>2, <2>3, <3>1
  <2> QED
    BY <2>4, HeldSame
<1>8. ScratchInv'
  <2>1. Chained'
    BY <1>2, <1>6 DEF ScratchInv, Chained
  <2>2. Placed'
    BY <1>2 DEF ScratchInv, Placed, Within, Apart
  <2>3. Nested'
    BY <1>2 DEF ScratchInv, Nested, Within, Extends
  <2> QED
    BY <2>1, <2>2, <2>3 DEF ScratchInv
<1>9. Scratch!Write
  <2>1. ScopeObjects' = ScopeObjects
    BY <1>2, MappedState, MappedNext
  <2>2. Contents' = ContentsOf(live, memory') /\ Contents = ContentsOf(live, memory)
    BY <1>2, MappedState, MappedNext
  <2>3. DOMAIN Contents' = Handles(live) /\ DOMAIN Contents = Handles(live)
    BY <2>2, ContentsDomain
  <2>4. Handle(o) \in Handles(live)
    BY DEF Handles
  <2>5. DOMAIN Contents'[Handle(o)] = DOMAIN Contents[Handle(o)]
    <3>1. Contents'[Handle(o)] = HeldIn(o, memory') /\ Contents[Handle(o)] = HeldIn(o, memory)
      BY <1>3, <2>2, ContentsAre
    <3> QED
      BY <3>1 DEF HeldIn
  <2>6. ASSUME NEW x \in Handles(live) \ {Handle(o)}
        PROVE  Contents'[x] = Contents[x]
    <3>1. PICK p \in live : x = Handle(p)
      BY DEF Handles
    <3>2. p # o
      BY <3>1
    <3>3. Contents'[x] = HeldIn(p, memory') /\ Contents[x] = HeldIn(p, memory)
      BY <1>3, <2>2, <3>1, ContentsAre
    <3> QED
      BY <1>7, <3>2, <3>3
  <2> QED
    BY <2>1, <2>3, <2>4, <2>5, <2>6 DEF Scratch!Write
<1> QED
  BY <1>8, <1>9

\* A scope sees the chain as it is and holds nothing yet.
LEMMA OpenKeeps ==
  ASSUME ScratchInv, OpenScope
  PROVE  ScratchInv' /\ Scratch!Open
<1> DEFINE new == [mark |-> TakenMark, saved |-> chain]
<1>1. /\ chain' = chain /\ current' = current /\ memory' = memory /\ live' = live
      /\ marks' = Append(marks, new) /\ Depth < MaxDepth
  BY DEF OpenScope, arenaVars
<1>2. /\ marks \in Seq(Scopes) /\ Depth \in Nat /\ MaxDepth \in Nat /\ chain \in Chains /\ current = Len(chain)
      /\ live \in SUBSET Objects
  BY CallersAssumption DEF ScratchInv, Nested, Chained, Placed, Depth, CallersAssumption
<1>3. new.mark = TakenMark /\ new.saved = chain
  OBVIOUS
<1>4. new \in Scopes
  <2>1. current \in 1 .. Len(chain) /\ chain[current].at \in Blocks /\ chain[current].used \in 0 .. MaxBlock
    BY <1>2, ChainType, ArenaAssumption DEF ArenaAssumption
  <2> QED
    BY <1>2, <2>1 DEF Scopes, Mark, TakenMark
<1>5. TakenMark.at = chain[Len(chain)].at /\ TakenMark.used = chain[Len(chain)].used
  BY <1>2 DEF TakenMark
<1> HIDE DEF new
<1>6. /\ marks' \in Seq(Scopes) /\ Depth' = Depth + 1 /\ marks'[Depth + 1] = new
      /\ \A d \in 1 .. Depth : marks'[d] = marks[d]
  BY <1>1, <1>2, <1>4 DEF Depth
<1>7. Placed'
  BY <1>1, <1>2, <1>6, ObjectType DEF ScratchInv, Placed, Within, Apart
<1>8. ASSUME NEW d \in 1 .. Depth + 1
      PROVE  /\ marks'[d].mark.at = marks'[d].saved[Len(marks'[d].saved)].at
             /\ marks'[d].mark.used = marks'[d].saved[Len(marks'[d].saved)].used
             /\ Extends(marks'[d].saved, chain)
             /\ \A e \in 1 .. Depth + 1 : d < e => Extends(marks'[d].saved, marks'[e].saved)
             /\ \A o \in live : o.depth < d => Within(o, marks'[d].saved)
  <2>1. CASE d = Depth + 1
    <3>1. marks'[d].saved = chain /\ marks'[d].mark = TakenMark
      BY <1>3, <1>6, <2>1
    <3>2. \A e \in 1 .. Depth + 1 : ~(d < e)
      BY <1>2, <2>1
    <3>3. \A o \in live : Within(o, chain)
      BY DEF ScratchInv, Placed
    <3> QED
      BY <1>2, <1>5, <3>1, <3>2, <3>3, ExtendsItself
  <2>2. CASE d # Depth + 1
    <3>1. d \in 1 .. Depth /\ marks'[d] = marks[d]
      BY <1>2, <1>6, <2>2
    <3>2. /\ marks[d].mark.at = marks[d].saved[Len(marks[d].saved)].at
          /\ marks[d].mark.used = marks[d].saved[Len(marks[d].saved)].used
          /\ Extends(marks[d].saved, chain)
          /\ \A e \in 1 .. Depth : d < e => Extends(marks[d].saved, marks[e].saved)
          /\ \A o \in live : o.depth < d => Within(o, marks[d].saved)
      BY <3>1 DEF ScratchInv, Nested
    <3>3. \A e \in 1 .. Depth + 1 : d < e => Extends(marks[d].saved, marks'[e].saved)
      <4> TAKE e \in 1 .. Depth + 1
      <4>1. CASE e = Depth + 1
        BY <1>3, <1>6, <3>2, <4>1
      <4>2. CASE e # Depth + 1
        <5>1. e \in 1 .. Depth /\ marks'[e] = marks[e]
          BY <1>2, <1>6, <4>2
        <5> QED
          BY <3>2, <5>1
      <4> QED
        BY <4>1, <4>2
    <3> QED
      BY <3>1, <3>2, <3>3
  <2> QED
    BY <2>1, <2>2
<1>9. Nested'
  <2>1. Depth' <= MaxDepth
    BY <1>1, <1>2, <1>6
  <2> QED
    BY <1>1, <1>6, <1>8, <2>1 DEF Nested, Extends, Within
<1>10. Chained'
  BY <1>1 DEF ScratchInv, Chained
<1>11. Scratch!Open
  <2>1. Contents' = Contents
    BY <1>1, MappedState, MappedNext
  <2>2. ScopesOf(live, Depth + 1) = Append(ScopesOf(live, Depth), {})
    <3> DEFINE S == ScopesOf(live, Depth)
               T == ScopesOf(live, Depth + 1)
    <3>1. /\ Len(S) = Depth + 1 /\ S \in Seq(SUBSET Handles(live))
          /\ \A i \in 1 .. Depth + 1 : S[i] = Handles({o \in live : o.depth = i - 1})
      BY <1>2, ScopesLength DEF ScopesOf, Handles
    <3>2. /\ T \in Seq(SUBSET Handles(live)) /\ Len(T) = Depth + 2
          /\ \A i \in 1 .. Depth + 2 : T[i] = Handles({o \in live : o.depth = i - 1})
      BY <1>2 DEF ScopesOf, Handles
    <3>3. Handles({o \in live : o.depth = (Depth + 2) - 1}) = {}
      BY <1>2, ObjectType DEF ScratchInv, Placed, Handles
    <3> HIDE DEF S, T
    <3>4. /\ Append(S, {}) \in Seq(SUBSET Handles(live)) /\ Len(Append(S, {})) = Depth + 2
          /\ Append(S, {})[Depth + 2] = {}
          /\ \A i \in 1 .. Depth + 1 : Append(S, {})[i] = S[i]
      <4>1. {} \in SUBSET Handles(live)
        OBVIOUS
      <4> QED
        BY <1>2, <3>1, <4>1
    <3>5. \A i \in 1 .. Depth + 2 : T[i] = Append(S, {})[i]
      <4> TAKE i \in 1 .. Depth + 2
      <4>1. CASE i = Depth + 2
        BY <3>2, <3>3, <3>4, <4>1
      <4>2. CASE i # Depth + 2
        <5>1. i \in 1 .. Depth + 1
          BY <1>2, <4>2
        <5> QED
          BY <3>1, <3>2, <3>4, <5>1
      <4> QED
        BY <4>1, <4>2
    <3>6. T = Append(S, {})
      BY <1>2, <3>2, <3>4, <3>5
    <3> QED
      BY <3>6 DEF S, T
  <2>3. ScopeObjects' = Append(ScopeObjects, {})
    BY <1>1, <1>6, <2>2, MappedState, MappedNext
  <2> QED
    BY <2>1, <2>3 DEF Scratch!Open
<1> QED
  BY <1>7, <1>9, <1>10, <1>11 DEF ScratchInv

\* arena_rewind with the mark of the innermost scope: the chain is the one the
\* mark has seen, and what lies within that chain keeps its cells.
LEMMA Rewound ==
  ASSUME Chained, NEW s \in Chains, Extends(s, chain), NEW mark \in Mark,
         mark.at = s[Len(s)].at, mark.used = s[Len(s)].used, Rewind(mark)
  PROVE  /\ chain' = s /\ current' = Len(s) /\ memory' \in [Blocks -> [Cells -> Values]]
         /\ \A o \in Objects : Within(o, s) => HeldIn(o, memory') = HeldIn(o, memory)
<1> DEFINE n == Len(s)
           chosen(k) == IF mark.used > chain[k].capacity THEN chain[k].capacity ELSE mark.used
<1>1. /\ chain \in Chains /\ n \in 1 .. Len(chain) /\ DOMAIN chain = 1 .. Len(chain) /\ DOMAIN s = 1 .. n
      /\ Len(chain) \in Nat /\ n \in Nat
      /\ chain[n].at = s[n].at /\ chain[n].capacity = s[n].capacity /\ s[n].used <= s[n].capacity
      /\ s[n].used \in Nat /\ s[n].capacity \in Nat
  BY ChainType DEF Chained, Extends
<1>2. \A i, j \in DOMAIN chain : chain[i].at = chain[j].at => i = j
  BY <1>1 DEF Chains
<1>3. mark.at \in Addresses(chain)
  BY <1>1 DEF Addresses
<1>4. PICK k \in DOMAIN chain :
        /\ chain[k].at = mark.at
        /\ memory' = Poisoned(k, chosen(k))
        /\ chain' = SubSeq([chain EXCEPT ![k].used = chosen(k)], 1, k)
        /\ current' = k
  BY <1>3 DEF Rewind
<1>5. k = n
  BY <1>1, <1>2, <1>4
<1>6. chosen(k) = s[k].used
  BY <1>1, <1>5
<1> HIDE DEF chosen
<1>7. chain' = s
  BY <1>1, <1>4, <1>5, <1>6, Found
<1>8. memory' = Poisoned(n, s[n].used)
  BY <1>4, <1>5, <1>6
<1>9. memory' \in [Blocks -> [Cells -> Values]]
  BY <1>8, ArenaAssumption DEF Poisoned, Chained, ArenaAssumption
<1>10. ASSUME NEW o \in Objects, Within(o, s), NEW i \in 0 .. o.size - 1
       PROVE  memory'[o.at][o.from + i] = memory[o.at][o.from + i]
  <2>1. PICK m \in DOMAIN s : s[m].at = o.at /\ o.from + o.size <= s[m].used
    BY <1>10 DEF Within
  <2>2. o.at \in Blocks /\ o.from + i \in Cells /\ o.from + i \in Nat /\ o.from + i < o.from + o.size
    BY <1>10, WithinBlock, ObjectType
  <2>3. m \in DOMAIN chain /\ chain[m].at = o.at
    <3>1. CASE m = n
      BY <1>1, <2>1, <3>1
    <3>2. CASE m # n
      <4>1. m \in 1 .. n - 1
        BY <1>1, <2>1, <3>2
      <4> QED
        BY <1>1, <2>1, <4>1 DEF Extends
    <3> QED
      BY <3>1, <3>2
  <2>4. ~ \E l \in DOMAIN chain : l > n /\ chain[l].at = o.at
    BY <1>1, <1>2, <2>1, <2>3
  <2>5. o.at = chain[n].at => o.from + i < s[n].used
    <3> SUFFICES ASSUME o.at = chain[n].at PROVE o.from + i < s[n].used
      OBVIOUS
    <3>1. m = n
      BY <1>1, <1>2, <2>3
    <3>2. o.from + o.size \in Nat
      BY ObjectType
    <3> QED
      BY <1>1, <2>1, <2>2, <3>1, <3>2
  <2>6. ~(s[n].used <= o.from + i) \/ o.at # chain[n].at
    BY <1>1, <2>2, <2>5
  <2> QED
    BY <1>8, <2>2, <2>4, <2>6 DEF Poisoned
<1> QED
  BY <1>4, <1>5, <1>7, <1>9, <1>10, HeldSame

\* The contents of fewer objects.
LEMMA Fewer ==
  ASSUME NEW L \in SUBSET Objects, Separate(L), NEW M \in SUBSET L, NEW m, NEW n,
         \A o \in M : HeldIn(o, n) = HeldIn(o, m)
  PROVE  ContentsOf(M, n) = [x \in Handles(M) |-> ContentsOf(L, m)[x]]
<1>1. M \in SUBSET Objects /\ Separate(M)
  BY DEF Separate
<1>2. ContentsOf(M, n) = [x \in Handles(M) |-> ContentsOf(M, n)[x]]
  BY DEF ContentsOf
<1>3. ASSUME NEW x \in Handles(M)
      PROVE  ContentsOf(M, n)[x] = ContentsOf(L, m)[x]
  <2>1. PICK o \in M : x = Handle(o)
    BY DEF Handles
  <2>2. ContentsOf(M, n)[x] = HeldIn(o, n)
    BY <1>1, <2>1, ContentsAre
  <2>3. ContentsOf(L, m)[x] = HeldIn(o, m)
    BY <2>1, ContentsAre
  <2> QED
    BY <2>2, <2>3
<1> QED
  BY <1>2, <1>3

LEMMA Shorter ==
  ASSUME NEW S, NEW q \in Seq(S), Len(q) > 0
  PROVE  LET r == SubSeq(q, 1, Len(q) - 1) IN
         r \in Seq(S) /\ Len(r) = Len(q) - 1 /\ \A i \in 1 .. Len(q) - 1 : r[i] = q[i]
<1> DEFINE n == Len(q) - 1
<1>1. n \in Nat /\ n <= Len(q) /\ Len(q) \in Nat /\ \A i \in 1 .. n : q[i] \in S
  OBVIOUS
<1>2. SubSeq(q, 1, n) = [i \in 1 .. n |-> q[i]]
  BY <1>1
<1> HIDE DEF n
<1>3. [i \in 1 .. n |-> q[i]] \in Seq(S) /\ Len([i \in 1 .. n |-> q[i]]) = n
  BY <1>1
<1> QED
  BY <1>2, <1>3 DEF n

LEMMA CloseKeeps ==
  ASSUME ScratchInv, CloseScope
  PROVE  /\ ScratchInv' /\ Scratch!Close
         /\ chain' = marks[Depth].saved /\ current' = Len(chain')
<1> DEFINE s == marks[Depth].saved
           mark == marks[Depth].mark
<1>1. /\ Depth > 0 /\ Depth \in Nat /\ Rewind(mark)
      /\ marks' = SubSeq(marks, 1, Depth - 1) /\ live' = {o \in live : o.depth < Depth}
      /\ marks \in Seq(Scopes) /\ Depth <= MaxDepth /\ MaxDepth \in Nat
  BY CallersAssumption DEF CloseScope, ScratchInv, Nested, Depth, CallersAssumption
<1>2. Depth \in 1 .. Depth /\ marks[Depth] \in Scopes
  BY <1>1 DEF Depth
<1>3. s \in Chains /\ mark \in Mark
  BY <1>2 DEF Scopes
<1>4. /\ mark.at = s[Len(s)].at /\ mark.used = s[Len(s)].used /\ Extends(s, chain)
      /\ \A o \in live : o.depth < Depth => Within(o, s)
  BY <1>2 DEF ScratchInv, Nested
<1>5. live \in SUBSET Objects /\ Separate(live) /\ live' \in SUBSET live
  BY <1>1 DEF ScratchInv, Placed, Separate
<1> HIDE DEF s, mark
<1>6. /\ chain' = s /\ current' = Len(s) /\ memory' \in [Blocks -> [Cells -> Values]]
      /\ \A o \in Objects : Within(o, s) => HeldIn(o, memory') = HeldIn(o, memory)
  BY <1>1, <1>3, <1>4, Rewound DEF ScratchInv
<1>7. \A o \in live' : o \in live /\ o.depth < Depth /\ Within(o, s)
  BY <1>1, <1>4
<1>8. /\ marks' \in Seq(Scopes) /\ Depth' = Depth - 1
      /\ \A d \in 1 .. Depth - 1 : marks'[d] = marks[d]
  BY <1>1, Shorter DEF Depth
<1>9. Chained'
  BY <1>3, <1>6 DEF Chained
<1>10. Placed'
  <2>1. \A o \in live' : Within(o, chain') /\ o.depth <= Depth'
    BY <1>1, <1>5, <1>6, <1>7, <1>8, ObjectType
  <2>2. \A o, p \in live' : o # p => Apart(o, p)
    BY <1>5 DEF Separate
  <2> QED
    BY <1>5, <2>1, <2>2 DEF Placed, Within, Apart
<1>11. Nested'
  <2>1. ASSUME NEW d \in 1 .. Depth - 1
        PROVE  /\ marks[d].mark.at = marks[d].saved[Len(marks[d].saved)].at
               /\ marks[d].mark.used = marks[d].saved[Len(marks[d].saved)].used
               /\ Extends(marks[d].saved, s)
               /\ \A e \in 1 .. Depth - 1 : d < e => Extends(marks[d].saved, marks[e].saved)
               /\ \A o \in live' : o.depth < d => Within(o, marks[d].saved)
    <3>1. d \in 1 .. Depth /\ d < Depth /\ Depth \in 1 .. Depth /\ 1 .. Depth - 1 \subseteq 1 .. Depth
      BY <1>1
    <3> QED
      BY <1>5, <3>1 DEF ScratchInv, Nested, s
  <2>2. Depth' <= MaxDepth
    BY <1>1, <1>8
  <2>3. \A d \in 1 .. Depth - 1 :
          /\ marks'[d].mark.at = marks'[d].saved[Len(marks'[d].saved)].at
          /\ marks'[d].mark.used = marks'[d].saved[Len(marks'[d].saved)].used
          /\ Extends(marks'[d].saved, chain')
          /\ \A e \in 1 .. Depth - 1 : d < e => Extends(marks'[d].saved, marks'[e].saved)
          /\ \A o \in live' : o.depth < d => Within(o, marks'[d].saved)
    BY <1>6, <1>8, <2>1
  <2> QED
    BY <1>8, <2>2, <2>3 DEF Nested, Extends, Within
<1>12. Scratch!Close
  <2>1. \A o \in live' : HeldIn(o, memory') = HeldIn(o, memory)
    BY <1>5, <1>6, <1>7
  <2>2. Contents' = [x \in Handles(live') |-> Contents[x]]
    BY <1>5, <2>1, Fewer, MappedState, MappedNext
  <2>3. Len(ScopeObjects) = Depth + 1 /\ ScopeObjects[Depth + 1] = Handles({o \in live : o.depth = Depth})
    <3>1. Depth + 1 \in 1 .. Depth + 1 /\ (Depth + 1) - 1 = Depth
      BY <1>1
    <3> QED
      BY <1>1, <3>1, ScopesLength, MappedState
  <2>4. Handles(live') = DOMAIN Contents \ ScopeObjects[Len(ScopeObjects)]
    <3>1. DOMAIN Contents = Handles(live)
      BY MappedState, ContentsDomain
    <3>2. \A o \in live : o \in live' \/ o.depth = Depth
      BY <1>1, <1>5, ObjectType DEF ScratchInv, Placed
    <3>3. \A o \in live', p \in {p \in live : p.depth = Depth} : Handle(o) # Handle(p)
      <4> SUFFICES ASSUME NEW o \in live', NEW p \in live, p.depth = Depth, Handle(o) = Handle(p)
                   PROVE  FALSE
        OBVIOUS
      <4>1. o = p
        BY <1>5, <1>7, Identified
      <4> QED
        BY <1>1, <1>7, <4>1
    <3> QED
      BY <1>5, <2>3, <3>1, <3>2, <3>3 DEF Handles
  <2>5. ScopeObjects' = SubSeq(ScopeObjects, 1, Len(ScopeObjects) - 1)
    <3> DEFINE S == ScopesOf(live, Depth)
               T == ScopesOf(live', Depth - 1)
               R == SubSeq(S, 1, Depth)
    <3>1. /\ Len(S) = Depth + 1 /\ S \in Seq(SUBSET Handles(live))
          /\ \A i \in 1 .. Depth + 1 : S[i] = Handles({o \in live : o.depth = i - 1})
      BY <1>1, ScopesLength DEF ScopesOf, Handles
    <3>2. /\ T \in Seq(SUBSET Handles(live)) /\ Len(T) = Depth
          /\ \A i \in 1 .. Depth : T[i] = Handles({o \in live' : o.depth = i - 1})
      BY <1>1, <1>5 DEF ScopesOf, Handles
    <3> HIDE DEF S, T
    <3>3. R \in Seq(SUBSET Handles(live)) /\ Len(R) = Depth /\ \A i \in 1 .. Depth : R[i] = S[i]
      BY <1>1, <3>1
    <3>4. \A i \in 1 .. Depth : T[i] = S[i]
      <4> TAKE i \in 1 .. Depth
      <4>1. {o \in live' : o.depth = i - 1} = {o \in live : o.depth = i - 1}
        BY <1>1
      <4>2. i \in 1 .. Depth + 1
        BY <1>1
      <4>3. S[i] = Handles({o \in live : o.depth = i - 1})
        BY <3>1, <4>2
      <4>4. T[i] = Handles({o \in live' : o.depth = i - 1})
        BY <3>2
      <4> QED
        BY <4>1, <4>3, <4>4
    <3> HIDE DEF R
    <3>5. T = R
      BY <1>1, <3>2, <3>3, <3>4
    <3> QED
      BY <1>1, <1>8, <2>3, <3>1, <3>5, MappedState, MappedNext DEF S, T, R
  <2>6. Len(ScopeObjects) > 1
    BY <1>1, <2>3
  <2> QED
    BY <2>2, <2>4, <2>5, <2>6 DEF Scratch!Close, Scratch!Outer, Scratch!Inner
<1> QED
  BY <1>6, <1>9, <1>10, <1>11, <1>12 DEF ScratchInv, s

\* A scope that is left without arena_rewind gives its objects to the scope
\* around it; nothing moves.
Handed(o) == [o EXCEPT !.depth = IF @ = Depth THEN @ - 1 ELSE @]

LEMMA HandedOver ==
  ASSUME NEW o \in Objects, Depth \in Nat \ {0}
  PROVE  /\ Handed(o) \in Objects /\ Handle(Handed(o)) = Handle(o)
         /\ Handed(o).at = o.at /\ Handed(o).from = o.from /\ Handed(o).size = o.size
         /\ Handed(o).depth = IF o.depth = Depth THEN o.depth - 1 ELSE o.depth
<1>1. o.depth \in 0 .. MaxDepth /\ MaxDepth \in Nat
  BY ObjectType, CallersAssumption DEF CallersAssumption
<1>2. o.depth = Depth => o.depth - 1 \in 0 .. MaxDepth
  BY <1>1
<1> DEFINE e == IF o.depth = Depth THEN o.depth - 1 ELSE o.depth
<1>3. e \in 0 .. MaxDepth
  BY <1>1, <1>2
<1>4. Handed(o) = [o EXCEPT !.depth = e]
  BY DEF Handed
<1> HIDE DEF e
<1>5. /\ Handed(o) \in Objects
      /\ Handed(o).at = o.at /\ Handed(o).from = o.from /\ Handed(o).size = o.size /\ Handed(o).depth = e
  BY <1>3, <1>4 DEF Objects
<1> QED
  BY <1>5 DEF e, Handle

LEMMA KeepKeeps ==
  ASSUME ScratchInv, KeepScope
  PROVE  ScratchInv' /\ Scratch!Keep
<1>1. /\ Depth \in Nat \ {0} /\ Depth <= MaxDepth /\ MaxDepth \in Nat /\ marks \in Seq(Scopes)
      /\ chain' = chain /\ current' = current /\ memory' = memory
      /\ marks' = SubSeq(marks, 1, Depth - 1) /\ live' = {Handed(o) : o \in live}
  BY CallersAssumption DEF KeepScope, arenaVars, ScratchInv, Nested, Depth, CallersAssumption, Handed
<1>2. /\ marks' \in Seq(Scopes) /\ Depth' = Depth - 1
      /\ \A d \in 1 .. Depth - 1 : marks'[d] = marks[d]
  BY <1>1, Shorter DEF Depth
<1>3. live \in SUBSET Objects /\ Separate(live)
  BY DEF ScratchInv, Placed, Separate
<1>4. \A o \in live : /\ o \in Objects /\ Handed(o) \in Objects /\ Handle(Handed(o)) = Handle(o)
                      /\ Handed(o).at = o.at /\ Handed(o).from = o.from /\ Handed(o).size = o.size
                      /\ Handed(o).depth = IF o.depth = Depth THEN o.depth - 1 ELSE o.depth
  BY <1>1, <1>3, HandedOver
<1>5. live' \in SUBSET Objects
  BY <1>1, <1>4
<1>6. Separate(live')
  <2> SUFFICES ASSUME NEW o \in live, NEW p \in live, Handed(o) # Handed(p)
               PROVE  Apart(Handed(o), Handed(p))
    BY <1>1 DEF Separate
  <2>1. Apart(o, p)
    BY <1>3 DEF Separate
  <2> QED
    BY <1>4, <2>1 DEF Apart
<1>7. \A c : \A o \in live : Within(o, c) => Within(Handed(o), c)
  BY <1>4 DEF Within
<1>8. Placed'
  <2>1. ASSUME NEW o \in live
        PROVE  Within(Handed(o), chain) /\ Handed(o).depth <= Depth - 1
    <3>1. Within(o, chain) /\ o.depth <= Depth /\ o.depth \in Nat
      BY <1>3, ObjectType DEF ScratchInv, Placed
    <3> QED
      BY <1>1, <1>4, <1>7, <3>1
  <2>2. \A o \in live' : Within(o, chain') /\ o.depth <= Depth'
    BY <1>1, <1>2, <2>1
  <2> QED
    BY <1>5, <1>6, <2>2 DEF Placed, Within, Apart, Separate
<1>9. Nested'
  <2>1. ASSUME NEW d \in 1 .. Depth - 1
        PROVE  /\ marks[d].mark.at = marks[d].saved[Len(marks[d].saved)].at
               /\ marks[d].mark.used = marks[d].saved[Len(marks[d].saved)].used
               /\ Extends(marks[d].saved, chain)
               /\ \A e \in 1 .. Depth - 1 : d < e => Extends(marks[d].saved, marks[e].saved)
               /\ \A o \in live' : o.depth < d => Within(o, marks[d].saved)
    <3>1. d \in 1 .. Depth /\ d \in Nat /\ d < Depth /\ 1 .. Depth - 1 \subseteq 1 .. Depth
      BY <1>1
    <3>2. /\ marks[d].mark.at = marks[d].saved[Len(marks[d].saved)].at
          /\ marks[d].mark.used = marks[d].saved[Len(marks[d].saved)].used
          /\ Extends(marks[d].saved, chain)
          /\ \A e \in 1 .. Depth - 1 : d < e => Extends(marks[d].saved, marks[e].saved)
          /\ \A o \in live : o.depth < d => Within(o, marks[d].saved)
      BY <3>1 DEF ScratchInv, Nested
    <3>3. ASSUME NEW o \in live, Handed(o).depth < d
          PROVE  Within(Handed(o), marks[d].saved)
      <4>1. o.depth \in Nat
        BY <1>3, ObjectType
      <4>2. o.depth < d
        BY <1>1, <1>4, <3>1, <3>3, <4>1
      <4> QED
        BY <1>7, <3>2, <4>2
    <3> QED
      BY <1>1, <3>2, <3>3
  <2>2. Depth' <= MaxDepth
    BY <1>1, <1>2
  <2>3. \A d \in 1 .. Depth - 1 :
          /\ marks'[d].mark.at = marks'[d].saved[Len(marks'[d].saved)].at
          /\ marks'[d].mark.used = marks'[d].saved[Len(marks'[d].saved)].used
          /\ Extends(marks'[d].saved, chain')
          /\ \A e \in 1 .. Depth - 1 : d < e => Extends(marks'[d].saved, marks'[e].saved)
          /\ \A o \in live' : o.depth < d => Within(o, marks'[d].saved)
    BY <1>1, <1>2, <2>1
  <2> QED
    BY <1>2, <2>2, <2>3 DEF Nested, Extends, Within
<1>10. Chained'
  BY <1>1 DEF ScratchInv, Chained
<1>11. Scratch!Keep
  <2>1. Handles(live') = Handles(live)
    BY <1>1, <1>4 DEF Handles
  <2>2. Contents' = Contents
    <3>1. ASSUME NEW o \in live
          PROVE  ContentsOf(live', memory)[Handle(o)] = ContentsOf(live, memory)[Handle(o)]
      <4>1. Handed(o) \in live' /\ Handle(Handed(o)) = Handle(o)
        BY <1>1, <1>4
      <4>2. ContentsOf(live', memory)[Handle(Handed(o))] = HeldIn(Handed(o), memory)
        BY <1>5, <1>6, <4>1, ContentsAre
      <4>3. ContentsOf(live, memory)[Handle(o)] = HeldIn(o, memory)
        BY <1>3, ContentsAre
      <4>4. HeldIn(Handed(o), memory) = HeldIn(o, memory)
        BY <1>4 DEF HeldIn
      <4> QED
        BY <4>1, <4>2, <4>3, <4>4
    <3>2. \A x \in Handles(live) : ContentsOf(live', memory)[x] = ContentsOf(live, memory)[x]
      BY <3>1 DEF Handles
    <3>3. /\ ContentsOf(live', memory) = [x \in Handles(live) |-> ContentsOf(live', memory)[x]]
          /\ ContentsOf(live, memory) = [x \in Handles(live) |-> ContentsOf(live, memory)[x]]
      BY <2>1 DEF ContentsOf
    <3>4. ContentsOf(live', memory) = ContentsOf(live, memory)
      BY <3>2, <3>3
    <3> QED
      BY <1>1, <3>4, MappedState, MappedNext
  <2> DEFINE S == ScopesOf(live, Depth)
             T == ScopesOf(live', Depth - 1)
             R == SubSeq(S, 1, Depth)
             Q == [R EXCEPT ![Depth] = @ \cup S[Depth + 1]]
  <2>3. /\ Len(S) = Depth + 1 /\ S \in Seq(SUBSET Handles(live))
        /\ \A i \in 1 .. Depth + 1 : S[i] = Handles({o \in live : o.depth = i - 1})
    BY <1>1, ScopesLength DEF ScopesOf, Handles
  <2>4. /\ T \in Seq(SUBSET Handles(live)) /\ Len(T) = Depth
        /\ \A i \in 1 .. Depth : T[i] = Handles({o \in live' : o.depth = i - 1})
    <3>1. \A i \in 1 .. Depth : Handles({o \in live' : o.depth = i - 1}) \in SUBSET Handles(live)
      BY <2>1 DEF Handles
    <3>2. T = [i \in 1 .. Depth |-> Handles({o \in live' : o.depth = i - 1})]
      BY <1>1 DEF ScopesOf
    <3> HIDE DEF T
    <3>3. T \in [1 .. Depth -> SUBSET Handles(live)]
      BY <3>1, <3>2
    <3>4. \A i \in 1 .. Depth : T[i] = Handles({o \in live' : o.depth = i - 1})
      BY <3>2
    <3>5. T \in Seq(SUBSET Handles(live)) /\ Len(T) = Depth
      BY <1>1, <3>3, ListOf
    <3> QED
      BY <3>4, <3>5
  <2> HIDE DEF S, T
  <2>5. R \in Seq(SUBSET Handles(live)) /\ Len(R) = Depth /\ \A i \in 1 .. Depth : R[i] = S[i]
    <3>1. Depth = Len(S) - 1 /\ Len(S) > 0
      BY <1>1, <2>3
    <3> QED
      BY <2>3, <3>1, Shorter
  <2>6. S[Depth + 1] \in SUBSET Handles(live) /\ S[Depth + 1] = Handles({o \in live : o.depth = Depth})
    <3>1. Depth + 1 \in 1 .. Depth + 1 /\ (Depth + 1) - 1 = Depth
      BY <1>1
    <3> QED
      BY <2>3, <3>1
  <2> HIDE DEF R
  <2>7. /\ Q \in Seq(SUBSET Handles(live)) /\ Len(Q) = Depth /\ Q[Depth] = R[Depth] \cup S[Depth + 1]
        /\ \A i \in 1 .. Depth - 1 : Q[i] = R[i]
    <3>1. R[Depth] \cup S[Depth + 1] \in SUBSET Handles(live) /\ Depth \in 1 .. Depth
      BY <1>1, <2>5, <2>6
    <3> QED
      BY <1>1, <2>5, <3>1
  <2>8. \A i \in 1 .. Depth : T[i] = Q[i]
    <3> TAKE i \in 1 .. Depth
    <3>1. i \in 1 .. Depth + 1 /\ i \in Nat
      BY <1>1
    <3>2. CASE i = Depth
      <4>1. R[i] = Handles({o \in live : o.depth = Depth - 1})
        BY <2>3, <2>5, <3>1, <3>2
      <4>2. Handles({o \in live' : o.depth = Depth - 1}) =
              Handles({o \in live : o.depth = Depth - 1}) \cup Handles({o \in live : o.depth = Depth})
        <5>1. \A o \in live : o.depth \in Nat
          BY <1>3, ObjectType
        <5>2. \A o \in live : Handed(o).depth = Depth - 1 <=> o.depth = Depth - 1 \/ o.depth = Depth
          BY <1>1, <1>4, <5>1
        <5> QED
          BY <1>1, <1>4, <5>2 DEF Handles
      <4> QED
        BY <2>4, <2>6, <2>7, <3>2, <4>1, <4>2
    <3>3. CASE i # Depth
      <4>1. i \in 1 .. Depth - 1
        BY <1>1, <3>1, <3>3
      <4>2. Handles({o \in live' : o.depth = i - 1}) = Handles({o \in live : o.depth = i - 1})
        <5>1. \A o \in live : o.depth \in Nat
          BY <1>3, ObjectType
        <5>2. \A o \in live : Handed(o).depth = i - 1 <=> o.depth = i - 1
          BY <1>1, <1>4, <4>1, <5>1
        <5> QED
          BY <1>1, <1>4, <5>2 DEF Handles
      <4> QED
        BY <2>3, <2>4, <2>5, <2>7, <3>1, <4>1, <4>2
    <3> QED
      BY <3>2, <3>3
  <2> HIDE DEF Q
  <2>9. T = Q
    BY <1>1, <2>4, <2>7, <2>8
  <2>10. ScopeObjects = S /\ ScopeObjects' = T
    BY <1>2, MappedState, MappedNext DEF S, T
  <2>11. /\ Len(ScopeObjects) = Depth + 1 /\ Len(ScopeObjects) > 1
         /\ SubSeq(ScopeObjects, 1, Len(ScopeObjects) - 1) = R /\ Len(R) = Depth
    BY <1>1, <2>3, <2>5, <2>10 DEF R
  <2>12. ScopeObjects' = [R EXCEPT ![Len(R)] = @ \cup ScopeObjects[Len(ScopeObjects)]]
    BY <2>9, <2>10, <2>11 DEF Q
  <2> QED
    BY <2>2, <2>11, <2>12 DEF Scratch!Keep, Scratch!Outer, Scratch!Inner
<1> QED
  BY <1>8, <1>9, <1>10, <1>11 DEF ScratchInv

LEMMA OneBlock ==
  ASSUME NEW b \in Block, b.used <= b.capacity
  PROVE  <<b>> \in Chains /\ Len(<<b>>) = 1
BY DEF Chains

LEMMA NoScopes ==
  ASSUME live' = {}, marks' = << >>
  PROVE  Placed' /\ Nested' /\ Scratch!Clear
<1>1. Depth' = 0
  BY DEF Depth
<1>2. Placed'
  BY DEF Placed
<1>3. Nested'
  <2>1. << >> \in Seq(Scopes) /\ \A d \in 1 .. 0 : FALSE /\ 0 <= MaxDepth
    BY CallersAssumption DEF CallersAssumption
  <2>2. 0 <= MaxDepth
    BY CallersAssumption DEF CallersAssumption
  <2> QED
    BY <1>1, <2>1, <2>2 DEF Nested
<1>4. Contents' = << >>
  <2>1. Handles({}) = {}
    BY DEF Handles
  <2>2. ContentsOf({}, memory') = << >>
    BY <2>1 DEF ContentsOf
  <2> QED
    BY <2>2, MappedNext
<1>5. ScopeObjects' = <<{}>>
  <2>1. ScopesOf({}, 0) = <<{}>>
    BY DEF ScopesOf, Handles
  <2> QED
    BY <1>1, <2>1, MappedNext
<1> QED
  BY <1>2, <1>3, <1>4, <1>5 DEF Scratch!Clear

LEMMA StartKeeps ==
  ASSUME ScratchInv, StartAgain
  PROVE  ScratchInv' /\ Scratch!Clear
<1> DEFINE b == [chain[1] EXCEPT !.used = 0]
<1>1. /\ chain' = <<b>> /\ current' = 1 /\ memory' = Poisoned(1, 0) /\ live' = {} /\ marks' = << >>
  BY DEF StartAgain, Reset
<1>2. chain \in Chains /\ memory \in [Blocks -> [Cells -> Values]]
  BY DEF ScratchInv, Chained
<1>3. chain[1] \in Block /\ 0 <= chain[1].capacity
  BY <1>2, ChainType
<1>4. b \in Block /\ b.used <= b.capacity
  BY <1>3, FilledBlock
<1> HIDE DEF b
<1>5. chain' \in Chains /\ current' = Len(chain')
  BY <1>1, <1>4, OneBlock
<1>6. memory' \in [Blocks -> [Cells -> Values]]
  BY <1>1, <1>2, ArenaAssumption DEF Poisoned, ArenaAssumption
<1> QED
  BY <1>1, <1>5, <1>6, NoScopes DEF ScratchInv, Chained

LEMMA InitScratch == Init => ScratchInv /\ Scratch!Init
<1> SUFFICES ASSUME Init PROVE ScratchInv /\ Scratch!Init
  OBVIOUS
<1>1. Depth = 0 /\ live = {} /\ marks = << >>
  BY DEF Init, Depth
<1>2. PICK b \in Blocks : chain = <<[at |-> b, capacity |-> BlockSize, used |-> 0]>>
  BY DEF Init, InitArena
<1>3. /\ [at |-> b, capacity |-> BlockSize, used |-> 0] \in Block
      /\ BlockSize \in Nat /\ Junk \in Values
  BY ArenaAssumption DEF ArenaAssumption, Block
<1>4. chain \in Chains /\ Len(chain) = 1
  BY <1>2, <1>3, OneBlock
<1>5. Chained
  BY <1>3, <1>4 DEF Init, InitArena, Chained
<1>6. Placed
  BY <1>1 DEF Placed
<1>7. Nested
  <2>1. << >> \in Seq(Scopes) /\ 0 <= MaxDepth
    BY CallersAssumption DEF CallersAssumption
  <2> QED
    BY <1>1, <2>1 DEF Nested
<1>8. Contents = << >>
  <2>1. Handles({}) = {}
    BY DEF Handles
  <2>2. ContentsOf({}, memory) = << >>
    BY <2>1 DEF ContentsOf
  <2> QED
    BY <1>1, <2>2, MappedState
<1>9. ScopeObjects = <<{}>>
  <2>1. ScopesOf({}, 0) = <<{}>>
    BY DEF ScopesOf, Handles
  <2> QED
    BY <1>1, <2>1, MappedState
<1> QED
  BY <1>5, <1>6, <1>7, <1>8, <1>9 DEF ScratchInv, Scratch!Init

LEMMA NextScratch ==
  ASSUME ScratchInv, [Next]_scratchVars
  PROVE  ScratchInv' /\ [Scratch!Next]_<<Contents, ScopeObjects>>
<1>1. CASE AllocRaw \/ Calloc \/ MemdupNothing \/ Memdup \/ ReallocCopy \/ Strndup
  BY <1>1, AllocatorsKeep DEF Scratch!Next
<1>2. CASE Fill
  BY <1>2, FillKeeps DEF Scratch!Next
<1>3. CASE OpenScope
  BY <1>3, OpenKeeps DEF Scratch!Next
<1>4. CASE CloseScope
  BY <1>4, CloseKeeps DEF Scratch!Next
<1>5. CASE KeepScope
  BY <1>5, KeepKeeps DEF Scratch!Next
<1>6. CASE StartAgain
  BY <1>6, StartKeeps DEF Scratch!Next
<1>7. CASE UNCHANGED scratchVars
  <2>1. /\ chain' = chain /\ current' = current /\ memory' = memory /\ live' = live /\ marks' = marks
        /\ Depth' = Depth
    BY <1>7 DEF scratchVars, arenaVars, Depth
  <2>2. Contents' = Contents /\ ScopeObjects' = ScopeObjects
    BY <2>1, MappedState, MappedNext
  <2>3. ScratchInv'
    BY <2>1 DEF ScratchInv, Chained, Placed, Nested, Within, Extends, Apart
  <2> QED
    BY <2>2, <2>3
<1> QED
  BY <1>1, <1>2, <1>3, <1>4, <1>5, <1>6, <1>7 DEF Next

LEMMA ScratchInvariant == Spec => []ScratchInv
<1>1. ScratchInv /\ [Next]_scratchVars => ScratchInv'
  BY NextScratch
<1> QED
  BY <1>1, InitScratch, PTL DEF Spec

-----------------------------------------------------------------------------
(* The counters.  What SizeOf computes is defined by recursion; its        *)
(* properties are shown by the least index where they would fail.          *)

LEMMA Least ==
  ASSUME NEW T \in SUBSET Nat, T # {}
  PROVE  \E x \in T : \A y \in T : x <= y
<1>1. PICK x \in T : \A y \in T : ~(<<y, x>> \in OpToRel(<, Nat))
  BY NatLessThanWellFounded, WFMin
<1>2. \A y \in T : ~(y < x)
  BY <1>1 DEF OpToRel
<1> QED
  BY <1>2

\* g holds the sums over the first blocks of c, up to n of them.
IsTotal(g, field, c, n) == g = [k \in 0 .. n |-> IF k = 0 THEN 0 ELSE g[k - 1] + c[k][field]]

Counted == {"used", "capacity"}

LEMMA FieldType ==
  ASSUME NEW c \in Chains, NEW f \in Counted
  PROVE  Len(c) \in Nat \ {0} /\ \A i \in 1 .. Len(c) : c[i][f] \in Nat
<1>1. CASE f = "used"
  BY <1>1, ChainType
<1>2. CASE f = "capacity"
  BY <1>2, ChainType
<1> QED
  BY <1>1, <1>2 DEF Counted

LEMMA TotalExists ==
  ASSUME NEW n \in Nat, NEW c, NEW f, \A i \in 1 .. n : c[i][f] \in Nat
  PROVE  \E g : IsTotal(g, f, c, n)
<1> DEFINE T == {m \in 0 .. n : ~ \E g : IsTotal(g, f, c, m)}
<1>1. CASE T = {}
  <2> SUFFICES ASSUME ~ \E g : IsTotal(g, f, c, n) PROVE FALSE
    OBVIOUS
  <2>1. n \in T
    OBVIOUS
  <2> QED
    BY <1>1, <2>1
<1>2. CASE T # {}
  <2>1. PICK m \in T : \A y \in T : m <= y
    <3>1. T \in SUBSET Nat
      OBVIOUS
    <3> HIDE DEF T
    <3> QED
      BY <1>2, <3>1, Least
  <2>2. m # 0
    <3>1. IsTotal([k \in 0 .. 0 |-> 0], f, c, 0)
      BY DEF IsTotal
    <3> QED
      BY <3>1
  <2>3. PICK h : IsTotal(h, f, c, m - 1)
    BY <2>1, <2>2
  <2> DEFINE g == [k \in 0 .. m |-> IF k = m THEN h[m - 1] + c[m][f] ELSE h[k]]
  <2>4. \A k \in 0 .. m : g[k] = IF k = 0 THEN 0 ELSE g[k - 1] + c[k][f]
    BY <2>2, <2>3 DEF IsTotal
  <2>5. g = [k \in 0 .. m |-> g[k]]
    OBVIOUS
  <2> HIDE DEF g
  <2>6. IsTotal(g, f, c, m)
    BY <2>4, <2>5 DEF IsTotal
  <2> QED
    BY <2>6
<1> QED
  BY <1>1, <1>2

LEMMA SizeIsTotal ==
  ASSUME NEW c \in Chains, NEW f \in Counted
  PROVE  \E g : IsTotal(g, f, c, Len(c)) /\ SizeOf(f, c) = g[Len(c)]
<1> DEFINE g == CHOOSE g : IsTotal(g, f, c, Len(c))
<1>1. IsTotal(g, f, c, Len(c))
  BY FieldType, TotalExists
<1>2. SizeOf(f, c) = g[Len(c)]
  BY DEF SizeOf, IsTotal
<1> QED
  BY <1>1, <1>2

LEMMA TotalStep ==
  ASSUME NEW g, NEW f, NEW c, NEW n \in Nat, IsTotal(g, f, c, n)
  PROVE  g[0] = 0 /\ \A k \in 1 .. n : g[k] = g[k - 1] + c[k][f]
<1>1. \A k \in 0 .. n : g[k] = IF k = 0 THEN 0 ELSE g[k - 1] + c[k][f]
  BY DEF IsTotal
<1> QED
  BY <1>1

\* Smaller terms, smaller sums.
LEMMA TotalsCompare ==
  ASSUME NEW g, NEW f, NEW c, NEW a \in Nat, IsTotal(g, f, c, a),
         NEW h, NEW e, NEW d, NEW b \in Nat, IsTotal(h, e, d, b),
         NEW n \in Nat, n <= a, n <= b,
         \A i \in 1 .. n : c[i][f] \in Nat /\ d[i][e] \in Nat /\ c[i][f] <= d[i][e]
  PROVE  g[n] \in Nat /\ h[n] \in Nat /\ g[n] <= h[n]
<1> DEFINE T == {m \in 0 .. n : ~(g[m] \in Nat /\ h[m] \in Nat /\ g[m] <= h[m])}
<1>1. CASE T = {}
  <2> SUFFICES ASSUME ~(g[n] \in Nat /\ h[n] \in Nat /\ g[n] <= h[n]) PROVE FALSE
    OBVIOUS
  <2>1. n \in T
    OBVIOUS
  <2> QED
    BY <1>1, <2>1
<1>2. CASE T # {}
  <2>1. PICK m \in T : \A y \in T : m <= y
    <3>1. T \in SUBSET Nat
      OBVIOUS
    <3> HIDE DEF T
    <3> QED
      BY <1>2, <3>1, Least
  <2>2. m # 0
    BY TotalStep
  <2>3. m - 1 \in 0 .. n /\ m - 1 \notin T /\ m \in 1 .. n
    BY <2>1, <2>2
  <2>4. g[m - 1] \in Nat /\ h[m - 1] \in Nat /\ g[m - 1] <= h[m - 1]
    BY <2>3
  <2>5. g[m] = g[m - 1] + c[m][f] /\ h[m] = h[m - 1] + d[m][e]
    BY <2>3, TotalStep
  <2>6. c[m][f] \in Nat /\ d[m][e] \in Nat /\ c[m][f] <= d[m][e]
    BY <2>3
  <2> QED
    BY <2>4, <2>5, <2>6
<1> QED
  BY <1>1, <1>2

LEMMA TotalsGrow ==
  ASSUME NEW g, NEW f, NEW c, NEW a \in Nat, IsTotal(g, f, c, a), \A i \in 1 .. a : c[i][f] \in Nat,
         NEW n \in 0 .. a
  PROVE  g[n] \in Nat /\ g[a] \in Nat /\ g[n] <= g[a]
<1>1. \A i \in 0 .. a : g[i] \in Nat
  BY TotalsCompare
<1> DEFINE T == {m \in n .. a : ~(g[n] <= g[m])}
<1>2. CASE T = {}
  <2> SUFFICES ASSUME ~(g[n] <= g[a]) PROVE FALSE
    BY <1>1
  <2>1. a \in T
    OBVIOUS
  <2> QED
    BY <1>2, <2>1
<1>3. CASE T # {}
  <2>1. PICK m \in T : \A y \in T : m <= y
    <3>1. T \in SUBSET Nat
      OBVIOUS
    <3> HIDE DEF T
    <3> QED
      BY <1>3, <3>1, Least
  <2>2. m # n
    BY <1>1, <2>1
  <2>3. m - 1 \in n .. a /\ m - 1 \notin T /\ m \in 1 .. a /\ m - 1 \in 0 .. a
    BY <2>1, <2>2
  <2>4. g[m] = g[m - 1] + c[m][f] /\ c[m][f] \in Nat
    BY <2>3, TotalStep
  <2> QED
    BY <1>1, <2>1, <2>3, <2>4
<1> QED
  BY <1>2, <1>3

\* A chain with smaller blocks, and no more of them, has a smaller sum.
LEMMA SizeBelow ==
  ASSUME NEW c \in Chains, NEW f \in Counted, NEW d \in Chains, NEW e \in Counted,
         Len(c) <= Len(d), \A i \in 1 .. Len(c) : c[i][f] <= d[i][e]
  PROVE  SizeOf(f, c) \in Nat /\ SizeOf(e, d) \in Nat /\ SizeOf(f, c) <= SizeOf(e, d)
<1>1. PICK g : IsTotal(g, f, c, Len(c)) /\ SizeOf(f, c) = g[Len(c)]
  BY SizeIsTotal
<1>2. PICK h : IsTotal(h, e, d, Len(d)) /\ SizeOf(e, d) = h[Len(d)]
  BY SizeIsTotal
<1>3. /\ Len(c) \in Nat /\ Len(d) \in Nat /\ Len(c) \in 0 .. Len(d)
      /\ \A i \in 1 .. Len(c) : c[i][f] \in Nat
      /\ \A i \in 1 .. Len(d) : d[i][e] \in Nat
  BY FieldType
<1>4. g[Len(c)] \in Nat /\ h[Len(c)] \in Nat /\ g[Len(c)] <= h[Len(c)]
  BY <1>1, <1>2, <1>3, TotalsCompare
<1>5. h[Len(d)] \in Nat /\ h[Len(c)] <= h[Len(d)]
  BY <1>2, <1>3, TotalsGrow
<1> QED
  BY <1>1, <1>2, <1>4, <1>5

\* The same terms, the same sums.
LEMMA TotalsAgree ==
  ASSUME NEW f,
         NEW g, NEW c, NEW a \in Nat, IsTotal(g, f, c, a), NEW h, NEW d, NEW b \in Nat, IsTotal(h, f, d, b),
         NEW n \in Nat, n <= a, n <= b, \A i \in 1 .. n : c[i][f] \in Nat /\ d[i][f] = c[i][f]
  PROVE  g[n] \in Nat /\ h[n] = g[n]
<1>1. \A i \in 1 .. n : c[i][f] \in Nat /\ d[i][f] \in Nat /\ c[i][f] <= d[i][f]
  OBVIOUS
<1>2. \A i \in 1 .. n : d[i][f] \in Nat /\ c[i][f] \in Nat /\ d[i][f] <= c[i][f]
  OBVIOUS
<1>3. g[n] \in Nat /\ h[n] \in Nat /\ g[n] <= h[n]
  BY <1>1, TotalsCompare
<1>4. h[n] <= g[n]
  BY <1>2, TotalsCompare
<1> QED
  BY <1>3, <1>4

\* The sum of a chain that goes on after the first n blocks of another.
LEMMA SizeSplit ==
  ASSUME NEW c \in Chains, NEW f \in Counted, NEW g, IsTotal(g, f, c, Len(c)),
         NEW d \in Chains, NEW n \in 0 .. Len(c), Len(d) = n + 1, \A i \in 1 .. n : d[i][f] = c[i][f]
  PROVE  g[n] \in Nat /\ SizeOf(f, d) = g[n] + d[n + 1][f]
<1>1. PICK h : IsTotal(h, f, d, Len(d)) /\ SizeOf(f, d) = h[Len(d)]
  BY SizeIsTotal
<1> DEFINE a == Len(c)
           b == Len(d)
<1>2. /\ a \in Nat /\ n \in Nat /\ n <= a /\ n <= b /\ b \in Nat /\ b = n + 1
      /\ \A i \in 1 .. n : c[i][f] \in Nat /\ d[i][f] = c[i][f]
  BY FieldType
<1>3. IsTotal(h, f, d, b) /\ IsTotal(g, f, c, a) /\ SizeOf(f, d) = h[b]
  BY <1>1
<1> HIDE DEF a, b
<1>4. g[n] \in Nat /\ h[n] = g[n]
  BY <1>2, <1>3, TotalsAgree
<1>5. h[n + 1] = h[n] + d[n + 1][f]
  <2>1. n + 1 \in 1 .. b /\ (n + 1) - 1 = n
    BY <1>2
  <2>2. b \in Nat
    BY <1>2
  <2>3. IsTotal(h, f, d, b)
    BY <1>3
  <2>4. \A k \in 1 .. b : h[k] = h[k - 1] + d[k][f]
    BY <2>2, <2>3, TotalStep
  <2> QED
    BY <2>1, <2>4
<1> QED
  BY <1>2, <1>3, <1>4, <1>5

LEMMA SizeOfOne ==
  ASSUME NEW c \in Chains, NEW f \in Counted, Len(c) = 1
  PROVE  SizeOf(f, c) = c[1][f]
<1>1. PICK h : IsTotal(h, f, c, Len(c)) /\ SizeOf(f, c) = h[Len(c)]
  BY SizeIsTotal
<1>2. c[1][f] \in Nat
  BY FieldType
<1>3. h[0] = 0 /\ \A k \in 1 .. 1 : h[k] = h[k - 1] + c[k][f]
  <2>1. IsTotal(h, f, c, 1)
    BY <1>1
  <2> QED
    BY <2>1, TotalStep
<1>4. h[1] = h[0] + c[1][f]
  BY <1>3
<1> QED
  BY <1>1, <1>2, <1>3, <1>4

LEMMA SizeOfMore ==
  ASSUME NEW c \in Chains, NEW b \in Block, Append(c, b) \in Chains, NEW f \in Counted
  PROVE  SizeOf(f, Append(c, b)) = SizeOf(f, c) + b[f]
<1>1. PICK g : IsTotal(g, f, c, Len(c)) /\ SizeOf(f, c) = g[Len(c)]
  BY SizeIsTotal
<1> DEFINE d == Append(c, b)
<1>2. /\ Len(d) = Len(c) + 1 /\ Len(c) \in 0 .. Len(c) /\ d[Len(c) + 1] = b
      /\ \A i \in 1 .. Len(c) : d[i] = c[i]
  <2>1. c \in Seq(Block) /\ Len(c) \in Nat
    BY ChainType DEF Chains
  <2> QED
    BY <2>1
<1> HIDE DEF d
<1>3. d \in Chains
  BY DEF d
<1>4. SizeOf(f, d) = g[Len(c)] + d[Len(c) + 1][f]
  BY <1>1, <1>2, <1>3, SizeSplit
<1> QED
  BY <1>1, <1>2, <1>4 DEF d

LEMMA SizeOfFilled ==
  ASSUME NEW c \in Chains, NEW d \in Chains, Len(d) = Len(c), \A i \in 1 .. Len(c) - 1 : d[i] = c[i],
         NEW f \in Counted
  PROVE  SizeOf(f, d) + c[Len(c)][f] = SizeOf(f, c) + d[Len(c)][f]
<1>1. PICK g : IsTotal(g, f, c, Len(c)) /\ SizeOf(f, c) = g[Len(c)]
  BY SizeIsTotal
<1> DEFINE n == Len(c) - 1
<1>2. /\ n \in 0 .. Len(c) /\ Len(d) = n + 1 /\ Len(c) = n + 1 /\ \A i \in 1 .. n : d[i][f] = c[i][f]
      /\ c[n + 1][f] \in Nat /\ d[n + 1][f] \in Nat
  BY FieldType
<1> HIDE DEF n
<1>3. g[n] \in Nat /\ SizeOf(f, d) = g[n] + d[n + 1][f]
  BY <1>1, <1>2, SizeSplit
<1>4. SizeOf(f, c) = g[n] + c[n + 1][f]
  BY <1>1, <1>2, SizeSplit
<1>5. /\ SizeOf(f, d) + c[n + 1][f] = SizeOf(f, c) + d[n + 1][f]
      /\ c[Len(c)] = c[n + 1] /\ d[Len(c)] = d[n + 1]
  <2> DEFINE x == g[n]
             u == c[n + 1][f]
             v == d[n + 1][f]
  <2>1. x \in Nat /\ u \in Nat /\ v \in Nat
    BY <1>2, <1>3
  <2>2. SizeOf(f, d) = x + v /\ SizeOf(f, c) = x + u /\ Len(c) = n + 1
    BY <1>2, <1>3, <1>4
  <2> HIDE DEF x, u, v
  <2>3. SizeOf(f, d) + u = SizeOf(f, c) + v
    BY <2>1, <2>2
  <2> QED
    BY <2>2, <2>3 DEF u, v
<1> QED
  BY <1>5

\* The counters as arena_alloc, arena_rewind and arena_reset keep them up.
StatsInv ==
  /\ stats \in [used : Nat, peakUsed : Nat, capacity : Nat, peakCapacity : Nat, blocks : Nat, total : Nat]
  /\ StatsAreExact

\* In every chain no more is used than there is room for.
LEMMA UsedFits ==
  ASSUME NEW c \in Chains
  PROVE  SizeOf("used", c) \in Nat /\ SizeOf("capacity", c) \in Nat /\ SizeOf("used", c) <= SizeOf("capacity", c)
<1>1. Len(c) \in Nat /\ \A i \in 1 .. Len(c) : c[i]["used"] <= c[i]["capacity"]
  BY ChainType
<1> QED
  BY <1>1, SizeBelow DEF Counted

\* A chain that another one extends has smaller sums.
LEMMA ExtensionsCount ==
  ASSUME NEW s \in Chains, NEW c \in Chains, Extends(s, c), NEW f \in Counted
  PROVE  SizeOf(f, s) <= SizeOf(f, c) /\ Len(s) <= Len(c)
<1>1. Len(s) <= Len(c) /\ Len(s) \in Nat \ {0} /\ Len(c) \in Nat
  BY ChainType DEF Extends
<1>2. ASSUME NEW i \in 1 .. Len(s) PROVE s[i][f] <= c[i][f]
  <2>1. i \in 1 .. Len(c) /\ s[i][f] \in Nat /\ c[i][f] \in Nat
    BY <1>1, FieldType
  <2>2. CASE i = Len(s)
    <3>1. s[i]["used"] <= c[i]["used"] /\ s[i]["capacity"] = c[i]["capacity"]
      BY <2>2 DEF Extends
    <3>2. CASE f = "used"
      BY <3>1, <3>2
    <3>3. CASE f = "capacity"
      BY <2>1, <3>1, <3>3
    <3> QED
      BY <3>2, <3>3 DEF Counted
  <2>3. CASE i # Len(s)
    <3>1. c[i] = s[i]
      BY <1>1, <2>3 DEF Extends
    <3> QED
      BY <2>1, <3>1
  <2> QED
    BY <2>2, <2>3
<1> QED
  BY <1>1, <1>2, SizeBelow

\* What Refreshed makes of the counters, when the chain became no longer.
LEMMA StatsRefreshed ==
  ASSUME StatsInv, chain \in Chains, NEW c \in Chains, Extends(c, chain), chain' = c, stats' = Refreshed(c)
  PROVE  StatsInv'
<1> DEFINE u == SizeOf("used", c)
           v == SizeOf("capacity", c)
           n == Len(c)
<1>1. /\ u \in Nat /\ v \in Nat /\ u <= v /\ n \in Nat
      /\ u <= SizeOf("used", chain) /\ v <= SizeOf("capacity", chain) /\ n <= Len(chain)
  BY UsedFits, ExtensionsCount, ChainType DEF Counted
<1>2. /\ stats'.used = u /\ stats'.capacity = v /\ stats'.blocks = n
      /\ stats'.peakUsed = stats.peakUsed /\ stats'.peakCapacity = stats.peakCapacity /\ stats'.total = stats.total
      /\ stats' \in [used : Nat, peakUsed : Nat, capacity : Nat, peakCapacity : Nat, blocks : Nat, total : Nat]
  BY <1>1 DEF StatsInv, Refreshed
<1>3. /\ stats.used = SizeOf("used", chain) /\ stats.capacity = SizeOf("capacity", chain)
      /\ stats.blocks = Len(chain) /\ stats.blocks <= stats.total
      /\ stats.used <= stats.peakUsed /\ stats.peakUsed <= stats.peakCapacity
      /\ stats.capacity <= stats.peakCapacity
      /\ stats.used \in Nat /\ stats.capacity \in Nat /\ stats.blocks \in Nat
      /\ stats.total \in Nat /\ stats.peakUsed \in Nat /\ stats.peakCapacity \in Nat
  BY DEF StatsInv, StatsAreExact
<1>4. stats'.used = SizeOf("used", chain') /\ stats'.capacity = SizeOf("capacity", chain') /\ stats'.blocks = Len(chain')
  BY <1>2
<1> HIDE DEF u, v, n
<1>5. /\ stats'.blocks <= stats'.total /\ stats'.used <= stats'.peakUsed
      /\ stats'.peakUsed <= stats'.peakCapacity /\ stats'.capacity <= stats'.peakCapacity
  BY <1>1, <1>2, <1>3
<1> QED
  BY <1>2, <1>4, <1>5 DEF StatsInv, StatsAreExact

\* arena_alloc takes from the last block, or puts a block behind it.
LEMMA StatsAllocated ==
  ASSUME StatsInv, Chained, NEW n \in 0 .. SizeMod - 1, NEW h \in Places(n), NEW w, Alloc(n, h, w)
  PROVE  StatsInv'
<1> DEFINE a == AlignUp(n)
           m == Len(chain)
           u == SizeOf("used", chain)
           v == SizeOf("capacity", chain)
           u1 == SizeOf("used", chain')
           v1 == SizeOf("capacity", chain')
<1>1. a \in Nat
  BY Aligned DEF Alloc
<1>2. chain \in Chains /\ chain' \in Chains /\ current = m /\ m \in Nat \ {0}
  BY Allocated, ChainType DEF Chained
<1>3. u \in Nat /\ v \in Nat /\ u1 \in Nat /\ v1 \in Nat /\ u1 <= v1
  BY <1>2, UsedFits
<1>4. /\ stats.used = u /\ stats.capacity = v /\ stats.blocks = m /\ stats.blocks <= stats.total
      /\ stats.used <= stats.peakUsed /\ stats.peakUsed <= stats.peakCapacity
      /\ stats.capacity <= stats.peakCapacity
      /\ stats.total \in Nat /\ stats.peakUsed \in Nat /\ stats.peakCapacity \in Nat
  BY DEF StatsInv, StatsAreExact
<1>5. CASE /\ Fits(n) /\ chain' = [chain EXCEPT ![current].used = @ + a]
           /\ stats' = [stats EXCEPT !.used = @ + a, !.peakUsed = Greater(@, stats.used + a)]
  <2>1. a <= chain[m].capacity - chain[m].used
    BY <1>2, <1>5 DEF Fits
  <2>2. /\ Len(chain') = m /\ Extends(chain, chain') /\ chain'[m].used = chain[m].used + a
    BY <1>1, <1>2, <1>5, <2>1, Filling
  <2>3. chain'[m].capacity = chain[m].capacity /\ \A i \in 1 .. m - 1 : chain'[i] = chain[i]
    BY <2>2 DEF Extends
  <2>4. chain[m].used \in Nat /\ chain[m].capacity \in Nat
    BY <1>2, ChainType
  <2>5. \A f \in Counted : SizeOf(f, chain') + chain[m][f] = SizeOf(f, chain) + chain'[m][f]
    BY <1>2, <2>2, <2>3, SizeOfFilled
  <2>6. u1 = u + a /\ v1 = v
    <3>1. u1 + chain[m]["used"] = u + chain'[m]["used"]
      BY <2>5 DEF Counted
    <3>2. v1 + chain[m]["capacity"] = v + chain'[m]["capacity"]
      BY <2>5 DEF Counted
    <3>3. chain'[m]["used"] = chain[m]["used"] + a /\ chain'[m]["capacity"] = chain[m]["capacity"]
      BY <2>2, <2>3
    <3>4. chain[m]["used"] \in Nat /\ chain[m]["capacity"] \in Nat
      BY <2>4
    <3> DEFINE y == chain[m]["used"]
               z == chain[m]["capacity"]
    <3>5. u1 + y = u + (y + a) /\ v1 + z = v + z /\ y \in Nat /\ z \in Nat
      BY <3>1, <3>2, <3>3, <3>4
    <3> HIDE DEF a, m, u, v, u1, v1, y, z
    <3> QED
      BY <1>1, <1>3, <3>5
  <2> HIDE DEF a, m, u, v, u1, v1
  <2>7. /\ stats'.used = u + a /\ stats'.peakUsed = Greater(stats.peakUsed, u + a)
        /\ stats'.capacity = v /\ stats'.peakCapacity = stats.peakCapacity
        /\ stats'.blocks = m /\ stats'.total = stats.total
        /\ stats' \in [used : Nat, peakUsed : Nat, capacity : Nat, peakCapacity : Nat, blocks : Nat, total : Nat]
    <3> DEFINE p == Greater(stats.peakUsed, stats.used + a)
    <3>1. stats.used + a \in Nat /\ p \in Nat
      BY <1>1, <1>3, <1>4 DEF Greater
    <3>2. stats' = [stats EXCEPT !.used = stats.used + a, !.peakUsed = p]
      BY <1>5
    <3>3. stats \in [used : Nat, peakUsed : Nat, capacity : Nat, peakCapacity : Nat, blocks : Nat, total : Nat]
      BY DEF StatsInv
    <3>4. p = Greater(stats.peakUsed, u + a)
      BY <1>4
    <3> HIDE DEF p
    <3> QED
      BY <1>4, <3>1, <3>2, <3>3, <3>4
  <2>8. /\ stats'.blocks <= stats'.total /\ stats'.used <= stats'.peakUsed
        /\ stats'.peakUsed <= stats'.peakCapacity /\ stats'.capacity <= stats'.peakCapacity
    BY <1>1, <1>3, <1>4, <2>6, <2>7 DEF Greater
  <2>9. stats'.used = u1 /\ stats'.capacity = v1 /\ stats'.blocks = Len(chain')
    BY <2>2, <2>6, <2>7
  <2> QED
    BY <2>7, <2>8, <2>9 DEF StatsInv, StatsAreExact, u1, v1
<1>6. CASE /\ ~Fits(n) /\ NewCapacity(n) <= MaxBlock /\ h.at \in Blocks \ Addresses(chain)
           /\ chain' = Append(SubSeq(chain, 1, current), [at |-> h.at, capacity |-> NewCapacity(n), used |-> a])
           /\ stats' = [used |-> stats.used + a,
                        peakUsed |-> Greater(stats.peakUsed, stats.used + a),
                        capacity |-> stats.capacity + NewCapacity(n),
                        peakCapacity |-> Greater(stats.peakCapacity, stats.capacity + NewCapacity(n)),
                        blocks |-> stats.blocks + 1,
                        total |-> stats.total + 1]
  <2> DEFINE p == NewCapacity(n)
             b == [at |-> h.at, capacity |-> p, used |-> a]
  <2>1. p \in Nat /\ p \in 1 .. MaxBlock /\ a <= p /\ MaxBlock \in Nat
    BY <1>1, <1>6, ArenaAssumption DEF NewCapacity, Greater, ArenaAssumption
  <2>2. b \in Block /\ b["capacity"] = p /\ b["used"] = a
    BY <1>1, <1>6, <2>1 DEF Block
  <2>3. SubSeq(chain, 1, current) = chain
    BY <1>2 DEF Chains
  <2>4. chain' = Append(chain, b)
    BY <1>6, <2>3
  <2> HIDE DEF b
  <2>5. u1 = u + a /\ v1 = v + p
    BY <1>2, <2>2, <2>4, SizeOfMore DEF Counted
  <2>6. Len(chain') = m + 1
    BY <1>2, <2>4 DEF Chains
  <2> HIDE DEF a, m, u, v, u1, v1, p
  <2>7. /\ stats'.used = u + a /\ stats'.peakUsed = Greater(stats.peakUsed, u + a)
        /\ stats'.capacity = v + p /\ stats'.peakCapacity = Greater(stats.peakCapacity, v + p)
        /\ stats'.blocks = m + 1 /\ stats'.total = stats.total + 1
    BY <1>4, <1>6 DEF p
  <2>8. stats' \in [used : Nat, peakUsed : Nat, capacity : Nat, peakCapacity : Nat, blocks : Nat, total : Nat]
    <3>1. /\ u + a \in Nat /\ Greater(stats.peakUsed, u + a) \in Nat /\ v + p \in Nat
          /\ Greater(stats.peakCapacity, v + p) \in Nat /\ m + 1 \in Nat /\ stats.total + 1 \in Nat
      BY <1>1, <1>2, <1>3, <1>4, <2>1 DEF Greater
    <3> QED
      BY <1>4, <1>6, <3>1 DEF p
  <2>9. /\ stats'.blocks <= stats'.total /\ stats'.used <= stats'.peakUsed
        /\ stats'.peakUsed <= stats'.peakCapacity /\ stats'.capacity <= stats'.peakCapacity
    BY <1>1, <1>2, <1>3, <1>4, <2>1, <2>5, <2>7 DEF Greater
  <2>10. stats'.used = u1 /\ stats'.capacity = v1 /\ stats'.blocks = Len(chain')
    BY <2>5, <2>6, <2>7
  <2> QED
    BY <2>8, <2>9, <2>10 DEF StatsInv, StatsAreExact, u1, v1
<1> QED
  BY <1>5, <1>6 DEF Alloc

LEMMA StatsStartAgain ==
  ASSUME StatsInv, ScratchInv, StartAgain
  PROVE  StatsInv'
<1> DEFINE b == [chain[1] EXCEPT !.used = 0]
<1>1. /\ chain' = <<b>>
      /\ stats' = [stats EXCEPT !.used = 0, !.capacity = chain[1].capacity, !.blocks = 1]
  BY DEF StartAgain, Reset
<1>2. chain \in Chains
  BY DEF ScratchInv, Chained
<1>3. chain[1] \in Block /\ 0 <= chain[1].capacity /\ 1 <= Len(chain) /\ Len(chain) \in Nat
      /\ chain[1].capacity \in Nat
  BY <1>2, ChainType
<1>4. b \in Block /\ b.used <= b.capacity /\ b.used = 0 /\ b.capacity = chain[1].capacity
  BY <1>3, FilledBlock
<1> HIDE DEF b
<1>5. chain' \in Chains /\ Len(chain') = 1 /\ chain'[1] = b
  BY <1>1, <1>4, OneBlock
<1>6. SizeOf("used", chain') = 0 /\ SizeOf("capacity", chain') = chain[1].capacity
  BY <1>4, <1>5, SizeOfOne DEF Counted
<1>7. chain[1].capacity <= SizeOf("capacity", chain) /\ SizeOf("capacity", chain) \in Nat
  <2>1. \A i \in 1 .. Len(chain') : chain'[i]["capacity"] <= chain[i]["capacity"]
    BY <1>3, <1>4, <1>5
  <2> QED
    BY <1>2, <1>3, <1>5, <1>6, <2>1, SizeBelow DEF Counted
<1>8. /\ stats.capacity = SizeOf("capacity", chain) /\ stats.blocks = Len(chain) /\ stats.blocks <= stats.total
      /\ stats.peakUsed <= stats.peakCapacity /\ stats.capacity <= stats.peakCapacity
      /\ stats.total \in Nat /\ stats.peakUsed \in Nat /\ stats.peakCapacity \in Nat
  BY DEF StatsInv, StatsAreExact
<1>9. /\ stats'.used = 0 /\ stats'.capacity = chain[1].capacity /\ stats'.blocks = 1
      /\ stats'.peakUsed = stats.peakUsed /\ stats'.peakCapacity = stats.peakCapacity /\ stats'.total = stats.total
      /\ stats' \in [used : Nat, peakUsed : Nat, capacity : Nat, peakCapacity : Nat, blocks : Nat, total : Nat]
  BY <1>1, <1>3 DEF StatsInv
<1>10. /\ stats'.blocks <= stats'.total /\ stats'.used <= stats'.peakUsed
       /\ stats'.peakUsed <= stats'.peakCapacity /\ stats'.capacity <= stats'.peakCapacity
  BY <1>3, <1>7, <1>8, <1>9
<1> QED
  BY <1>5, <1>6, <1>9, <1>10 DEF StatsInv, StatsAreExact

LEMMA InitStats == Init => StatsInv
<1> SUFFICES ASSUME Init PROVE StatsInv
  OBVIOUS
<1>1. PICK b \in Blocks : chain = <<[at |-> b, capacity |-> BlockSize, used |-> 0]>>
  BY DEF Init, InitArena
<1> DEFINE x == [at |-> b, capacity |-> BlockSize, used |-> 0]
<1>2. x \in Block /\ x.used <= x.capacity /\ x.used = 0 /\ x.capacity = BlockSize /\ BlockSize \in Nat
  BY ArenaAssumption DEF ArenaAssumption, Block
<1>3. stats = [used |-> 0, peakUsed |-> 0, capacity |-> BlockSize, peakCapacity |-> BlockSize,
               blocks |-> 1, total |-> 1]
  BY DEF Init, InitArena
<1> HIDE DEF x
<1>4. chain \in Chains /\ Len(chain) = 1 /\ chain[1] = x
  BY <1>1, <1>2, OneBlock DEF x
<1>5. SizeOf("used", chain) = 0 /\ SizeOf("capacity", chain) = BlockSize
  BY <1>2, <1>4, SizeOfOne DEF Counted
<1> QED
  BY <1>2, <1>3, <1>4, <1>5 DEF StatsInv, StatsAreExact

LEMMA NextStats ==
  ASSUME ScratchInv, StatsInv, [Next]_scratchVars
  PROVE  StatsInv'
<1>1. ASSUME chain' = chain, stats' = stats PROVE StatsInv'
  BY <1>1 DEF StatsInv, StatsAreExact
<1>2. CASE AllocRaw \/ Calloc \/ MemdupNothing \/ Memdup \/ ReallocCopy \/ Strndup
  <2>1. PICK n \in 0 .. SizeMod - 1 : \E w : Take(n, w)
    BY <1>2, AllocatorsTake
  <2>2. PICK w : Take(n, w)
    BY <2>1
  <2>3. PICK h \in Places(n) : Alloc(n, h, w)
    BY <2>2 DEF Take
  <2> QED
    BY <2>3, StatsAllocated DEF ScratchInv
<1>3. CASE Fill \/ OpenScope \/ KeepScope
  BY <1>1, <1>3 DEF Fill, OpenScope, KeepScope, arenaVars
<1>4. CASE CloseScope
  <2> DEFINE s == marks[Depth].saved
             mark == marks[Depth].mark
  <2>1. Depth > 0 /\ Depth \in Nat /\ Rewind(mark) /\ marks \in Seq(Scopes)
    BY <1>4 DEF CloseScope, ScratchInv, Nested, Depth
  <2>2. Depth \in 1 .. Depth /\ marks[Depth] \in Scopes
    BY <2>1 DEF Depth
  <2>3. s \in Chains /\ Extends(s, chain) /\ chain \in Chains
    BY <2>2 DEF Scopes, ScratchInv, Nested, Chained
  <2>4. chain' = s
    BY <1>4, CloseKeeps
  <2>5. (stats' = stats /\ chain' = chain) \/ stats' = Refreshed(chain')
    BY <2>1 DEF Rewind, arenaVars
  <2> HIDE DEF s, mark
  <2>6. CASE stats' = Refreshed(chain')
    BY <2>3, <2>4, <2>6, StatsRefreshed
  <2> QED
    BY <1>1, <2>5, <2>6
<1>5. CASE StartAgain
  BY <1>5, StatsStartAgain
<1>6. CASE UNCHANGED scratchVars
  BY <1>1, <1>6 DEF scratchVars, arenaVars
<1> QED
  BY <1>2, <1>3, <1>4, <1>5, <1>6 DEF Next

LEMMA StatsInvariant == Spec => [](ScratchInv /\ StatsInv)
<1>1. ScratchInv /\ StatsInv /\ [Next]_scratchVars => ScratchInv' /\ StatsInv'
  BY NextScratch, NextStats
<1> QED
  BY <1>1, InitScratch, InitStats, PTL DEF Spec

-----------------------------------------------------------------------------
(* Theorems                                                                *)

\* arena_rewind gives back exactly what its scope took: the chain and its fill
\* are those of the moment the mark was taken, whatever was allocated, nested,
\* kept or reallocated since, for blocks and sizes of any width.
THEOREM RewindGivesBack == Spec => RewindRestores
<1>1. ScratchInv /\ [Next]_scratchVars
        => [CloseScope => chain' = marks[Depth].saved /\ current' = Len(chain')]_scratchVars
  BY CloseKeeps
<1> QED
  BY <1>1, ScratchInvariant, PTL DEF Spec, RewindRestores

\* arena_alloc and its callers, arena_rewind and arena_reset implement scratch
\* memory: an object is nobody else's and keeps its contents until its scope is
\* rewound, also when sizes wrap around and freed addresses come back.
THEOREM ArenaImplementsScratch == Spec => ImplementsScratch
<1>1. ScratchInv /\ [Next]_scratchVars => [Scratch!Next]_<<Contents, ScopeObjects>>
  BY NextScratch
<1> QED
  BY <1>1, InitScratch, ScratchInvariant, PTL DEF Spec, ImplementsScratch, Scratch!Spec

\* The variables keep their types: no block is filled beyond its capacity, no
\* object lies outside its block and no scope is deeper than the bound.
THEOREM ArenaTyped == Spec => []TypeOK
<1>1. ScratchInv /\ StatsInv => TypeOK
  <2> SUFFICES ASSUME ScratchInv, StatsInv PROVE TypeOK
    OBVIOUS
  <2>1. chain \in Seq(Block) /\ current \in DOMAIN chain
    BY ChainType DEF ScratchInv, Chained, Chains
  <2>2. ArenaTypeOK
    BY <2>1 DEF ScratchInv, StatsInv, Chained, ArenaTypeOK
  <2>3. live \subseteq [at : Blocks, from : Cells, size : 1 .. MaxBlock, depth : 0 .. MaxDepth]
    BY DEF ScratchInv, Placed, Objects
  <2>4. marks \in Seq([mark : Mark, saved : Seq(Block)])
    <3>1. \A x \in Scopes : x \in [mark : Mark, saved : Seq(Block)]
      BY DEF Scopes, Chains
    <3>2. marks \in Seq(Scopes)
      BY DEF ScratchInv, Nested
    <3>3. \A d \in 1 .. Len(marks) : marks[d] \in [mark : Mark, saved : Seq(Block)]
      BY <3>1, <3>2
    <3>4. marks = [d \in 1 .. Len(marks) |-> marks[d]] /\ Len(marks) \in Nat
      BY <3>2
    <3> DEFINE n == Len(marks)
               S == [mark : Mark, saved : Seq(Block)]
    <3>5. marks = [d \in 1 .. n |-> marks[d]] /\ n \in Nat /\ \A d \in 1 .. n : marks[d] \in S
      BY <3>3, <3>4
    <3> HIDE DEF n, S
    <3>6. [d \in 1 .. n |-> marks[d]] \in Seq(S)
      BY <3>5
    <3> QED
      BY <3>5, <3>6 DEF S
  <2> QED
    BY <2>2, <2>3, <2>4 DEF TypeOK
<1> QED
  BY <1>1, StatsInvariant, PTL

\* The counters of arena_stats, which arena_alloc and arena_reset keep up step by
\* step and arena_rewind counts afresh, are the sums over the chain, and the peaks
\* are never below them, whatever mixture of growth, rewinds and resets came before.
THEOREM ArenaCountersAreExact == Spec => []StatsAreExact
<1>1. ScratchInv /\ StatsInv => StatsAreExact
  BY DEF StatsInv
<1> QED
  BY <1>1, StatsInvariant, PTL

=============================================================================
