------------------------- MODULE SourceAssembly_proofs -------------------------
(***************************************************************************)
(* Proofs about SourceAssembly.                                            *)
(*                                                                         *)
(* What the layout has done so far is said of one statement at a time: its *)
(* place is the sum of the sizes before it (EndOf), its logical offset     *)
(* counts from the last ORG (LogicalOf).  The layout is finished by a pass *)
(* in which no instruction has changed its size.  Such a pass puts every   *)
(* statement where it was and gives every label the value it had, so that  *)
(* each size follows from the symbols as they are in the end, and emission *)
(* finds the same sizes.                                                   *)
(***************************************************************************)
EXTENDS SourceAssembly, HunkFile_proofs, FiniteSetTheorems

-----------------------------------------------------------------------------
(* The layout, of the statements sts at the places pl, with the symbols sy *)

\* Where statement i begins in section s when nothing wraps around.
SizeIn(sts, pl, s, i) == IF sts[i].section = s THEN pl[i].size ELSE 0
EndOf(sts, pl, s, i) == Total([j \in 1 .. i - 1 |-> SizeIn(sts, pl, s, j)])

OrgsOf(sts, s, i) == {j \in 1 .. i - 1 : sts[j].section = s /\ sts[j].kind = "org"}
LogicalOf(sts, pl, s, i) ==
  IF OrgsOf(sts, s, i) = {} THEN Wrap(EndOf(sts, pl, s, i))
  ELSE Wrap(sts[Max(OrgsOf(sts, s, i))].value + EndOf(sts, pl, s, i) - EndOf(sts, pl, s, Max(OrgsOf(sts, s, i))))

SymbolOf(sts, pl, i) ==
  [defined |-> TRUE, absolute |-> pl[i].logical # pl[i].offset, section |-> sts[i].section, value |-> pl[i].logical]

\* Every size but that of an instruction.
FixedSize(st, logical) ==
  CASE st.kind \in {"label", "org"} -> 0
    [] st.kind = "even" -> logical % 2
    [] st.kind = "reserve" -> st.size
    [] st.kind = "data" -> st.width * Len(st.items)

OneDefinition(sts) ==
  \A i, j \in 1 .. Len(sts) :
    sts[i].kind = "label" /\ sts[j].kind = "label" /\ sts[i].name = sts[j].name => i = j

\* Statement i is where the sizes before it put it, and so is its label.
PlacedAt(sts, pl, i) ==
  /\ pl[i].offset = Wrap(EndOf(sts, pl, sts[i].section, i))
  /\ pl[i].logical = IF sts[i].kind = "org" THEN sts[i].value ELSE LogicalOf(sts, pl, sts[i].section, i)
  /\ sts[i].kind # "instruction" => pl[i].size = FixedSize(sts[i], pl[i].logical)
LabelledAt(sts, pl, sy, i) == sts[i].kind = "label" => sy[sts[i].name] = SymbolOf(sts, pl, i)

OperandOf(sts, pl, sy, i) == Resolved(sy, sts[i], pl[i].logical, FALSE)
SizedAt(sts, pl, sy, i) == sts[i].kind = "instruction" => pl[i].size = OperandOf(sts, pl, sy, i).code.size

LayoutInv ==
  OneDefinition(Statements) =>
    /\ stage = "layout" =>
         /\ \A i \in 1 .. next - 1 : PlacedAt(Statements, placed, i) /\ LabelledAt(Statements, placed, symbols, i)
         /\ \A s \in Sections : /\ offsets[s] = Wrap(EndOf(Statements, placed, s, next))
                                /\ logicals[s] = LogicalOf(Statements, placed, s, next)
         /\ pass = 1 => /\ \A i \in next .. Len(Statements) : placed[i].size = 0
                        /\ ~changed => \A i \in 1 .. next - 1 : Statements[i].kind # "instruction"
         /\ pass # 1 /\ ~changed =>
              /\ \A i \in Indices : PlacedAt(Statements, placed, i) /\ LabelledAt(Statements, placed, symbols, i)
              /\ \A i \in 1 .. next - 1 : SizedAt(Statements, placed, symbols, i)
    /\ stage \in {"emit", "done", "written", "read"} =>
         \A i \in Indices : /\ PlacedAt(Statements, placed, i) /\ LabelledAt(Statements, placed, symbols, i)
                            /\ SizedAt(Statements, placed, symbols, i)

-----------------------------------------------------------------------------
(* The emission *)

Coded == {"even", "data", "instruction"}
EvenAgrees(sts, pl) == \A i \in 1 .. Len(sts) : sts[i].kind = "even" => pl[i].logical % 2 = pl[i].offset % 2
Emitted == IF stage = "emit" THEN next - 1 ELSE Len(Statements)

EmissionInv ==
  stage \in {"emit", "done", "written", "read"} =>
    /\ OneDefinition(Statements) /\ EvenAgrees(Statements, placed) =>
         \A i \in 1 .. Emitted : emitted[i] = IF Statements[i].kind \in Coded THEN placed[i].size ELSE 0
    /\ \A i \in 1 .. Emitted :
         Statements[i].kind \in Coded => placed[i].offset + emitted[i] <= writers[Statements[i].section]
    /\ \A s \in Sections :
         \/ writers[s] = 0
         \/ \E i \in 1 .. Emitted : /\ Statements[i].section = s /\ Statements[i].kind \in Coded
                                    /\ writers[s] = placed[i].offset + emitted[i]

-----------------------------------------------------------------------------
(* The fields and the fixups *)

ItemOf(sts, pl, sy, i, k) == Evaluate(sy, sts[i].items[k], Wrap(pl[i].logical + (k - 1) * sts[i].width))

\* The field of the operand or of an item of statement i.
IsField(sts, pl, sy, f) ==
  LET i == f.statement IN
  /\ i \in 1 .. Len(sts) /\ f.section = sts[i].section
  /\ \/ /\ sts[i].kind = "data" /\ f.item \in 1 .. Len(sts[i].items) /\ f.width = sts[i].width
        /\ f.at = pl[i].offset + (f.item - 1) * sts[i].width
        /\ ItemOf(sts, pl, sy, i, f.item).ok
        /\ f.value = ItemOf(sts, pl, sy, i, f.item).value % Holds[f.width]
     \/ /\ sts[i].kind = "instruction"
        /\ OperandOf(sts, pl, sy, i).ok
        /\ f.width = OperandOf(sts, pl, sy, i).code.width /\ f.width # 0
        /\ f.at = pl[i].offset + OperandOf(sts, pl, sy, i).code.at
        /\ f.value = OperandOf(sts, pl, sy, i).value % Holds[f.width]

TargetOf(sts, pl, sy, f) ==
  IF sts[f.statement].kind = "data" THEN ItemOf(sts, pl, sy, f.statement, f.item).target
  ELSE OperandOf(sts, pl, sy, f.statement).target
FixupOf(sts, pl, sy, f) ==
  [section |-> f.section, offset |-> f.at, width |-> f.width, target |-> TargetOf(sts, pl, sy, f),
   block |-> 0, group |-> 0]

Keeps(executable, width) == ~(executable /\ width = 2)

\* The fields fs of sections ws bytes long, and the fixups fx, one for each
\* field that needs one; no two at the same place.
FieldsTo(executable, sts, pl, sy, fs, fx, ws) ==
  /\ \A f \in fs : IsField(sts, pl, sy, f) /\ f.at < ws[f.section]
  /\ \A f, g \in fs : f.section = g.section /\ f.at = g.at => f = g
  /\ fx \in Seq(FixupRecord)
  /\ \A x, y \in 1 .. Len(fx) : fx[x].section = fx[y].section /\ fx[x].offset = fx[y].offset => x = y
  /\ \A x \in 1 .. Len(fx) :
       \E f \in fs : fx[x] = FixupOf(sts, pl, sy, f) /\ fx[x].target # 0 /\ Keeps(executable, f.width)
  /\ \A f \in fs : TargetOf(sts, pl, sy, f) # 0 /\ Keeps(executable, f.width) =>
       \E x \in 1 .. Len(fx) : fx[x] = FixupOf(sts, pl, sy, f)

FieldInv ==
  stage \in {"emit", "done", "written", "read"} =>
    /\ FieldsTo(source.hunkExecutable, Statements, placed, symbols, fields, fixups, writers)
    /\ \A i \in 1 .. Emitted :
         Statements[i].kind = "instruction" => emitted[i] = OperandOf(Statements, placed, symbols, i).code.size

\* The object and the file.
ObjectInv ==
  /\ stage = "layout" => fixups = <<>> /\ fields = {} /\ writers = Zeros
  /\ stage \in {"done", "written", "read"} => \A s \in Sections : writers[s] <= sizes[s]
  /\ stage \in {"written", "read"} => Writable(Object) /\ file = <<Written(Object)>>
  /\ stage = "read" => loaded = <<Parsed(file[1])>>

Symbol == [defined : BOOLEAN, absolute : BOOLEAN, section : Sections \cup {0}, value : 0 .. ValueMod - 1]

-----------------------------------------------------------------------------
(* Arithmetic modulo *)

Cong(a, b, m) == \E k \in Int : a - b = k * m

LEMMA ModCong ==
  ASSUME NEW a \in Int, NEW m \in Nat \ {0}
  PROVE  a % m \in 0 .. m - 1 /\ Cong(a, a % m, m) /\ Cong(a % m, a, m)
<1>1. a = (a \div m) * m + (a % m) /\ a \div m \in Int /\ a % m \in 0 .. m - 1
  OBVIOUS
<1>2. a - (a % m) = (a \div m) * m /\ (a % m) - a = (-(a \div m)) * m /\ -(a \div m) \in Int
  BY <1>1
<1>3. Cong(a, a % m, m)
  BY <1>1, <1>2 DEF Cong
<1>4. Cong(a % m, a, m)
  BY <1>1, <1>2 DEF Cong
<1> QED
  BY <1>1, <1>3, <1>4

LEMMA CongBy ==
  ASSUME NEW a, NEW b, NEW m, NEW k \in Int, a - b = k * m
  PROVE  Cong(a, b, m)
  BY DEF Cong

LEMMA CongAdd ==
  ASSUME NEW a \in Int, NEW b \in Int, NEW c \in Int, NEW d \in Int, NEW m \in Nat \ {0},
         Cong(a, b, m), Cong(c, d, m)
  PROVE  Cong(a + c, b + d, m) /\ Cong(a - c, b - d, m)
<1>1. PICK k \in Int : a - b = k * m
  BY DEF Cong
<1>2. PICK l \in Int : c - d = l * m
  BY DEF Cong
<1>3. (k + l) * m = k * m + l * m /\ (k - l) * m = k * m - l * m
  OBVIOUS
<1>4. (a + c) - (b + d) = (k + l) * m /\ (a - c) - (b - d) = (k - l) * m /\ k + l \in Int /\ k - l \in Int
  BY <1>1, <1>2, <1>3
<1>5. Cong(a + c, b + d, m)
  BY <1>4, CongBy
<1>6. Cong(a - c, b - d, m)
  BY <1>4, CongBy
<1> QED
  BY <1>5, <1>6

LEMMA CongSame ==
  ASSUME NEW a \in Int, NEW m \in Nat \ {0}
  PROVE  Cong(a, a, m)
<1>1. a - a = 0 * m /\ 0 \in Int
  OBVIOUS
<1> QED
  BY <1>1 DEF Cong

LEMMA CongTrans ==
  ASSUME NEW a \in Int, NEW b \in Int, NEW c \in Int, NEW m \in Nat \ {0}, Cong(a, b, m), Cong(b, c, m)
  PROVE  Cong(a, c, m)
<1>1. PICK k \in Int : a - b = k * m
  BY DEF Cong
<1>2. PICK l \in Int : b - c = l * m
  BY DEF Cong
<1>3. (k + l) * m = k * m + l * m
  OBVIOUS
<1>4. a - c = (k + l) * m /\ k + l \in Int
  BY <1>1, <1>2, <1>3
<1> QED
  BY <1>4, CongBy

LEMMA CongFlip ==
  ASSUME NEW a \in Int, NEW b \in Int, NEW m \in Nat \ {0}, Cong(a, b, m)
  PROVE  Cong(b, a, m)
<1>1. PICK k \in Int : a - b = k * m
  BY DEF Cong
<1>2. b - a = (-k) * m /\ -k \in Int
  BY <1>1
<1> QED
  BY <1>2 DEF Cong

LEMMA Remainder ==
  ASSUME NEW a \in Int, NEW m \in Nat \ {0}, NEW k \in Int, NEW r \in 0 .. m - 1, a = k * m + r
  PROVE  a % m = r
  OBVIOUS

\* Congruent numbers have the same remainder.
LEMMA CongIs ==
  ASSUME NEW a \in Int, NEW b \in Int, NEW m \in Nat \ {0}
  PROVE  /\ Cong(a, b, m) <=> a % m = b % m
         /\ Cong(a, b, m) <=> (a - b) % m = 0
<1>1. /\ a = (a \div m) * m + (a % m) /\ a \div m \in Int /\ a % m \in 0 .. m - 1
      /\ b = (b \div m) * m + (b % m) /\ b \div m \in Int /\ b % m \in 0 .. m - 1
  OBVIOUS
<1>2. ASSUME Cong(a, b, m) PROVE a % m = b % m /\ (a - b) % m = 0
  <2>1. PICK k \in Int : a - b = k * m
    BY <1>2 DEF Cong
  <2>2. (k + (b \div m)) * m = k * m + (b \div m) * m
    BY <1>1
  <2>3. a = (k + (b \div m)) * m + (b % m) /\ k + (b \div m) \in Int
    BY <1>1, <2>1, <2>2
  <2>4. a % m = b % m
    <3> DEFINE r == b % m
               c == k + (b \div m)
    <3>1. r \in 0 .. m - 1 /\ c \in Int /\ a = c * m + r
      BY <1>1, <2>3
    <3> HIDE DEF r, c
    <3>2. a % m = r
      BY <3>1, Remainder
    <3> QED
      BY <3>2 DEF r
  <2>5. (k * m) % m = 0
    OBVIOUS
  <2> QED
    BY <2>1, <2>4, <2>5
<1>3. ASSUME a % m = b % m PROVE Cong(a, b, m)
  <2>1. ((a \div m) - (b \div m)) * m = (a \div m) * m - (b \div m) * m
    BY <1>1
  <2>2. a - b = ((a \div m) - (b \div m)) * m /\ (a \div m) - (b \div m) \in Int
    BY <1>1, <1>3, <2>1
  <2> QED
    BY <2>2 DEF Cong
<1>4. ASSUME (a - b) % m = 0 PROVE Cong(a, b, m)
  <2>1. a - b = ((a - b) \div m) * m + ((a - b) % m) /\ (a - b) \div m \in Int
    OBVIOUS
  <2>2. a - b = ((a - b) \div m) * m
    BY <2>1, <1>4
  <2> QED
    BY <2>1, <2>2 DEF Cong
<1> QED
  BY <1>2, <1>3, <1>4

\* Congruent modulo a multiple.
LEMMA CongDivides ==
  ASSUME NEW a \in Int, NEW b \in Int, NEW m \in Nat \ {0}, NEW n \in Nat \ {0}, m % n = 0, Cong(a, b, m)
  PROVE  Cong(a, b, n)
<1>1. PICK k \in Int : a - b = k * m
  BY DEF Cong
<1>2. m = (m \div n) * n + (m % n) /\ m \div n \in Int
  OBVIOUS
<1>3. m = (m \div n) * n
  BY <1>2
<1> DEFINE d == m \div n
<1>4. d \in Int /\ m = d * n
  BY <1>2, <1>3
<1> HIDE DEF d
<1>5. k * (d * n) = (k * d) * n /\ k * d \in Int
  BY <1>4
<1>6. a - b = (k * d) * n
  BY <1>1, <1>4, <1>5
<1> QED
  BY <1>5, <1>6 DEF Cong

LEMMA Modulus ==
  /\ ValueMod \in Nat \ {0}
  /\ \A w \in {1, 2, 4} : Holds[w] \in Nat \ {0}
  /\ \A a \in Int : Wrap(a) \in 0 .. ValueMod - 1 /\ Wrap(a) \in Nat /\ Cong(a, Wrap(a), ValueMod) /\ Cong(Wrap(a), a, ValueMod)
  /\ \A a \in 0 .. ValueMod - 1 : Wrap(a) = a
  /\ \A a, b \in Int : Cong(a, b, ValueMod) <=> Wrap(a) = Wrap(b)
  /\ \A w \in {1, 2, 4} : \A a, b \in Int : Cong(a, b, ValueMod) => Cong(a, b, Holds[w])
<1>1. ValueMod \in Nat \ {0} /\ \A w \in {1, 2, 4} : Holds[w] \in Nat \ {0}
  BY SourceAssumption DEF ValueMod
<1>2. \A a \in Int : Wrap(a) \in 0 .. ValueMod - 1 /\ Cong(a, Wrap(a), ValueMod) /\ Cong(Wrap(a), a, ValueMod)
  BY <1>1, ModCong DEF Wrap
<1>3. \A a \in 0 .. ValueMod - 1 : Wrap(a) = a
  BY <1>1 DEF Wrap
<1>4. \A a, b \in Int : Cong(a, b, ValueMod) <=> Wrap(a) = Wrap(b)
  BY <1>1, CongIs DEF Wrap
<1>5. ASSUME NEW w \in {1, 2, 4}, NEW a \in Int, NEW b \in Int, Cong(a, b, ValueMod)
      PROVE  Cong(a, b, Holds[w])
  <2>1. CASE w = 4
    BY <1>5, <2>1 DEF ValueMod
  <2>2. CASE w # 4
    <3>1. ValueMod % Holds[w] = 0
      BY <2>2, SourceAssumption DEF ValueMod
    <3> QED
      BY <1>1, <1>5, <3>1, CongDivides
  <2> QED
    BY <2>1, <2>2
<1>6. \A a \in Int : Wrap(a) \in Nat
  BY <1>1, <1>2
<1> QED
  BY <1>1, <1>2, <1>3, <1>4, <1>5, <1>6

LEMMA WrapWrap ==
  ASSUME NEW a \in Int, NEW b \in Int
  PROVE  Wrap(Wrap(a) + b) = Wrap(a + b)
<1>1. Cong(Wrap(a), a, ValueMod) /\ Wrap(a) \in Int /\ ValueMod \in Nat \ {0} /\ Cong(b, b, ValueMod)
  BY Modulus, CongSame
<1>2. Cong(Wrap(a) + b, a + b, ValueMod)
  BY <1>1, CongAdd
<1> QED
  BY <1>1, <1>2, Modulus

-----------------------------------------------------------------------------
(* Sums *)

IsTotal(g, q) == g = [n \in 0 .. Len(q) |-> IF n = 0 THEN 0 ELSE g[n - 1] + q[n]]

\* g holds the sums of the beginnings of q.
Adds(g, q) ==
  g \in [0 .. Len(q) -> Int] /\ g[0] = 0 /\ \A k \in 1 .. Len(q) : g[k] = g[k - 1] + q[k]

LEMMA TotalAdds ==
  ASSUME NEW q \in Seq(Int)
  PROVE  \E g : Adds(g, q) /\ Total(q) = g[Len(q)]
<1> DEFINE D == (1 .. Len(q)) \X Int
           step == [x \in D |-> x[2] + q[x[1]]]
<1>1. Len(q) \in Nat /\ 0 \in Int
  OBVIOUS
<1>2. step \in [D -> Int]
  <2> SUFFICES ASSUME NEW x \in D PROVE x[2] + q[x[1]] \in Int
    OBVIOUS
  <2>1. x[1] \in 1 .. Len(q) /\ x[2] \in Int
    OBVIOUS
  <2> QED
    BY <2>1
<1>3. \A k \in 1 .. Len(q), r \in Int : step[<<k, r>>] = r + q[k]
  OBVIOUS
<1> HIDE DEF step
<1>4. PICK h : Recurs(h, Int, Len(q), 0, step)
  BY <1>1, <1>2, RecursionExists
<1>5. h \in [0 .. Len(q) -> Int] /\ h[0] = 0 /\ \A k \in 1 .. Len(q) : h[k] = step[<<k, h[k - 1]>>]
  BY <1>4 DEF Recurs
<1>6. ASSUME NEW k \in 0 .. Len(q)
      PROVE  h[k] = IF k = 0 THEN 0 ELSE h[k - 1] + q[k]
  <2>1. CASE k = 0
    BY <2>1, <1>5
  <2>2. CASE k # 0
    <3>1. k \in 1 .. Len(q) /\ k - 1 \in 0 .. Len(q)
      BY <1>1, <2>2
    <3>2. h[k - 1] \in Int
      BY <1>5, <3>1
    <3>3. step[<<k, h[k - 1]>>] = h[k - 1] + q[k]
      BY <1>3, <3>1, <3>2
    <3> QED
      BY <2>2, <1>5, <3>1, <3>3
  <2> QED
    BY <2>1, <2>2
<1>7. h = [k \in 0 .. Len(q) |-> h[k]]
  BY <1>5
<1>8. IsTotal(h, q)
  BY <1>6, <1>7 DEF IsTotal
<1> DEFINE g == CHOOSE g : IsTotal(g, q)
<1>9. IsTotal(g, q)
  BY <1>8
<1>10. Total(q) = g[Len(q)]
  BY DEF Total, IsTotal
<1> HIDE DEF g
<1>11. ASSUME NEW k \in 1 .. Len(q) PROVE g[k] = g[k - 1] + q[k]
  <2>1. k \in 0 .. Len(q) /\ k # 0
    BY <1>1
  <2> QED
    BY <1>9, <2>1 DEF IsTotal
<1>12. g[0] = 0 /\ g = [k \in 0 .. Len(q) |-> g[k]]
  BY <1>9, <1>1 DEF IsTotal
<1> DEFINE P == {k \in 0 .. Len(q) : g[k] = h[k]}
<1>13. 0 \in P
  BY <1>5, <1>12
<1>14. ASSUME NEW k \in 1 .. Len(q), k - 1 \in P PROVE k \in P
  <2>1. k \in 0 .. Len(q) /\ k # 0 /\ g[k - 1] = h[k - 1]
    BY <1>1, <1>14
  <2> QED
    BY <1>6, <1>11, <2>1
<1>15. 0 .. Len(q) \subseteq P
  <2> HIDE DEF P
  <2> QED
    BY <1>1, <1>13, <1>14, UpTo
<1>16. g \in [0 .. Len(q) -> Int]
  BY <1>5, <1>12, <1>15
<1> QED
  BY <1>10, <1>11, <1>12, <1>16 DEF Adds

\* What adds the elements of q one by one ends with their sum.
LEMMA TotalIs ==
  ASSUME NEW q \in Seq(Int), NEW h, Adds(h, q)
  PROVE  Total(q) = h[Len(q)] /\ Total(q) \in Int
<1>1. PICK g : Adds(g, q) /\ Total(q) = g[Len(q)]
  BY TotalAdds
<1>2. /\ g \in [0 .. Len(q) -> Int] /\ g[0] = 0 /\ \A k \in 1 .. Len(q) : g[k] = g[k - 1] + q[k]
      /\ h \in [0 .. Len(q) -> Int] /\ h[0] = 0 /\ \A k \in 1 .. Len(q) : h[k] = h[k - 1] + q[k]
      /\ Len(q) \in Nat
  BY <1>1 DEF Adds
<1> DEFINE P == {k \in 0 .. Len(q) : g[k] = h[k]}
<1>3. 0 \in P
  BY <1>2
<1>4. ASSUME NEW k \in 1 .. Len(q), k - 1 \in P PROVE k \in P
  BY <1>2, <1>4
<1>5. 0 .. Len(q) \subseteq P
  <2> HIDE DEF P
  <2> QED
    BY <1>2, <1>3, <1>4, UpTo
<1>6. Len(q) \in P /\ g[Len(q)] \in Int
  BY <1>2, <1>5
<1> QED
  BY <1>1, <1>6

\* The sums of the beginnings of f.
Sums(g, f, n) ==
  /\ g \in [0 .. n -> Int] /\ g[0] = 0
  /\ \A k \in 1 .. n : g[k] = g[k - 1] + f[k]
  /\ \A k \in 0 .. n : Total([j \in 1 .. k |-> f[j]]) = g[k]

LEMMA TotalSums ==
  ASSUME NEW n \in Nat, NEW f, \A j \in 1 .. n : f[j] \in Int
  PROVE  \E g : Sums(g, f, n)
<1> DEFINE q == [j \in 1 .. n |-> f[j]]
<1>1. q \in Seq(Int) /\ Len(q) = n /\ \A j \in 1 .. n : q[j] = f[j]
  OBVIOUS
<1> HIDE DEF q
<1>2. PICK g : Adds(g, q)
  BY <1>1, TotalAdds
<1>3. g \in [0 .. n -> Int] /\ g[0] = 0 /\ \A k \in 1 .. n : g[k] = g[k - 1] + f[k]
  BY <1>1, <1>2 DEF Adds
<1>4. ASSUME NEW k \in 0 .. n PROVE Total([j \in 1 .. k |-> f[j]]) = g[k]
  <2> DEFINE p == [j \in 1 .. k |-> f[j]]
             h == [i \in 0 .. k |-> g[i]]
  <2>1. p \in Seq(Int) /\ Len(p) = k /\ \A j \in 1 .. k : p[j] = f[j]
    OBVIOUS
  <2>2. h \in [0 .. k -> Int] /\ h[0] = 0 /\ h[k] = g[k]
    BY <1>3
  <2>3. ASSUME NEW i \in 1 .. k PROVE h[i] = h[i - 1] + p[i]
    <3>1. i \in 1 .. n /\ i \in 0 .. k /\ i - 1 \in 0 .. k
      OBVIOUS
    <3>2. h[i] = g[i] /\ h[i - 1] = g[i - 1]
      BY <3>1
    <3> HIDE DEF h, p
    <3> QED
      BY <1>3, <2>1, <3>1, <3>2
  <2> HIDE DEF h, p
  <2>4. Adds(h, p)
    BY <2>1, <2>2, <2>3 DEF Adds
  <2>5. Total(p) = g[k]
    BY <2>1, <2>2, <2>4, TotalIs
  <2> QED
    BY <2>5 DEF p
<1>5. Sums(g, f, n)
  BY <1>3, <1>4 DEF Sums
<1> QED
  BY <1>5

\* Sums grow by the last element.
LEMMA TotalStep ==
  ASSUME NEW n \in Nat, NEW f, \A j \in 1 .. n : f[j] \in Int
  PROVE  /\ Total([j \in 1 .. n |-> f[j]]) \in Int
         /\ n = 0 => Total([j \in 1 .. n |-> f[j]]) = 0
         /\ n # 0 => Total([j \in 1 .. n |-> f[j]]) = Total([j \in 1 .. n - 1 |-> f[j]]) + f[n]
<1>1. PICK g : Sums(g, f, n)
  BY TotalSums
<1> DEFINE a == Total([j \in 1 .. n |-> f[j]])
           b == Total([j \in 1 .. n - 1 |-> f[j]])
<1>2. a = g[n] /\ (n # 0 => b = g[n - 1] /\ g[n] = g[n - 1] + f[n]) /\ g[n] \in Int /\ g[0] = 0
  BY <1>1 DEF Sums
<1> HIDE DEF a, b
<1>3. a \in Int /\ (n = 0 => a = 0) /\ (n # 0 => a = b + f[n])
  BY <1>2
<1> QED
  BY <1>3 DEF a, b

\* Only the elements at t and u, of which u comes later, are not zero.
LEMMA TotalPair ==
  ASSUME NEW q \in Seq(Int), NEW t \in 1 .. Len(q), NEW u \in 1 .. Len(q), t < u,
         \A i \in 1 .. Len(q) : i # t /\ i # u => q[i] = 0
  PROVE  Total(q) = q[t] + q[u]
<1> DEFINE h == [k \in 0 .. Len(q) |-> IF k < t THEN 0 ELSE IF k < u THEN q[t] ELSE q[t] + q[u]]
<1>1. Len(q) \in Nat /\ \A i \in 1 .. Len(q) : q[i] \in Int
  OBVIOUS
<1>2. h \in [0 .. Len(q) -> Int] /\ h[0] = 0 /\ h[Len(q)] = q[t] + q[u]
  BY <1>1
<1>3. ASSUME NEW k \in 1 .. Len(q) PROVE h[k] = h[k - 1] + q[k]
  <2>1. k \in 0 .. Len(q) /\ k - 1 \in 0 .. Len(q)
    BY <1>1
  <2>2. /\ h[k] = IF k < t THEN 0 ELSE IF k < u THEN q[t] ELSE q[t] + q[u]
        /\ h[k - 1] = IF k - 1 < t THEN 0 ELSE IF k - 1 < u THEN q[t] ELSE q[t] + q[u]
    BY <2>1
  <2> HIDE DEF h
  <2>3. q[k] \in Int /\ q[t] \in Int /\ q[u] \in Int
    BY <1>1
  <2>4. CASE k = t
    BY <2>2, <2>3, <2>4
  <2>5. CASE k = u
    BY <2>2, <2>3, <2>5
  <2>6. CASE k # t /\ k # u
    <3>1. q[k] = 0
      BY <2>6
    <3>2. (k < t <=> k - 1 < t) /\ (k < u <=> k - 1 < u)
      BY <2>6
    <3>3. h[k] = h[k - 1] /\ h[k] \in Int
      BY <2>2, <2>3, <3>2
    <3> QED
      BY <3>1, <3>3
  <2> QED
    BY <2>4, <2>5, <2>6
<1> HIDE DEF h
<1>4. Adds(h, q)
  BY <1>2, <1>3 DEF Adds
<1> QED
  BY <1>2, <1>4, TotalIs

LEMMA TotalSingle ==
  ASSUME NEW q \in Seq(Int), NEW t \in 1 .. Len(q), \A i \in 1 .. Len(q) : i # t => q[i] = 0
  PROVE  Total(q) = q[t]
<1> DEFINE h == [k \in 0 .. Len(q) |-> IF k < t THEN 0 ELSE q[t]]
<1>1. Len(q) \in Nat /\ \A i \in 1 .. Len(q) : q[i] \in Int
  OBVIOUS
<1>2. h \in [0 .. Len(q) -> Int] /\ h[0] = 0 /\ h[Len(q)] = q[t]
  BY <1>1
<1>3. ASSUME NEW k \in 1 .. Len(q) PROVE h[k] = h[k - 1] + q[k]
  <2>1. k \in 0 .. Len(q) /\ k - 1 \in 0 .. Len(q)
    BY <1>1
  <2>2. h[k] = (IF k < t THEN 0 ELSE q[t]) /\ h[k - 1] = IF k - 1 < t THEN 0 ELSE q[t]
    BY <2>1
  <2> HIDE DEF h
  <2>3. q[k] \in Int /\ q[t] \in Int
    BY <1>1
  <2> QED
    BY <2>2, <2>3
<1> HIDE DEF h
<1>4. Adds(h, q)
  BY <1>2, <1>3 DEF Adds
<1> QED
  BY <1>2, <1>4, TotalIs

LEMMA TotalZero ==
  ASSUME NEW q \in Seq(Int), \A i \in 1 .. Len(q) : q[i] = 0
  PROVE  Total(q) = 0
<1> DEFINE h == [k \in 0 .. Len(q) |-> 0]
<1>1. Adds(h, q)
  BY DEF Adds
<1>2. h[Len(q)] = 0
  OBVIOUS
<1> HIDE DEF h
<1> QED
  BY <1>1, <1>2, TotalIs

\* The sum of congruent numbers.
LEMMA TotalCong ==
  ASSUME NEW q \in Seq(Int), NEW r \in Seq(Int), Len(r) = Len(q), NEW m \in Nat \ {0},
         \A i \in 1 .. Len(q) : Cong(q[i], r[i], m)
  PROVE  Cong(Total(q), Total(r), m)
<1>0. ASSUME NEW k \in 1 .. Len(q) PROVE q[k] \in Int /\ r[k] \in Int
  OBVIOUS
<1>1. PICK g : Adds(g, q) /\ Total(q) = g[Len(q)]
  BY TotalAdds
<1>2. PICK h : Adds(h, r) /\ Total(r) = h[Len(r)]
  BY TotalAdds
<1>3. /\ g \in [0 .. Len(q) -> Int] /\ g[0] = 0 /\ \A k \in 1 .. Len(q) : g[k] = g[k - 1] + q[k]
      /\ h \in [0 .. Len(q) -> Int] /\ h[0] = 0 /\ \A k \in 1 .. Len(q) : h[k] = h[k - 1] + r[k]
      /\ Len(q) \in Nat
  BY <1>1, <1>2 DEF Adds
<1> DEFINE P == {k \in 0 .. Len(q) : Cong(g[k], h[k], m)}
<1>4. 0 \in P
  BY <1>3, CongSame
<1>5. ASSUME NEW k \in 1 .. Len(q), k - 1 \in P PROVE k \in P
  <2>a. Len(q) \in Nat /\ g \in [0 .. Len(q) -> Int] /\ h \in [0 .. Len(q) -> Int]
    BY <1>3
  <2>b. k \in 0 .. Len(q) /\ k - 1 \in 0 .. Len(q)
    BY <2>a
  <2>c. g[k - 1] \in Int /\ h[k - 1] \in Int
    BY <2>a, <2>b
  <2>1. /\ k \in 0 .. Len(q) /\ k - 1 \in 0 .. Len(q) /\ g[k - 1] \in Int /\ h[k - 1] \in Int
        /\ q[k] \in Int /\ r[k] \in Int
    BY <1>0, <2>b, <2>c
  <2>2. Cong(g[k - 1] + q[k], h[k - 1] + r[k], m)
    BY <2>1, <1>5, CongAdd
  <2> QED
    BY <1>3, <2>1, <2>2
<1>6. 0 .. Len(q) \subseteq P
  <2> HIDE DEF P
  <2> QED
    BY <1>3, <1>4, <1>5, UpTo
<1>7. Len(q) \in P
  BY <1>3, <1>6
<1> QED
  BY <1>1, <1>2, <1>7

\* The sum of sums.
LEMMA TotalPlus ==
  ASSUME NEW q \in Seq(Int), NEW r \in Seq(Int), NEW z \in Seq(Int), Len(r) = Len(q), Len(z) = Len(q),
         \A i \in 1 .. Len(q) : z[i] = q[i] + r[i]
  PROVE  Total(z) = Total(q) + Total(r)
<1>0. ASSUME NEW k \in 1 .. Len(q) PROVE q[k] \in Int /\ r[k] \in Int
  OBVIOUS
<1>1. PICK g : Adds(g, q) /\ Total(q) = g[Len(q)]
  BY TotalAdds
<1>2. PICK h : Adds(h, r) /\ Total(r) = h[Len(r)]
  BY TotalAdds
<1>3. /\ g \in [0 .. Len(q) -> Int] /\ g[0] = 0 /\ \A k \in 1 .. Len(q) : g[k] = g[k - 1] + q[k]
      /\ h \in [0 .. Len(q) -> Int] /\ h[0] = 0 /\ \A k \in 1 .. Len(q) : h[k] = h[k - 1] + r[k]
      /\ Len(q) \in Nat
  BY <1>1, <1>2 DEF Adds
<1> DEFINE s == [k \in 0 .. Len(q) |-> g[k] + h[k]]
<1>4. s \in [0 .. Len(q) -> Int] /\ s[0] = 0 /\ s[Len(q)] = g[Len(q)] + h[Len(q)]
  BY <1>3
<1>5. ASSUME NEW k \in 1 .. Len(q) PROVE s[k] = s[k - 1] + z[k]
  <2>a. Len(q) \in Nat /\ g \in [0 .. Len(q) -> Int] /\ h \in [0 .. Len(q) -> Int]
    BY <1>3
  <2>b. k \in 0 .. Len(q) /\ k - 1 \in 0 .. Len(q)
    BY <2>a
  <2>c. g[k - 1] \in Int /\ h[k - 1] \in Int
    BY <2>a, <2>b
  <2>1. /\ k \in 0 .. Len(q) /\ k - 1 \in 0 .. Len(q) /\ g[k - 1] \in Int /\ h[k - 1] \in Int
        /\ q[k] \in Int /\ r[k] \in Int
    BY <1>0, <2>b, <2>c
  <2>2. s[k] = g[k] + h[k] /\ s[k - 1] = g[k - 1] + h[k - 1]
    BY <2>1
  <2>3. z[k] = q[k] + r[k]
    OBVIOUS
  <2>4. g[k] = g[k - 1] + q[k]
    BY <1>3
  <2>5. h[k] = h[k - 1] + r[k]
    BY <1>3
  <2> DEFINE x == g[k - 1]
             y == h[k - 1]
             c == q[k]
             d == r[k]
  <2>6. /\ x \in Int /\ y \in Int /\ c \in Int /\ d \in Int
        /\ s[k] = (x + c) + (y + d) /\ s[k - 1] = x + y /\ z[k] = c + d
    <3> HIDE DEF s
    <3> QED
      BY <2>1, <2>2, <2>3, <2>4, <2>5
  <2> HIDE DEF s, x, y, c, d
  <2>7. (x + c) + (y + d) = (x + y) + (c + d)
    BY <2>6
  <2> QED
    BY <2>6, <2>7
<1> HIDE DEF s
<1>6. Adds(s, z)
  BY <1>4, <1>5 DEF Adds
<1> QED
  BY <1>1, <1>2, <1>4, <1>6, TotalIs

\* Numbers that are not negative.
LEMMA TotalNat ==
  ASSUME NEW q \in Seq(Nat)
  PROVE  Total(q) \in Nat
<1>1. q \in Seq(Int) /\ \A i \in 1 .. Len(q) : q[i] \in Nat
  OBVIOUS
<1>2. PICK g : Adds(g, q) /\ Total(q) = g[Len(q)]
  BY <1>1, TotalAdds
<1>3. g \in [0 .. Len(q) -> Int] /\ g[0] = 0 /\ (\A k \in 1 .. Len(q) : g[k] = g[k - 1] + q[k]) /\ Len(q) \in Nat
  BY <1>2 DEF Adds
<1> DEFINE P == {k \in 0 .. Len(q) : g[k] \in Nat}
<1>4. 0 \in P
  BY <1>3
<1>5. ASSUME NEW k \in 1 .. Len(q), k - 1 \in P PROVE k \in P
  <2>1. k \in 0 .. Len(q) /\ g[k - 1] \in Nat /\ q[k] \in Nat
    BY <1>1, <1>3, <1>5
  <2>2. g[k] = g[k - 1] + q[k]
    BY <1>3
  <2> QED
    BY <2>1, <2>2
<1>6. 0 .. Len(q) \subseteq P
  <2> HIDE DEF P
  <2> QED
    BY <1>3, <1>4, <1>5, UpTo
<1>7. Len(q) \in P
  BY <1>3, <1>6
<1> QED
  BY <1>2, <1>7

-----------------------------------------------------------------------------
(* Places *)

LEMMA MaxOf ==
  ASSUME NEW n \in Nat, NEW T \in SUBSET (0 .. n), T # {}
  PROVE  Max(T) \in T /\ \A y \in T : y <= Max(T)
<1> DEFINE R == {d \in 0 .. n : n - d \in T}
<1>1. R \in SUBSET Nat /\ R # {}
  <2>1. PICK x \in T : TRUE
    OBVIOUS
  <2>2. n - x \in 0 .. n /\ n - (n - x) = x
    BY <2>1
  <2>3. n - x \in R
    BY <2>1, <2>2
  <2>4. R \in SUBSET Nat
    OBVIOUS
  <2> HIDE DEF R
  <2> QED
    BY <2>3, <2>4
<1>2. PICK d \in R : \A e \in R : d <= e
  <2> HIDE DEF R
  <2> QED
    BY <1>1, Least
<1>3. n - d \in T
  BY <1>2
<1>4. ASSUME NEW y \in T PROVE y <= n - d
  <2>0. y \in 0 .. n /\ n - y \in 0 .. n /\ n - (n - y) = y
    BY <1>4
  <2>1. n - y \in R
    BY <1>4, <2>0
  <2>2. d <= n - y /\ d \in 0 .. n
    BY <1>2, <2>1
  <2> HIDE DEF R
  <2> QED
    BY <2>0, <2>2
<1>5. \E x \in T : \A y \in T : x >= y
  BY <1>3, <1>4
<1>6. Max(T) \in T /\ \A y \in T : Max(T) >= y
  BY <1>5 DEF Max
<1> QED
  BY <1>6

\* The statements of a source and places for them.
IsLayout(sts, pl) == sts \in Seq(Statement) /\ pl \in [1 .. Len(sts) -> Place]

LEMMA EndStep ==
  ASSUME NEW sts, NEW pl, IsLayout(sts, pl), NEW s
  PROVE  /\ EndOf(sts, pl, s, 1) = 0
         /\ \A i \in 1 .. Len(sts) + 1 : EndOf(sts, pl, s, i) \in Nat
         /\ \A i \in 1 .. Len(sts) :
              EndOf(sts, pl, s, i + 1) = EndOf(sts, pl, s, i) + SizeIn(sts, pl, s, i)
<1> DEFINE n == Len(sts)
           f == [j \in 1 .. Len(sts) |-> SizeIn(sts, pl, s, j)]
<1>1. n \in Nat
  BY DEF IsLayout
<1>2. ASSUME NEW j \in 1 .. n PROVE f[j] \in Nat /\ f[j] = SizeIn(sts, pl, s, j)
  BY DEF IsLayout, SizeIn, Place
<1> HIDE DEF n, f
<1>3. ASSUME NEW i \in 1 .. n + 1
      PROVE  /\ EndOf(sts, pl, s, i) = Total([j \in 1 .. i - 1 |-> f[j]])
             /\ [j \in 1 .. i - 1 |-> f[j]] \in Seq(Nat)
  <2>1. i - 1 \in Nat /\ \A j \in 1 .. i - 1 : j \in 1 .. n
    BY <1>1
  <2>2. [j \in 1 .. i - 1 |-> f[j]] = [j \in 1 .. i - 1 |-> SizeIn(sts, pl, s, j)]
    BY <1>2, <2>1
  <2>3. [j \in 1 .. i - 1 |-> f[j]] \in [1 .. i - 1 -> Nat]
    BY <1>2, <2>1
  <2>4. [j \in 1 .. i - 1 |-> f[j]] \in Seq(Nat)
    BY <2>1, <2>3, IsSequence
  <2> QED
    BY <2>2, <2>4 DEF EndOf
<1>4. ASSUME NEW i \in 1 .. n + 1 PROVE EndOf(sts, pl, s, i) \in Nat
  BY <1>3, TotalNat
<1>5. EndOf(sts, pl, s, 1) = 0
  <2>1. 1 \in 1 .. n + 1 /\ 1 - 1 = 0
    BY <1>1
  <2>2. Total([j \in 1 .. 0 |-> f[j]]) = 0
    <3> DEFINE q == [j \in 1 .. 0 |-> f[j]]
    <3>1. q \in Seq(Int) /\ Len(q) = 0
      OBVIOUS
    <3> HIDE DEF q
    <3>3. \A i \in 1 .. Len(q) : q[i] = 0
      BY <3>1
    <3>2. Total(q) = 0
      BY <3>1, <3>3, TotalZero
    <3> QED
      BY <3>2 DEF q
  <2> QED
    BY <1>3, <2>1, <2>2
<1>6. ASSUME NEW i \in 1 .. n
      PROVE  EndOf(sts, pl, s, i + 1) = EndOf(sts, pl, s, i) + SizeIn(sts, pl, s, i)
  <2>1. i \in 1 .. n + 1 /\ i + 1 \in 1 .. n + 1 /\ (i + 1) - 1 = i /\ i \in Nat /\ i # 0
    BY <1>1
  <2>2. \A j \in 1 .. i : f[j] \in Int
    BY <1>1, <1>2
  <2>3. Total([j \in 1 .. i |-> f[j]]) = Total([j \in 1 .. i - 1 |-> f[j]]) + f[i]
    BY <2>1, <2>2, TotalStep
  <2>4. EndOf(sts, pl, s, i + 1) = Total([j \in 1 .. i |-> f[j]])
    BY <1>3, <2>1
  <2>5. EndOf(sts, pl, s, i) = Total([j \in 1 .. i - 1 |-> f[j]])
    BY <1>3, <2>1
  <2> QED
    BY <1>2, <2>3, <2>4, <2>5
<1> QED
  BY <1>4, <1>5, <1>6 DEF n

LEMMA EndType ==
  ASSUME NEW sts, NEW pl, IsLayout(sts, pl), NEW s, NEW i \in 1 .. Len(sts) + 1
  PROVE  EndOf(sts, pl, s, i) \in Nat /\ EndOf(sts, pl, s, i) \in Int
<1>1. EndOf(sts, pl, s, i) \in Nat
  BY EndStep
<1> QED
  BY <1>1

LEMMA EndNext ==
  ASSUME NEW sts, NEW pl, IsLayout(sts, pl), NEW s, NEW i \in 1 .. Len(sts)
  PROVE  EndOf(sts, pl, s, i + 1) = EndOf(sts, pl, s, i) + SizeIn(sts, pl, s, i)
  BY EndStep

\* What lies before statement i depends on the sizes before it.
AgreeBefore(sts, pl, pr, i) == \A j \in 1 .. i - 1 : pl[j].size = pr[j].size

LEMMA EndSame ==
  ASSUME NEW sts, NEW pl, NEW pr, NEW i \in 1 .. Len(sts) + 1, AgreeBefore(sts, pl, pr, i), NEW s
  PROVE  EndOf(sts, pl, s, i) = EndOf(sts, pr, s, i)
<1>1. [j \in 1 .. i - 1 |-> SizeIn(sts, pl, s, j)]
      = [j \in 1 .. i - 1 |-> SizeIn(sts, pr, s, j)]
  BY DEF AgreeBefore, SizeIn
<1> QED
  BY <1>1 DEF EndOf

LEMMA LastOrg ==
  ASSUME NEW sts, Len(sts) \in Nat, NEW i \in 1 .. Len(sts) + 1, NEW s, OrgsOf(sts, s, i) # {}
  PROVE  LET o == Max(OrgsOf(sts, s, i))
         IN  /\ o \in 1 .. i - 1 /\ o \in 1 .. Len(sts) /\ sts[o].section = s /\ sts[o].kind = "org"
             /\ \A j \in OrgsOf(sts, s, i) : j <= o
<1>1. OrgsOf(sts, s, i) \in SUBSET (0 .. Len(sts))
  BY DEF OrgsOf
<1> DEFINE o == Max(OrgsOf(sts, s, i))
<1>2. o \in OrgsOf(sts, s, i) /\ \A j \in OrgsOf(sts, s, i) : j <= o
  BY <1>1, MaxOf
<1> HIDE DEF o
<1>3. o \in 1 .. i - 1 /\ o \in 1 .. Len(sts) /\ sts[o].section = s /\ sts[o].kind = "org"
  BY <1>2 DEF OrgsOf
<1> QED
  BY <1>2, <1>3 DEF o

LEMMA LogicalSame ==
  ASSUME NEW sts, Len(sts) \in Nat, NEW pl, NEW pr, NEW i \in 1 .. Len(sts) + 1,
         AgreeBefore(sts, pl, pr, i), NEW s
  PROVE  LogicalOf(sts, pl, s, i) = LogicalOf(sts, pr, s, i)
<1> DEFINE o == Max(OrgsOf(sts, s, i))
<1>1. EndOf(sts, pl, s, i) = EndOf(sts, pr, s, i)
  BY EndSame
<1>2. ASSUME OrgsOf(sts, s, i) # {}
      PROVE  EndOf(sts, pl, s, o) = EndOf(sts, pr, s, o)
  <2>1. o \in 1 .. i - 1 /\ o \in 1 .. Len(sts)
    BY <1>2, LastOrg
  <2> HIDE DEF o
  <2>2. o \in 1 .. Len(sts) + 1
    BY <2>1
  <2>3. AgreeBefore(sts, pl, pr, o)
    BY <2>1 DEF AgreeBefore
  <2> QED
    BY <2>2, <2>3, EndSame
<1> QED
  BY <1>1, <1>2 DEF LogicalOf

LEMMA StatementIs ==
  ASSUME NEW st \in Statement
  PROVE  /\ st.section \in Sections
         /\ st.kind \in {"label", "org", "even", "reserve", "data", "instruction"}
         /\ st.kind = "label" => st.name \in STRING
         /\ st.kind = "org" => st.value \in 0 .. ValueMod - 1 /\ st.value \in Int
         /\ st.kind = "reserve" => st.size \in Nat
         /\ st.kind = "data" => st.width \in {1, 2, 4} /\ st.items \in Seq(Expression)
         /\ st.kind = "instruction" => st.form \in Forms /\ st.name \in STRING /\ st.addend \in Int
<1>1. st.kind = "org" => st.value \in 0 .. ValueMod - 1
  BY DEF Statement, ValueMod
<1>2. 0 .. ValueMod - 1 \subseteq Int
  BY Modulus
<1> QED
  BY <1>1, <1>2 DEF Statement

LEMMA LogicalType ==
  ASSUME NEW sts, NEW pl, IsLayout(sts, pl), NEW s, NEW i \in 1 .. Len(sts) + 1
  PROVE  LogicalOf(sts, pl, s, i) \in 0 .. ValueMod - 1
<1> DEFINE o == Max(OrgsOf(sts, s, i))
<1>1. Len(sts) \in Nat /\ sts \in Seq(Statement)
  BY DEF IsLayout
<1>2. EndOf(sts, pl, s, i) \in Int
  BY EndType
<1>3. ASSUME OrgsOf(sts, s, i) # {} PROVE sts[o].value + EndOf(sts, pl, s, i) - EndOf(sts, pl, s, o) \in Int
  <2>1. o \in 1 .. Len(sts) /\ sts[o].kind = "org"
    BY <1>1, <1>3, LastOrg
  <2> HIDE DEF o
  <2>2. sts[o] \in Statement
    BY <1>1, <2>1
  <2>3. sts[o].value \in Int
    BY <2>1, <2>2, StatementIs
  <2>4. o \in 1 .. Len(sts) + 1
    BY <1>1, <2>1
  <2>5. EndOf(sts, pl, s, o) \in Int
    BY <2>4, EndType
  <2> QED
    BY <1>2, <2>3, <2>5
<1> QED
  BY <1>2, <1>3, Modulus DEF LogicalOf

LEMMA LogicalStart ==
  ASSUME NEW sts, NEW pl, IsLayout(sts, pl), NEW s
  PROVE  LogicalOf(sts, pl, s, 1) = 0
<1>1. OrgsOf(sts, s, 1) = {}
  BY DEF OrgsOf
<1>2. 0 \in 0 .. ValueMod - 1
  BY Modulus
<1> QED
  BY <1>1, <1>2, EndStep, Modulus DEF LogicalOf

LEMMA LogicalAfterOrg ==
  ASSUME NEW sts, NEW pl, IsLayout(sts, pl), NEW s, NEW i \in 1 .. Len(sts),
         sts[i].section = s, sts[i].kind = "org", pl[i].size = 0
  PROVE  LogicalOf(sts, pl, s, i + 1) = sts[i].value
<1> DEFINE a == EndOf(sts, pl, s, i)
           z == EndOf(sts, pl, s, i + 1)
           o == Max(OrgsOf(sts, s, i + 1))
           v == sts[i].value
<1>1. Len(sts) \in Nat /\ sts \in Seq(Statement) /\ i \in 1 .. Len(sts) + 1 /\ i + 1 \in 1 .. Len(sts) + 1 /\ (i + 1) - 1 = i
  BY DEF IsLayout
<1>2. z = a + SizeIn(sts, pl, s, i)
  BY EndNext
<1>3. a \in Nat
  BY <1>1, EndType
<1>4. SizeIn(sts, pl, s, i) = 0
  BY DEF SizeIn
<1>5. z = a
  <2> HIDE DEF a, z
  <2> QED
    BY <1>2, <1>3, <1>4
<1>6. i \in OrgsOf(sts, s, i + 1)
  BY <1>1 DEF OrgsOf
<1>7. o \in 1 .. i /\ i <= o
  BY <1>1, <1>6, LastOrg
<1>8. o = i
  <2> HIDE DEF o
  <2> QED
    BY <1>1, <1>7
<1>9. LogicalOf(sts, pl, s, i + 1) = Wrap(v + z - a)
  BY <1>6, <1>8 DEF LogicalOf
<1>10. v \in 0 .. ValueMod - 1 /\ v \in Int
  <2>1. sts[i] \in Statement
    BY <1>1
  <2> QED
    BY <2>1, StatementIs
<1> HIDE DEF a, z, v
<1>11. v + z - a = v
  BY <1>3, <1>5, <1>10
<1>12. Wrap(v) = v
  BY <1>10, Modulus
<1> QED
  BY <1>9, <1>11, <1>12 DEF v

\* A statement moves what follows in its section by its size; ORG sets it.
LEMMA LogicalStep ==
  ASSUME NEW sts, NEW pl, IsLayout(sts, pl), NEW s, NEW i \in 1 .. Len(sts)
  PROVE  /\ sts[i].section # s => LogicalOf(sts, pl, s, i + 1) = LogicalOf(sts, pl, s, i)
         /\ sts[i].section = s /\ sts[i].kind # "org" =>
              LogicalOf(sts, pl, s, i + 1) = Wrap(LogicalOf(sts, pl, s, i) + pl[i].size)
         /\ sts[i].section = s /\ sts[i].kind = "org" /\ pl[i].size = 0 =>
              LogicalOf(sts, pl, s, i + 1) = sts[i].value
<1>1. Len(sts) \in Nat /\ sts \in Seq(Statement) /\ i \in 1 .. Len(sts) + 1 /\ i + 1 \in 1 .. Len(sts) + 1 /\ (i + 1) - 1 = i
  BY DEF IsLayout
<1> DEFINE size == SizeIn(sts, pl, s, i)
           a == EndOf(sts, pl, s, i)
           z == EndOf(sts, pl, s, i + 1)
<1>2. z = a + size /\ a \in Nat /\ z \in Nat
  <2>1. z = a + size
    BY EndNext
  <2>2. a \in Nat
    BY <1>1, EndType
  <2>3. z \in Nat
    BY <1>1, EndType
  <2> QED
    BY <2>1, <2>2, <2>3
<1>3. size \in Nat /\ size = IF sts[i].section = s THEN pl[i].size ELSE 0
  BY <1>1 DEF IsLayout, Place, SizeIn
<1>a. size \in Int
  BY <1>3
<1>4. ASSUME ~(sts[i].section = s /\ sts[i].kind = "org")
      PROVE  LogicalOf(sts, pl, s, i + 1) = Wrap(LogicalOf(sts, pl, s, i) + size)
  <2>1. OrgsOf(sts, s, i + 1) = OrgsOf(sts, s, i)
    BY <1>1, <1>4 DEF OrgsOf
  <2>2. CASE OrgsOf(sts, s, i) = {}
    <3> HIDE DEF size, a, z
    <3>1. Wrap(z) = Wrap(Wrap(a) + size)
      BY <1>2, <1>a, WrapWrap
    <3> QED
      BY <2>1, <2>2, <3>1 DEF LogicalOf, a, z
  <2>3. CASE OrgsOf(sts, s, i) # {}
    <3> DEFINE o == Max(OrgsOf(sts, s, i))
               v == sts[o].value
               e == EndOf(sts, pl, s, o)
    <3>1. o \in 1 .. Len(sts) /\ sts[o].kind = "org"
      BY <1>1, <2>3, LastOrg
    <3>2. v \in Int /\ e \in Int
      <4> HIDE DEF o
      <4>1. sts[o] \in Statement /\ o \in 1 .. Len(sts) + 1
        BY <1>1, <3>1
      <4>2. e \in Int
        BY <4>1, EndType
      <4>3. v \in Int
        BY <3>1, <4>1, StatementIs
      <4> QED
        BY <4>2, <4>3
    <3>3. LogicalOf(sts, pl, s, i) = Wrap(v + a - e) /\ LogicalOf(sts, pl, s, i + 1) = Wrap(v + z - e)
      BY <2>1, <2>3 DEF LogicalOf
    <3> HIDE DEF size, a, z, o, v, e
    <3>0. a \in Int /\ z = a + size /\ size \in Int /\ v \in Int /\ e \in Int
      BY <1>2, <1>a, <3>2
    <3>4. v + a - e \in Int
      BY <3>0
    <3>6. v + z - e = (v + a - e) + size
      BY <3>0
    <3>5. Wrap(v + z - e) = Wrap(Wrap(v + a - e) + size)
      <4> DEFINE c == v + a - e
      <4>1. c \in Int /\ v + z - e = c + size
        BY <3>4, <3>6
      <4> HIDE DEF c
      <4>2. Wrap(Wrap(c) + size) = Wrap(c + size)
        BY <1>a, <4>1, WrapWrap
      <4> QED
        BY <4>1, <4>2 DEF c
    <3> QED
      BY <3>3, <3>5
  <2> QED
    BY <2>2, <2>3
<1>5. ASSUME sts[i].section # s PROVE LogicalOf(sts, pl, s, i + 1) = LogicalOf(sts, pl, s, i)
  <2>1. size = 0
    BY <1>3, <1>5
  <2>2. LogicalOf(sts, pl, s, i) \in 0 .. ValueMod - 1
    BY <1>1, LogicalType
  <2>3. LogicalOf(sts, pl, s, i) + 0 = LogicalOf(sts, pl, s, i)
    BY <2>2, Modulus
  <2> HIDE DEF size
  <2> QED
    BY <1>4, <1>5, <2>1, <2>2, <2>3, Modulus
<1>6. ASSUME sts[i].section = s, sts[i].kind = "org", pl[i].size = 0
      PROVE  LogicalOf(sts, pl, s, i + 1) = sts[i].value
  BY <1>6, LogicalAfterOrg
<1> HIDE DEF size
<1> QED
  BY <1>3, <1>4, <1>5, <1>6

-----------------------------------------------------------------------------
(* Types *)

TypeInv == TypeOK /\ symbols \in [LabelNames(Statements) -> Symbol]

LEMMA SourceIs ==
  ASSUME TypeOK
  PROVE  /\ Statements \in Seq(Statement) /\ Len(Statements) \in Nat /\ Indices = 1 .. Len(Statements)
         /\ IsLayout(Statements, placed)
         /\ source.hunkExecutable \in BOOLEAN /\ source.allocated \in [Sections -> Nat \cup {NoSize}]
<1>1. source \in SourceType
  BY SourceAssumption DEF TypeOK
<1>2. /\ Statements \in Seq(Statement)
      /\ source.hunkExecutable \in BOOLEAN /\ source.allocated \in [Sections -> Nat \cup {NoSize}]
  BY <1>1 DEF SourceType, Statements
<1>3. Len(Statements) \in Nat /\ Indices = 1 .. Len(Statements)
  BY <1>2 DEF Indices
<1>4. IsLayout(Statements, placed)
  BY <1>2, <1>3 DEF IsLayout, TypeOK
<1> QED
  BY <1>2, <1>3, <1>4

LEMMA SectionsAre ==
  Sections \subseteq Nat \ {0} /\ Cardinality(Sections) \in Nat /\ Sections = 1 .. Cardinality(Sections)
<1>1. IsFiniteSet(Sections) /\ Sections = 1 .. Cardinality(Sections)
  BY SourceAssumption
<1>2. Cardinality(Sections) \in Nat
  BY <1>1, FS_CardinalityType
<1> DEFINE c == Cardinality(Sections)
<1> HIDE DEF c
<1>3. 1 .. c \subseteq Nat \ {0}
  BY <1>2 DEF c
<1> QED
  BY <1>1, <1>2, <1>3 DEF c

LEMMA AtStatement ==
  ASSUME TypeOK, next <= Len(Statements)
  PROVE  /\ next \in 1 .. Len(Statements) /\ next \in Indices /\ next + 1 \in 1 .. Len(Statements) + 1
         /\ Stmt = Statements[next] /\ Stmt \in Statement /\ S = Statements[next].section /\ S \in Sections
<1>1. Statements \in Seq(Statement) /\ Len(Statements) \in Nat /\ Indices = 1 .. Len(Statements)
  BY SourceIs
<1>2. next \in 1 .. Len(Statements) + 1
  BY DEF TypeOK
<1>3. next \in 1 .. Len(Statements) /\ next + 1 \in 1 .. Len(Statements) + 1
  BY <1>1, <1>2
<1>4. Stmt = Statements[next] /\ Stmt \in Statement
  BY <1>1, <1>3 DEF Stmt
<1>5. S = Stmt.section /\ S \in Sections
  BY <1>4, StatementIs DEF S
<1> QED
  BY <1>1, <1>3, <1>4, <1>5

\* The codes of instructions.
IsCode(code) ==
  /\ code.size \in {2, 4, 6} /\ code.at \in Nat /\ code.at < code.size /\ code.width \in {0, 1, 2, 4}

LEMMA EncodedIs ==
  ASSUME NEW form, NEW value
  PROVE  /\ IsCode(Encoded(form, value))
         /\ form \in {"plain", "indirect"} <=> Encoded(form, value).width = 0
         /\ form = "displacement" => Encoded(form, value).size = 4
<1>1. CASE form \in {"plain", "indirect"}
  <2>1. Encoded(form, value) = [size |-> 2, at |-> 0, width |-> 0]
    BY <1>1 DEF Encoded
  <2> QED
    BY <1>1, <2>1 DEF IsCode
<1>2. CASE form = "branch.b" /\ value % Holds[1] # 0
  <2>1. Encoded(form, value) = [size |-> 2, at |-> 1, width |-> 1]
    BY <1>2 DEF Encoded
  <2> QED
    BY <1>2, <2>1 DEF IsCode
<1>3. CASE form = "absolute.l"
  <2>1. Encoded(form, value) = [size |-> 6, at |-> 2, width |-> 4]
    BY <1>3 DEF Encoded
  <2> QED
    BY <1>3, <2>1 DEF IsCode
<1>4. CASE ~(form \in {"plain", "indirect"}) /\ ~(form = "branch.b" /\ value % Holds[1] # 0) /\ form # "absolute.l"
  <2>1. Encoded(form, value) = [size |-> 4, at |-> 2, width |-> 2]
    BY <1>4 DEF Encoded
  <2> QED
    BY <1>4, <2>1 DEF IsCode
<1> QED
  BY <1>1, <1>2, <1>3, <1>4

LEMMA ResolvedCode ==
  ASSUME NEW sy, NEW st, NEW l, NEW a
  PROVE  /\ IsCode(Resolved(sy, st, l, a).code)
         /\ \A b : Resolved(sy, st, l, b).code = Resolved(sy, st, l, a).code
<1> DEFINE y == Lookup(sy, st.name)
           symbol == Wrap((IF y.defined THEN y.value ELSE 0) + st.addend)
           value == IF st.form \in Relative THEN Wrap(symbol - (l + 2)) ELSE symbol
           vanishes == st.form = "displacement" /\ y.defined /\ y.constant /\ value = 0
           code == IF st.form = "plain" THEN Encoded("plain", 0)
                   ELSE Encoded(IF vanishes THEN "indirect" ELSE st.form, value)
<1>1. \A b : Resolved(sy, st, l, b).code = code
  BY DEF Resolved
<1>2. IsCode(code)
  BY EncodedIs
<1> HIDE DEF code
<1> QED
  BY <1>1, <1>2

LEMMA TypeInit ==
  ASSUME Init
  PROVE  TypeInv
<1>1. source \in SourceType /\ MaxPasses \in Nat \ {0}
  BY SourceAssumption DEF Init
<1>2. Statements \in Seq(Statement) /\ Len(Statements) \in Nat /\ Indices = 1 .. Len(Statements)
  BY <1>1 DEF SourceType, Statements, Indices
<1>3. 0 \in 0 .. ValueMod - 1 /\ 0 \in Nat
  BY Modulus
<1>4. Zeros \in [Sections -> Nat] /\ Zeros \in [Sections -> 0 .. ValueMod - 1]
  BY <1>3 DEF Zeros
<1>5. placed \in [Indices -> Place]
  BY <1>2 DEF Init, Place, Indices
<1>6. emitted \in [Indices -> Nat]
  BY DEF Init, Indices
<1>7. symbols \in [LabelNames(Statements) -> Symbol]
  <2>1. [defined |-> FALSE, absolute |-> FALSE, section |-> 0, value |-> 0] \in Symbol
    BY <1>3 DEF Symbol
  <2> QED
    BY <2>1 DEF Init
<1>8. next \in 1 .. Len(Statements) + 1 /\ pass \in 1 .. MaxPasses
  BY <1>1, <1>2 DEF Init
<1>9. /\ source \in Sources /\ stage = "layout" /\ changed = FALSE
      /\ offsets = Zeros /\ logicals = Zeros /\ writers = Zeros /\ sizes = Zeros
  BY DEF Init
<1> QED
  BY <1>4, <1>5, <1>6, <1>7, <1>8, <1>9 DEF TypeInv, TypeOK

LEMMA SameSource ==
  ASSUME source' = source
  PROVE  Statements' = Statements /\ Indices' = Indices
  BY DEF Statements, Indices

LEMMA TypeAdvance ==
  ASSUME TypeInv, next <= Len(Statements), NEW size \in Nat, Advance(size), changed' \in BOOLEAN
  PROVE  TypeInv'
<1>1. /\ next \in 1 .. Len(Statements) /\ next \in Indices /\ next + 1 \in 1 .. Len(Statements) + 1 /\ S \in Sections
  BY AtStatement DEF TypeInv
<1>2. Statements' = Statements /\ Indices' = Indices
  BY SameSource DEF Advance
<1>3. next' \in 1 .. Len(Statements) + 1
  BY <1>1 DEF Advance
<1>4. offsets \in [Sections -> Nat] /\ logicals \in [Sections -> 0 .. ValueMod - 1]
  BY DEF TypeInv, TypeOK
<1>a. ValueMod \in Nat \ {0}
  BY Modulus
<1>b. offsets[S] \in Nat /\ logicals[S] \in 0 .. ValueMod - 1
  BY <1>1, <1>4
<1>5. offsets[S] \in Nat /\ logicals[S] \in 0 .. ValueMod - 1 /\ logicals[S] \in Nat
  BY <1>a, <1>b
<1>6. [offset |-> offsets[S], logical |-> logicals[S], size |-> size] \in Place
  BY <1>5 DEF Place
<1>7. placed' \in [Indices -> Place]
  BY <1>1, <1>6 DEF Advance, Put, TypeInv, TypeOK
<1>8. Wrap(offsets[S] + size) \in Nat /\ Wrap(logicals[S] + size) \in 0 .. ValueMod - 1
  <2> DEFINE a == offsets[S] + size
             b == logicals[S] + size
  <2>1. a \in Int /\ b \in Int
    BY <1>5
  <2> HIDE DEF a, b
  <2>2. Wrap(a) \in Nat /\ Wrap(b) \in 0 .. ValueMod - 1
    BY <2>1, Modulus
  <2> QED
    BY <2>2 DEF a, b
<1>9. offsets' \in [Sections -> Nat] /\ logicals' \in [Sections -> 0 .. ValueMod - 1]
  BY <1>1, <1>4, <1>8 DEF Advance
<1>10. /\ source' = source /\ stage' = stage /\ pass' = pass /\ symbols' = symbols
       /\ writers' = writers /\ emitted' = emitted /\ sizes' = sizes
  BY DEF Advance, objectVars
<1>11. TypeOK'
  BY <1>2, <1>3, <1>7, <1>9, <1>10 DEF TypeInv, TypeOK
<1>12. symbols' \in [LabelNames(Statements') -> Symbol]
  BY <1>2, <1>10 DEF TypeInv
<1> QED
  BY <1>11, <1>12 DEF TypeInv

\* Every action but those of the layout leaves the layout alone.
LEMMA TypeWrite ==
  ASSUME TypeInv, next <= Len(Statements), NEW size \in Nat, NEW new, NEW more, Write(size, new, more)
  PROVE  TypeInv'
<1>1. next \in Indices /\ next + 1 \in 1 .. Len(Statements) + 1 /\ S \in Sections
  BY AtStatement DEF TypeInv
<1>2. Statements' = Statements /\ Indices' = Indices
  BY SameSource DEF Write
<1>3. next' \in 1 .. Len(Statements) + 1
  BY <1>1 DEF Write
<1>4. writers \in [Sections -> Nat] /\ emitted \in [Indices -> Nat]
  BY DEF TypeInv, TypeOK
<1>5. writers[S] \in Nat
  BY <1>1, <1>4
<1>6. writers' \in [Sections -> Nat]
  BY <1>1, <1>4, <1>5 DEF Write
<1>7. emitted' \in [Indices -> Nat]
  BY <1>1, <1>4 DEF Write
<1>8. /\ source' = source /\ stage' = stage /\ pass' = pass /\ symbols' = symbols /\ changed' = changed
      /\ offsets' = offsets /\ logicals' = logicals /\ placed' = placed /\ sizes' = sizes
  BY DEF Write, layoutVars
<1>9. TypeOK'
  BY <1>2, <1>3, <1>6, <1>7, <1>8 DEF TypeInv, TypeOK
<1>10. symbols' \in [LabelNames(Statements') -> Symbol]
  BY <1>2, <1>8 DEF TypeInv
<1> QED
  BY <1>9, <1>10 DEF TypeInv

\* What is not about the layout or the emission of one statement.
LEMMA TypeOther ==
  ASSUME TypeInv, source' = source,
         stage' \in {"layout", "emit", "done", "written", "read", "failed"},
         pass' \in 1 .. MaxPasses, next' \in {1, next}, changed' \in BOOLEAN,
         offsets' \in {offsets, Zeros}, logicals' \in {logicals, Zeros},
         placed' = placed, symbols' = symbols, writers' = writers, emitted' = emitted,
         sizes' \in [Sections -> Nat]
  PROVE  TypeInv'
<1>1. Statements' = Statements /\ Indices' = Indices
  BY SameSource
<1>2. next' \in 1 .. Len(Statements) + 1
  <2>1. next \in 1 .. Len(Statements) + 1 /\ Len(Statements) \in Nat
    BY SourceIs DEF TypeInv, TypeOK
  <2> QED
    BY <2>1
<1>3. Zeros \in [Sections -> Nat] /\ Zeros \in [Sections -> 0 .. ValueMod - 1]
  BY Modulus DEF Zeros
<1>4. offsets' \in [Sections -> Nat] /\ logicals' \in [Sections -> 0 .. ValueMod - 1]
  BY <1>3 DEF TypeInv, TypeOK
<1>5. TypeOK'
  BY <1>1, <1>2, <1>4 DEF TypeInv, TypeOK
<1>6. symbols' \in [LabelNames(Statements') -> Symbol]
  BY <1>1 DEF TypeInv
<1> QED
  BY <1>5, <1>6 DEF TypeInv

LEMMA TypeFinish ==
  ASSUME TypeInv, Finish
  PROVE  TypeInv' /\ \A s \in Sections : writers[s] <= sizes'[s]
<1>1. /\ writers \in [Sections -> Nat] /\ source.allocated \in [Sections -> Nat \cup {NoSize}]
      /\ pass \in 1 .. MaxPasses /\ changed \in BOOLEAN
  BY SourceIs DEF TypeInv, TypeOK
<1>2. ASSUME NEW s \in Sections
      PROVE  /\ (IF source.allocated[s] = NoSize THEN writers[s] ELSE source.allocated[s]) \in Nat
             /\ writers[s] <= IF source.allocated[s] = NoSize THEN writers[s] ELSE source.allocated[s]
  <2>1. writers[s] \in Nat /\ (source.allocated[s] \in Nat \/ source.allocated[s] = NoSize)
    BY <1>1
  <2>2. CASE source.allocated[s] = NoSize
    BY <2>1, <2>2
  <2>3. CASE source.allocated[s] # NoSize
    <3>1. ~(source.allocated[s] < writers[s]) /\ source.allocated[s] \in Nat
      BY <2>1, <2>3 DEF Finish, TooSmall
    <3> QED
      BY <2>1, <2>3, <3>1
  <2> QED
    BY <2>2, <2>3
<1>3. sizes' = [s \in Sections |-> IF source.allocated[s] = NoSize THEN writers[s] ELSE source.allocated[s]]
  BY DEF Finish
<1>4. sizes' \in [Sections -> Nat] /\ \A s \in Sections : writers[s] <= sizes'[s]
  BY <1>2, <1>3
<1>5. TypeInv'
  BY <1>1, <1>4, TypeOther DEF Finish, layoutVars
<1> QED
  BY <1>4, <1>5

LEMMA TypeStep ==
  ASSUME TypeInv, Next
  PROVE  TypeInv'
<1> USE DEF TypeInv
<1>0. /\ stage \in {"layout", "emit", "done", "written", "read", "failed"}
      /\ pass \in 1 .. MaxPasses /\ changed \in BOOLEAN /\ sizes \in [Sections -> Nat]
      /\ MaxPasses \in Nat \ {0}
  BY SourceAssumption DEF TypeOK
<1>a. ASSUME next <= Len(Statements)
      PROVE  /\ next \in 1 .. Len(Statements) /\ next \in Indices /\ next + 1 \in 1 .. Len(Statements) + 1
             /\ Stmt = Statements[next] /\ Stmt \in Statement /\ S = Stmt.section /\ S \in Sections
             /\ offsets[S] \in Nat /\ logicals[S] \in 0 .. ValueMod - 1 /\ logicals[S] \in Nat /\ writers[S] \in Nat
  <2>1. /\ next \in 1 .. Len(Statements) /\ next \in Indices /\ next + 1 \in 1 .. Len(Statements) + 1
        /\ Stmt = Statements[next] /\ Stmt \in Statement /\ S = Stmt.section /\ S \in Sections
    BY <1>a, AtStatement DEF S
  <2>2. offsets[S] \in Nat /\ logicals[S] \in 0 .. ValueMod - 1 /\ writers[S] \in Nat
    BY <2>1 DEF TypeOK
  <2> QED
    BY <2>1, <2>2, Modulus
<1>b. ASSUME next <= Len(Statements), Stmt.kind = "data" PROVE Stmt.width * Len(Stmt.items) \in Nat
  <2>1. Stmt.width \in {1, 2, 4} /\ Stmt.items \in Seq(Expression)
    BY <1>a, <1>b, StatementIs
  <2>2. Len(Stmt.items) \in Nat
    BY <2>1
  <2> QED
    BY <2>1, <2>2
<1>1. CASE LayoutLabel
  <2>0. next <= Len(Statements) /\ Stmt.kind = "label"
    BY <1>1 DEF LayoutLabel, Laying
  <2>1. Statements' = Statements /\ Indices' = Indices
    BY <1>1, SameSource DEF LayoutLabel
  <2>2. /\ next' = next + 1 /\ source' = source /\ stage' = stage /\ pass' = pass /\ changed' = changed
        /\ offsets' = offsets /\ logicals' = logicals /\ writers' = writers /\ emitted' = emitted /\ sizes' = sizes
    BY <1>1 DEF LayoutLabel, objectVars
  <2>3. [offset |-> offsets[S], logical |-> logicals[S], size |-> 0] \in Place
    BY <1>a, <2>0 DEF Place
  <2>4. placed' \in [Indices -> Place]
    BY <1>1, <1>a, <2>0, <2>3 DEF LayoutLabel, Put, TypeOK
  <2>5. [defined |-> TRUE, absolute |-> IsAbsolute, section |-> S, value |-> logicals[S]] \in Symbol
    BY <1>a, <2>0 DEF Symbol, IsAbsolute
  <2>6. symbols' \in [LabelNames(Statements) -> Symbol]
    BY <1>1, <2>5 DEF LayoutLabel
  <2>7. TypeOK'
    BY <1>a, <2>0, <2>1, <2>2, <2>4 DEF TypeOK
  <2> QED
    BY <2>1, <2>6, <2>7
<1>2. CASE LayoutOrg
  <2>0. next <= Len(Statements) /\ Stmt.kind = "org"
    BY <1>2 DEF LayoutOrg, Laying
  <2>1. Statements' = Statements /\ Indices' = Indices
    BY <1>2, SameSource DEF LayoutOrg
  <2>2. /\ next' = next + 1 /\ source' = source /\ stage' = stage /\ pass' = pass /\ changed' = changed
        /\ offsets' = offsets /\ symbols' = symbols /\ writers' = writers /\ emitted' = emitted /\ sizes' = sizes
    BY <1>2 DEF LayoutOrg, objectVars
  <2>a. Stmt.value \in 0 .. ValueMod - 1
    BY <1>a, <2>0, StatementIs
  <2>b. Stmt.value \in Nat
    BY <2>a, Modulus
  <2>3. [offset |-> offsets[S], logical |-> Stmt.value, size |-> 0] \in Place
    BY <1>a, <2>0, <2>b DEF Place
  <2>4. placed' \in [Indices -> Place]
    BY <1>2, <1>a, <2>0, <2>3 DEF LayoutOrg, TypeOK
  <2>5. logicals' \in [Sections -> 0 .. ValueMod - 1]
    BY <1>2, <2>a DEF LayoutOrg, TypeOK
  <2>7. TypeOK'
    BY <1>a, <2>0, <2>1, <2>2, <2>4, <2>5 DEF TypeOK
  <2> QED
    BY <2>1, <2>2, <2>7
<1>3. CASE LayoutEven
  <2>1. next <= Len(Statements) /\ Advance(logicals[S] % 2) /\ changed' = changed
    BY <1>3 DEF LayoutEven, Laying
  <2>2. logicals[S] % 2 \in Nat
    BY <1>a, <2>1
  <2> QED
    BY <1>0, <2>1, <2>2, TypeAdvance
<1>4. CASE LayoutData
  <2>1. next <= Len(Statements) /\ Stmt.kind = "data" /\ Advance(Stmt.width * Len(Stmt.items)) /\ changed' = changed
    BY <1>4 DEF LayoutData, Laying
  <2>2. Stmt.width * Len(Stmt.items) \in Nat
    BY <1>b, <2>1
  <2> QED
    BY <1>0, <2>1, <2>2, TypeAdvance
<1>5. CASE LayoutReserve
  <2>1. next <= Len(Statements) /\ Stmt.kind = "reserve" /\ Advance(Stmt.size) /\ changed' = changed
    BY <1>5 DEF LayoutReserve, Laying
  <2>2. Stmt.size \in Nat
    BY <1>a, <2>1, StatementIs
  <2> QED
    BY <1>0, <2>1, <2>2, TypeAdvance
<1>6. CASE LayoutInstruction
  <2>1. next <= Len(Statements) /\ Advance(LayoutResolved.code.size) /\ changed' = HasChanged(LayoutResolved.code.size)
    BY <1>6 DEF LayoutInstruction, Laying
  <2>2. LayoutResolved.code.size \in Nat
    <3>1. IsCode(LayoutResolved.code)
      BY ResolvedCode DEF LayoutResolved
    <3> QED
      BY <3>1 DEF IsCode
  <2>3. changed' \in BOOLEAN
    BY <1>0, <2>1 DEF HasChanged
  <2> QED
    BY <2>1, <2>2, <2>3, TypeAdvance
<1>7. CASE NextPass
  <2>1. pass' \in 1 .. MaxPasses
    BY <1>0, <1>7 DEF NextPass
  <2> QED
    BY <1>0, <1>7, <2>1, TypeOther DEF NextPass, objectVars
<1>8. CASE LayoutFails \/ DidNotStabilize \/ EmitGap \/ EmitDataFails \/ EmitInstructionFails \/ AllocationTooSmall \/ NotWritable
  <2>1. Fail
    BY <1>8 DEF LayoutFails, DidNotStabilize, EmitGap, EmitDataFails, EmitInstructionFails, AllocationTooSmall, NotWritable
  <2> QED
    BY <1>0, <2>1, TypeOther DEF Fail, layoutVars, objectVars
<1>9. CASE LayoutDone
  BY <1>0, <1>9, TypeOther DEF LayoutDone, layoutVars, objectVars
<1>10. CASE EmitNothing
  BY <1>10, TypeWrite DEF EmitNothing, Emitting
<1>11. CASE EmitEven
  <2>1. next <= Len(Statements) /\ Write(writers[S] % 2, {}, <<>>)
    BY <1>11 DEF EmitEven, Emitting
  <2>2. writers[S] % 2 \in Nat
    BY <1>a, <2>1
  <2> QED
    BY <2>1, <2>2, TypeWrite
<1>12. CASE EmitData
  <2>1. next <= Len(Statements) /\ Stmt.kind = "data"
    BY <1>12 DEF EmitData, Emitting
  <2>2. Stmt.width * Len(Stmt.items) \in Nat
    BY <1>b, <2>1
  <2> QED
    BY <1>12, <2>1, <2>2, TypeWrite DEF EmitData
<1>13. CASE EmitInstruction
  <2>1. next <= Len(Statements)
    BY <1>13 DEF EmitInstruction, Emitting
  <2>2. EmitResolved.code.size \in Nat
    <3>1. IsCode(EmitResolved.code)
      BY ResolvedCode DEF EmitResolved
    <3> QED
      BY <3>1 DEF IsCode
  <2>3. \E new, more : Write(EmitResolved.code.size, new, more)
    BY <1>13 DEF EmitInstruction
  <2> QED
    BY <2>1, <2>2, <2>3, TypeWrite
<1>14. CASE Finish
  BY <1>14, TypeFinish
<1>15. CASE WriteFile \/ ReadFile
  BY <1>0, <1>15, TypeOther DEF WriteFile, ReadFile, layoutVars
<1>16. CASE Ended
  BY <1>0, <1>16, TypeOther DEF Ended, vars, layoutVars, objectVars
<1> QED
  BY <1>1, <1>2, <1>3, <1>4, <1>5, <1>6, <1>7, <1>8, <1>9, <1>10, <1>11, <1>12, <1>13, <1>14, <1>15, <1>16 DEF Next

\* Every variable keeps its type, from the first pass over the statements to the
\* object that is read from the file: no pass beyond the limit, no running
\* logical offset outside of 32 bits, no size below zero
\* (m68k_source_file_layout, m68k_source_file_emit_object).
THEOREM TypeCorrect == Spec => []TypeOK
<1>1. Init => TypeInv
  BY TypeInit
<1>2. TypeInv /\ [Next]_vars => TypeInv'
  <2> SUFFICES ASSUME TypeInv, [Next]_vars PROVE TypeInv'
    OBVIOUS
  <2>1. CASE Next
    BY <2>1, TypeStep
  <2>2. CASE UNCHANGED vars
    <3>1. source' = source /\ stage' = stage /\ pass' = pass /\ next' = next /\ changed' = changed
          /\ offsets' = offsets /\ logicals' = logicals /\ placed' = placed /\ symbols' = symbols
          /\ writers' = writers /\ emitted' = emitted /\ sizes' = sizes
      BY <2>2 DEF vars, layoutVars, objectVars
    <3> QED
      BY <3>1, TypeOther DEF TypeInv, TypeOK
  <2> QED
    BY <2>1, <2>2
<1>3. TypeInv => TypeOK
  BY DEF TypeInv
<1> QED
  BY <1>1, <1>2, <1>3, PTL DEF Spec

-----------------------------------------------------------------------------
(* The steps of the layout                                                  *)

LEMMA PlacedSame ==
  ASSUME NEW sts, Len(sts) \in Nat, NEW pl, NEW pr, NEW i \in 1 .. Len(sts), AgreeBefore(sts, pl, pr, i),
         pl[i] = pr[i], PlacedAt(sts, pl, i)
  PROVE  PlacedAt(sts, pr, i)
<1>1. i \in 1 .. Len(sts) + 1
  OBVIOUS
<1>2. EndOf(sts, pl, sts[i].section, i) = EndOf(sts, pr, sts[i].section, i)
  BY <1>1, EndSame
<1>3. LogicalOf(sts, pl, sts[i].section, i) = LogicalOf(sts, pr, sts[i].section, i)
  BY <1>1, LogicalSame
<1> QED
  BY <1>2, <1>3 DEF PlacedAt

\* What an action of the layout does with the statement that it looks at: x is
\* its place.
Lays(x) ==
  /\ stage = "layout" /\ stage' = stage /\ source' = source /\ pass' = pass
  /\ next <= Len(Statements) /\ next' = next + 1
  /\ x \in Place /\ placed' = [placed EXCEPT ![next] = x]
  /\ x.offset = offsets[S] /\ x.logical = IF Stmt.kind = "org" THEN Stmt.value ELSE logicals[S]
  /\ \A s \in Sections : s # S => offsets'[s] = offsets[s] /\ logicals'[s] = logicals[s]
  /\ offsets'[S] = Wrap(offsets[S] + x.size)
  /\ logicals'[S] = IF Stmt.kind = "org" THEN Stmt.value ELSE Wrap(logicals[S] + x.size)
  /\ Stmt.kind # "instruction" => x.size = FixedSize(Stmt, x.logical) /\ changed' = changed
  /\ Stmt.kind = "instruction" =>
       x.size = LayoutResolved.code.size /\ changed' = (changed \/ placed[next].size # x.size)
  /\ symbols' = IF Stmt.kind = "label" THEN [symbols EXCEPT ![Stmt.name] = SymbolOf(Statements, placed', next)]
                ELSE symbols

LEMMA LaysBefore ==
  ASSUME TypeInv, NEW x, Lays(x), NEW i \in 1 .. next
  PROVE  /\ AgreeBefore(Statements, placed, placed', i)
         /\ \A s : /\ EndOf(Statements, placed', s, i) = EndOf(Statements, placed, s, i)
                   /\ LogicalOf(Statements, placed', s, i) = LogicalOf(Statements, placed, s, i)
<1>1. next \in 1 .. Len(Statements) /\ Len(Statements) \in Nat
  BY SourceIs, AtStatement DEF TypeInv, Lays
<1>2. AgreeBefore(Statements, placed, placed', i)
  <2>1. \A j \in 1 .. i - 1 : j # next
    BY <1>1
  <2>2. placed' = [placed EXCEPT ![next] = x]
    BY DEF Lays
  <2>3. \A j \in 1 .. i - 1 : j \in 1 .. Len(Statements)
    BY <1>1
  <2>4. placed \in [1 .. Len(Statements) -> Place]
    BY SourceIs DEF TypeInv, IsLayout
  <2> QED
    BY <2>1, <2>2, <2>3, <2>4 DEF AgreeBefore
<1>3. i \in 1 .. Len(Statements) + 1
  BY <1>1
<1>4. ASSUME NEW s
      PROVE  EndOf(Statements, placed', s, i) = EndOf(Statements, placed, s, i)
  BY <1>2, <1>3, EndSame
<1>5. ASSUME NEW s
      PROVE  LogicalOf(Statements, placed', s, i) = LogicalOf(Statements, placed, s, i)
  BY <1>1, <1>2, <1>3, LogicalSame
<1> QED
  BY <1>2, <1>4, <1>5

\* The place of the statement itself, and where the next one goes.
LEMMA LaysNext ==
  ASSUME TypeInv, TypeInv', NEW x, Lays(x),
         \A s \in Sections : /\ offsets[s] = Wrap(EndOf(Statements, placed, s, next))
                             /\ logicals[s] = LogicalOf(Statements, placed, s, next)
  PROVE  /\ PlacedAt(Statements, placed', next)
         /\ \A s \in Sections : /\ offsets'[s] = Wrap(EndOf(Statements, placed', s, next + 1))
                                /\ logicals'[s] = LogicalOf(Statements, placed', s, next + 1)
<1>1. /\ next \in 1 .. Len(Statements) /\ next \in 1 .. next
      /\ Stmt = Statements[next] /\ Stmt \in Statement /\ S = Statements[next].section /\ S \in Sections
  BY AtStatement DEF TypeInv, Lays
<1>2. IsLayout(Statements, placed) /\ Statements' = Statements
  BY SourceIs, SameSource DEF TypeInv, Lays
<1>3. IsLayout(Statements, placed') /\ placed'[next] = x /\ x \in Place
  BY <1>1, <1>2 DEF IsLayout, Lays
<1>4. \A s : /\ EndOf(Statements, placed', s, next) = EndOf(Statements, placed, s, next)
             /\ LogicalOf(Statements, placed', s, next) = LogicalOf(Statements, placed, s, next)
  BY <1>1, LaysBefore
<1>5. PlacedAt(Statements, placed', next)
  <2>1. x.offset = Wrap(EndOf(Statements, placed', S, next))
    BY <1>1, <1>4 DEF Lays
  <2>2. x.logical = IF Stmt.kind = "org" THEN Stmt.value ELSE LogicalOf(Statements, placed', S, next)
    BY <1>1, <1>4 DEF Lays
  <2>3. Stmt.kind # "instruction" => x.size = FixedSize(Stmt, x.logical)
    BY DEF Lays
  <2> QED
    BY <1>1, <1>3, <2>1, <2>2, <2>3 DEF PlacedAt
<1>6. ASSUME NEW s \in Sections
      PROVE  offsets'[s] = Wrap(EndOf(Statements, placed', s, next + 1))
  <2> DEFINE e == EndOf(Statements, placed', s, next)
             z == SizeIn(Statements, placed', s, next)
  <2>1. EndOf(Statements, placed', s, next + 1) = e + z
    BY <1>1, <1>3, EndNext
  <2>0. next \in 1 .. Len(Statements) + 1 /\ Statements \in Seq(Statement)
    BY <1>1, <1>3 DEF IsLayout
  <2>2. e \in Int
    BY <1>3, <2>0, EndType
  <2>3. z = (IF S = s THEN x.size ELSE 0) /\ x.size \in Int
    BY <1>1, <1>3 DEF SizeIn, Place
  <2>4. z \in Int
    BY <2>3
  <2>5. offsets[s] = Wrap(e)
    BY <1>4
  <2> HIDE DEF e, z
  <2>6. Wrap(Wrap(e) + z) = Wrap(e + z)
    BY <2>2, <2>4, WrapWrap
  <2>7. CASE S = s
    BY <2>1, <2>3, <2>5, <2>6, <2>7 DEF Lays
  <2>8. CASE S # s
    BY <2>1, <2>2, <2>3, <2>5, <2>8 DEF Lays
  <2> QED
    BY <2>7, <2>8
<1>7. ASSUME NEW s \in Sections
      PROVE  logicals'[s] = LogicalOf(Statements, placed', s, next + 1)
  <2>1. logicals[s] = LogicalOf(Statements, placed', s, next)
    BY <1>4
  <2>a. /\ Statements[next].section # s =>
             LogicalOf(Statements, placed', s, next + 1) = LogicalOf(Statements, placed', s, next)
        /\ Statements[next].section = s /\ Statements[next].kind # "org" =>
             LogicalOf(Statements, placed', s, next + 1) = Wrap(LogicalOf(Statements, placed', s, next) + placed'[next].size)
        /\ Statements[next].section = s /\ Statements[next].kind = "org" /\ placed'[next].size = 0 =>
             LogicalOf(Statements, placed', s, next + 1) = Statements[next].value
    <3> DEFINE pr == placed'
    <3>1. IsLayout(Statements, pr)
      BY <1>3
    <3> HIDE DEF pr
    <3>2. next \in 1 .. Len(Statements)
      BY <1>1
    <3> DEFINE sts == Statements
    <3> HIDE DEF sts
    <3>3. sts = Statements /\ IsLayout(sts, pr) /\ next \in 1 .. Len(sts)
      BY <3>1, <3>2 DEF sts
    <3>4. sts[next].section # s => LogicalOf(sts, pr, s, next + 1) = LogicalOf(sts, pr, s, next)
      BY <3>3, LogicalStep
    <3>5. sts[next].section = s /\ sts[next].kind # "org" =>
            LogicalOf(sts, pr, s, next + 1) = Wrap(LogicalOf(sts, pr, s, next) + pr[next].size)
      BY <3>3, LogicalStep
    <3>6. ASSUME sts[next].section = s, sts[next].kind = "org", pr[next].size = 0
          PROVE  LogicalOf(sts, pr, s, next + 1) = sts[next].value
      BY <3>3, <3>6, LogicalAfterOrg
    <3> QED
      BY <3>3, <3>4, <3>5, <3>6 DEF pr
  <2>2. CASE S # s
    <3>1. logicals'[s] = logicals[s]
      BY <2>2 DEF Lays
    <3> QED
      BY <1>1, <2>1, <2>a, <2>2, <3>1
  <2>3. CASE S = s /\ Stmt.kind # "org"
    <3>1. logicals'[s] = Wrap(logicals[s] + x.size)
      BY <2>3 DEF Lays
    <3> QED
      BY <1>1, <1>3, <2>1, <2>a, <2>3, <3>1
  <2>4. CASE S = s /\ Stmt.kind = "org"
    <3>1. x.size = FixedSize(Stmt, x.logical)
      BY <2>4 DEF Lays
    <3>2. x.size = 0
      BY <2>4, <3>1 DEF FixedSize
    <3>3. logicals'[s] = Stmt.value
      BY <2>4 DEF Lays
    <3> QED
      BY <1>1, <1>3, <2>a, <2>4, <3>2, <3>3
  <2> QED
    BY <2>2, <2>3, <2>4
<1> QED
  BY <1>5, <1>6, <1>7

\* A name is defined by the statement that is looked at, or it keeps its value.
LEMMA LaysLabels ==
  ASSUME TypeInv, NEW x, Lays(x), OneDefinition(Statements), NEW i \in 1 .. Len(Statements),
         i # next => placed'[i] = placed[i] /\ LabelledAt(Statements, placed, symbols, i)
  PROVE  LabelledAt(Statements, placed', symbols', i)
<1>1. /\ next \in 1 .. Len(Statements) /\ Stmt = Statements[next] /\ Indices = 1 .. Len(Statements)
  BY SourceIs, AtStatement DEF TypeInv, Lays
<1>2. symbols \in [LabelNames(Statements) -> Symbol]
  BY DEF TypeInv
<1>3. Statements[i].kind = "label" => Statements[i].name \in LabelNames(Statements)
  BY <1>1 DEF LabelNames, Indices
<1>4. CASE i = next
  <2> SUFFICES ASSUME Statements[i].kind = "label"
               PROVE  symbols'[Statements[i].name] = SymbolOf(Statements, placed', i)
    BY DEF LabelledAt
  <2>1. symbols' = [symbols EXCEPT ![Stmt.name] = SymbolOf(Statements, placed', next)]
    BY <1>1, <1>4 DEF Lays
  <2> QED
    BY <1>1, <1>2, <1>3, <1>4, <2>1
<1>5. CASE i # next
  <2> SUFFICES ASSUME Statements[i].kind = "label"
               PROVE  symbols'[Statements[i].name] = SymbolOf(Statements, placed', i)
    BY DEF LabelledAt
  <2>1. symbols[Statements[i].name] = SymbolOf(Statements, placed, i)
    BY <1>5 DEF LabelledAt
  <2>2. SymbolOf(Statements, placed', i) = SymbolOf(Statements, placed, i)
    BY <1>5 DEF SymbolOf
  <2>3. Stmt.kind = "label" => Stmt.name # Statements[i].name
    BY <1>1, <1>5 DEF OneDefinition
  <2>4. symbols'[Statements[i].name] = symbols[Statements[i].name]
    BY <1>2, <1>3, <2>3 DEF Lays
  <2> QED
    BY <2>1, <2>2, <2>4
<1> QED
  BY <1>4, <1>5

\* In a pass without a change, a statement stays where it was, and so does its
\* label.
LEMMA LaysAgain ==
  ASSUME TypeInv, NEW x, Lays(x), ~changed',
         \A s \in Sections : /\ offsets[s] = Wrap(EndOf(Statements, placed, s, next))
                             /\ logicals[s] = LogicalOf(Statements, placed, s, next),
         PlacedAt(Statements, placed, next), LabelledAt(Statements, placed, symbols, next)
  PROVE  placed' = placed /\ symbols' = symbols
<1>1. /\ next \in 1 .. Len(Statements) /\ Stmt = Statements[next] /\ Indices = 1 .. Len(Statements)
      /\ S = Statements[next].section /\ S \in Sections
  BY SourceIs, AtStatement DEF TypeInv, Lays
<1>2. placed \in [Indices -> Place] /\ symbols \in [LabelNames(Statements) -> Symbol] /\ x \in Place
  BY DEF TypeInv, TypeOK, Lays
<1> DEFINE p == placed[next]
<1>3. p \in Place
  BY <1>1, <1>2
<1>4. /\ p.offset = Wrap(EndOf(Statements, placed, Statements[next].section, next))
      /\ p.logical = IF Stmt.kind = "org" THEN Stmt.value ELSE LogicalOf(Statements, placed, Statements[next].section, next)
      /\ Stmt.kind # "instruction" => p.size = FixedSize(Stmt, p.logical)
  BY <1>1 DEF PlacedAt
<1> HIDE DEF p
<1>5. p.offset = x.offset
  BY <1>1, <1>4 DEF Lays
<1>6. p.logical = x.logical
  BY <1>1, <1>4 DEF Lays
<1>7. p.size = x.size
  <2>1. CASE Stmt.kind = "instruction"
    BY <2>1 DEF Lays, p
  <2>2. CASE Stmt.kind # "instruction"
    BY <1>4, <1>6, <2>2 DEF Lays
  <2> QED
    BY <2>1, <2>2
<1>8. p = x
  BY <1>2, <1>3, <1>5, <1>6, <1>7 DEF Place
<1>9. placed' = placed
  BY <1>2, <1>8 DEF Lays, p
<1>10. symbols' = symbols
  <2>1. CASE Stmt.kind = "label"
    <3>1. symbols[Stmt.name] = SymbolOf(Statements, placed, next)
      BY <1>1, <2>1 DEF LabelledAt
    <3>2. symbols' = [symbols EXCEPT ![Stmt.name] = SymbolOf(Statements, placed, next)]
      BY <1>9, <2>1 DEF Lays
    <3> QED
      BY <1>2, <3>1, <3>2
  <2>2. CASE Stmt.kind # "label"
    BY <2>2 DEF Lays
  <2> QED
    BY <2>1, <2>2
<1> QED
  BY <1>9, <1>10

LEMMA LaysOne ==
  ASSUME TypeInv, TypeInv', LayoutInv, NEW x, Lays(x)
  PROVE  LayoutInv'
<1> SUFFICES ASSUME OneDefinition(Statements)
             PROVE  LayoutInv'
  BY SameSource DEF LayoutInv, Lays
<1>1. /\ next \in 1 .. Len(Statements) /\ next \in 1 .. next /\ next + 1 \in 1 .. Len(Statements) + 1
      /\ Len(Statements) \in Nat /\ Indices = 1 .. Len(Statements)
      /\ Stmt = Statements[next] /\ S = Statements[next].section /\ S \in Sections
  BY SourceIs, AtStatement DEF TypeInv, Lays
<1>2. Statements' = Statements /\ Indices' = Indices /\ stage = "layout" /\ stage' = "layout"
      /\ pass' = pass /\ next' = next + 1 /\ next' - 1 = next
  BY <1>1, SameSource DEF Lays
<1>3. /\ \A i \in 1 .. next - 1 : PlacedAt(Statements, placed, i) /\ LabelledAt(Statements, placed, symbols, i)
      /\ \A s \in Sections : /\ offsets[s] = Wrap(EndOf(Statements, placed, s, next))
                             /\ logicals[s] = LogicalOf(Statements, placed, s, next)
      /\ pass = 1 => /\ \A i \in next .. Len(Statements) : placed[i].size = 0
                     /\ ~changed => \A i \in 1 .. next - 1 : Statements[i].kind # "instruction"
      /\ pass # 1 /\ ~changed =>
           /\ \A i \in Indices : PlacedAt(Statements, placed, i) /\ LabelledAt(Statements, placed, symbols, i)
           /\ \A i \in 1 .. next - 1 : SizedAt(Statements, placed, symbols, i)
  BY <1>2 DEF LayoutInv
<1>4. placed \in [Indices -> Place] /\ placed' = [placed EXCEPT ![next] = x]
  BY DEF TypeInv, TypeOK, Lays
<1>5. /\ PlacedAt(Statements, placed', next)
      /\ \A s \in Sections : /\ offsets'[s] = Wrap(EndOf(Statements, placed', s, next + 1))
                             /\ logicals'[s] = LogicalOf(Statements, placed', s, next + 1)
  BY <1>3, LaysNext
<1>6. ASSUME NEW i \in 1 .. next - 1
      PROVE  PlacedAt(Statements, placed', i) /\ LabelledAt(Statements, placed', symbols', i)
  <2>1. i \in 1 .. next /\ i \in 1 .. Len(Statements) /\ i # next
    BY <1>1
  <2>2. placed'[i] = placed[i]
    BY <1>1, <1>4, <2>1
  <2>3. AgreeBefore(Statements, placed, placed', i)
    BY <2>1, LaysBefore
  <2>4. PlacedAt(Statements, placed', i)
    BY <1>1, <1>3, <2>1, <2>2, <2>3, PlacedSame
  <2>5. LabelledAt(Statements, placed', symbols', i)
    BY <1>3, <2>1, <2>2, LaysLabels
  <2> QED
    BY <2>4, <2>5
<1>7. LabelledAt(Statements, placed', symbols', next)
  BY <1>1, LaysLabels
<1>8. \A i \in 1 .. next : PlacedAt(Statements, placed', i) /\ LabelledAt(Statements, placed', symbols', i)
  BY <1>1, <1>5, <1>6, <1>7
<1>9. ASSUME pass = 1
      PROVE  /\ \A i \in next + 1 .. Len(Statements) : placed'[i].size = 0
             /\ ~changed' => \A i \in 1 .. next : Statements[i].kind # "instruction"
  <2>1. ASSUME NEW i \in next + 1 .. Len(Statements) PROVE placed'[i].size = 0
    <3>1. i \in next .. Len(Statements) /\ i \in Indices /\ i # next
      BY <1>1
    <3> QED
      BY <1>3, <1>4, <1>9, <3>1
  <2>2. ASSUME ~changed' PROVE ~changed /\ Stmt.kind # "instruction"
    <3>1. CASE Stmt.kind = "instruction"
      <4>1. placed[next].size = 0
        BY <1>1, <1>3, <1>9
      <4>2. x.size \in {2, 4, 6}
        <5>1. IsCode(LayoutResolved.code)
          BY ResolvedCode DEF LayoutResolved
        <5> QED
          BY <3>1, <5>1 DEF IsCode, Lays
      <4>3. placed[next].size # x.size
        BY <4>1, <4>2
      <4>4. changed' = (changed \/ placed[next].size # x.size)
        BY <3>1 DEF Lays
      <4>5. changed'
        BY <4>3, <4>4
      <4> QED
        BY <2>2, <4>5
    <3>2. CASE Stmt.kind # "instruction"
      BY <2>2, <3>2 DEF Lays
    <3> QED
      BY <3>1, <3>2
  <2>3. ASSUME ~changed' PROVE \A i \in 1 .. next : Statements[i].kind # "instruction"
    BY <1>1, <1>3, <1>9, <2>2, <2>3
  <2> QED
    BY <2>1, <2>3
<1>10. ASSUME pass # 1, ~changed'
       PROVE  /\ \A i \in Indices : PlacedAt(Statements, placed', i) /\ LabelledAt(Statements, placed', symbols', i)
              /\ \A i \in 1 .. next : SizedAt(Statements, placed', symbols', i)
  <2>1. ~changed
    BY <1>10 DEF Lays
  <2>2. /\ \A i \in Indices : PlacedAt(Statements, placed, i) /\ LabelledAt(Statements, placed, symbols, i)
        /\ \A i \in 1 .. next - 1 : SizedAt(Statements, placed, symbols, i)
    BY <1>3, <1>10, <2>1
  <2>3. placed' = placed /\ symbols' = symbols
    BY <1>1, <1>3, <1>10, <2>2, LaysAgain
  <2>4. SizedAt(Statements, placed, symbols, next)
    <3> SUFFICES ASSUME Stmt.kind = "instruction"
                 PROVE  placed[next].size = OperandOf(Statements, placed, symbols, next).code.size
      BY <1>1 DEF SizedAt
    <3>1. placed[next] = x
      BY <1>1, <1>4, <2>3
    <3>2. x.logical = logicals[S] /\ x.size = LayoutResolved.code.size
      BY DEF Lays
    <3>3. Resolved(symbols, Stmt, logicals[S], FALSE).code = Resolved(symbols, Stmt, logicals[S], TRUE).code
      BY ResolvedCode
    <3> QED
      BY <1>1, <3>1, <3>2, <3>3 DEF OperandOf, LayoutResolved
  <2>5. \A i \in 1 .. next : i \in 1 .. next - 1 \/ i = next
    BY <1>1
  <2> QED
    BY <2>2, <2>3, <2>4, <2>5
<1> QED
  BY <1>2, <1>5, <1>8, <1>9, <1>10 DEF LayoutInv

\* The actions of the layout, each with the place it gives to the statement.
LEMMA LayoutLays ==
  ASSUME TypeInv, LayoutLabel \/ LayoutOrg \/ LayoutEven \/ LayoutData \/ LayoutReserve \/ LayoutInstruction,
         \A s \in Sections : offsets[s] \in 0 .. ValueMod - 1
  PROVE  \E x : Lays(x)
<1>0. next <= Len(Statements) /\ stage = "layout"
  BY DEF LayoutLabel, LayoutOrg, LayoutEven, LayoutData, LayoutReserve, LayoutInstruction, Laying
<1>1. /\ next \in 1 .. Len(Statements) /\ Stmt = Statements[next] /\ Stmt \in Statement /\ S \in Sections /\ next \in Indices
  BY <1>0, AtStatement DEF TypeInv
<1>2. /\ offsets \in [Sections -> Nat] /\ logicals \in [Sections -> 0 .. ValueMod - 1]
      /\ placed \in [Indices -> Place]
  BY DEF TypeInv, TypeOK
<1>3. /\ offsets[S] \in 0 .. ValueMod - 1 /\ logicals[S] \in 0 .. ValueMod - 1
      /\ ValueMod \in Nat \ {0}
  BY <1>1, <1>2, Modulus
<1>4. offsets[S] \in Nat /\ logicals[S] \in Nat /\ offsets[S] + 0 = offsets[S] /\ logicals[S] + 0 = logicals[S]
  BY <1>3
<1>5. Wrap(offsets[S] + 0) = offsets[S] /\ Wrap(logicals[S] + 0) = logicals[S]
  BY <1>3, <1>4, Modulus
<1>6. ASSUME NEW size \in Nat, Advance(size), Stmt.kind \notin {"label", "org"},
             Stmt.kind # "instruction" => size = FixedSize(Stmt, logicals[S]) /\ changed' = changed,
             Stmt.kind = "instruction" =>
               size = LayoutResolved.code.size /\ changed' = (changed \/ placed[next].size # size)
      PROVE  \E x : Lays(x)
  <2> DEFINE x == [offset |-> offsets[S], logical |-> logicals[S], size |-> size]
  <2>1. x \in Place /\ x.offset = offsets[S] /\ x.logical = logicals[S] /\ x.size = size
    BY <1>4 DEF Place
  <2>2. placed' = [placed EXCEPT ![next] = x]
    BY <1>6 DEF Advance, Put
  <2> HIDE DEF x
  <2>3. /\ stage' = stage /\ source' = source /\ pass' = pass /\ next' = next + 1 /\ symbols' = symbols
        /\ offsets' = [offsets EXCEPT ![S] = Wrap(@ + size)] /\ logicals' = [logicals EXCEPT ![S] = Wrap(@ + size)]
    BY <1>6 DEF Advance
  <2>4. /\ \A s \in Sections : s # S => offsets'[s] = offsets[s] /\ logicals'[s] = logicals[s]
        /\ offsets'[S] = Wrap(offsets[S] + size) /\ logicals'[S] = Wrap(logicals[S] + size)
    BY <1>1, <1>2, <2>3
  <2>5. Lays(x)
    BY <1>0, <1>6, <2>1, <2>2, <2>3, <2>4 DEF Lays
  <2> QED
    BY <2>5
<1>7. CASE LayoutLabel
  <2> DEFINE x == [offset |-> offsets[S], logical |-> logicals[S], size |-> 0]
  <2>1. x \in Place /\ x.offset = offsets[S] /\ x.logical = logicals[S] /\ x.size = 0
    BY <1>4 DEF Place
  <2>2. placed' = [placed EXCEPT ![next] = x] /\ Stmt.kind = "label"
    BY <1>7 DEF LayoutLabel, Put, Laying
  <2> HIDE DEF x
  <2>3. /\ stage' = stage /\ source' = source /\ pass' = pass /\ next' = next + 1 /\ changed' = changed
        /\ offsets' = offsets /\ logicals' = logicals
    BY <1>7 DEF LayoutLabel
  <2>4. placed'[next] = x
    BY <1>1, <1>2, <2>2
  <2>5. SymbolOf(Statements, placed', next)
        = [defined |-> TRUE, absolute |-> IsAbsolute, section |-> S, value |-> logicals[S]]
    BY <1>1, <2>1, <2>4 DEF SymbolOf, IsAbsolute, S
  <2>6. symbols' = [symbols EXCEPT ![Stmt.name] = SymbolOf(Statements, placed', next)]
    BY <1>7, <2>5 DEF LayoutLabel
  <2>7. FixedSize(Stmt, x.logical) = 0
    BY <2>2 DEF FixedSize
  <2>8. Lays(x)
    BY <1>0, <1>5, <2>1, <2>2, <2>3, <2>6, <2>7 DEF Lays
  <2> QED
    BY <2>8
<1>8. CASE LayoutOrg
  <2> DEFINE x == [offset |-> offsets[S], logical |-> Stmt.value, size |-> 0]
  <2>0. Stmt.kind = "org"
    BY <1>8 DEF LayoutOrg, Laying
  <2>a. Stmt.value \in 0 .. ValueMod - 1
    BY <1>1, <2>0, StatementIs
  <2>b. Stmt.value \in Nat
    BY <1>3, <2>a
  <2>1. x \in Place /\ x.offset = offsets[S] /\ x.logical = Stmt.value /\ x.size = 0
    BY <1>4, <2>b DEF Place
  <2>2. placed' = [placed EXCEPT ![next] = x]
    BY <1>8 DEF LayoutOrg
  <2> HIDE DEF x
  <2>3. /\ stage' = stage /\ source' = source /\ pass' = pass /\ next' = next + 1 /\ changed' = changed
        /\ offsets' = offsets /\ logicals' = [logicals EXCEPT ![S] = Stmt.value] /\ symbols' = symbols
    BY <1>8 DEF LayoutOrg
  <2>4. /\ \A s \in Sections : s # S => offsets'[s] = offsets[s] /\ logicals'[s] = logicals[s]
        /\ logicals'[S] = Stmt.value
    BY <1>1, <1>2, <2>3
  <2>5. FixedSize(Stmt, x.logical) = 0
    BY <2>0 DEF FixedSize
  <2>6. Lays(x)
    BY <1>0, <1>5, <2>0, <2>1, <2>2, <2>3, <2>4, <2>5 DEF Lays
  <2> QED
    BY <2>6
<1>9. CASE LayoutEven
  <2>1. Stmt.kind = "even" /\ Advance(logicals[S] % 2) /\ changed' = changed
    BY <1>9 DEF LayoutEven, Laying
  <2>2. logicals[S] % 2 \in Nat
    BY <1>4
  <2>3. FixedSize(Stmt, logicals[S]) = logicals[S] % 2
    BY <2>1 DEF FixedSize
  <2> QED
    BY <1>6, <2>1, <2>2, <2>3
<1>10. CASE LayoutData
  <2>1. Stmt.kind = "data" /\ Advance(Stmt.width * Len(Stmt.items)) /\ changed' = changed
    BY <1>10 DEF LayoutData, Laying
  <2>2. Stmt.width \in {1, 2, 4} /\ Len(Stmt.items) \in Nat
    <3>1. Stmt.width \in {1, 2, 4} /\ Stmt.items \in Seq(Expression)
      BY <1>1, <2>1, StatementIs
    <3> QED
      BY <3>1
  <2>3. Stmt.width * Len(Stmt.items) \in Nat
    BY <2>2
  <2>4. FixedSize(Stmt, logicals[S]) = Stmt.width * Len(Stmt.items)
    BY <2>1 DEF FixedSize
  <2> QED
    BY <1>6, <2>1, <2>3, <2>4
<1>11. CASE LayoutReserve
  <2>1. Stmt.kind = "reserve" /\ Advance(Stmt.size) /\ changed' = changed
    BY <1>11 DEF LayoutReserve, Laying
  <2>2. Stmt.size \in Nat
    BY <1>1, <2>1, StatementIs
  <2>3. FixedSize(Stmt, logicals[S]) = Stmt.size
    BY <2>1 DEF FixedSize
  <2> QED
    BY <1>6, <2>1, <2>2, <2>3
<1>12. CASE LayoutInstruction
  <2>1. /\ Stmt.kind = "instruction" /\ Advance(LayoutResolved.code.size)
        /\ changed' = (changed \/ placed[next].size # LayoutResolved.code.size)
    BY <1>12 DEF LayoutInstruction, Laying, HasChanged
  <2>2. LayoutResolved.code.size \in Nat
    <3>1. IsCode(LayoutResolved.code)
      BY ResolvedCode DEF LayoutResolved
    <3> QED
      BY <3>1 DEF IsCode
  <2> QED
    BY <1>6, <2>1, <2>2
<1> QED
  BY <1>7, <1>8, <1>9, <1>10, <1>11, <1>12

LEMMA LayoutInit ==
  ASSUME Init, TypeInv
  PROVE  LayoutInv
<1>1. /\ stage = "layout" /\ next = 1 /\ pass = 1 /\ changed = FALSE /\ offsets = Zeros /\ logicals = Zeros
      /\ placed = [i \in DOMAIN Statements |-> [offset |-> 0, logical |-> 0, size |-> 0]]
  BY DEF Init
<1>2. IsLayout(Statements, placed) /\ Len(Statements) \in Nat /\ Indices = 1 .. Len(Statements)
  BY SourceIs DEF TypeInv
<1>3. ASSUME NEW s \in Sections
      PROVE  offsets[s] = Wrap(EndOf(Statements, placed, s, 1)) /\ logicals[s] = LogicalOf(Statements, placed, s, 1)
  <2>1. offsets[s] = 0 /\ logicals[s] = 0 /\ 0 \in 0 .. ValueMod - 1
    BY <1>1, Modulus DEF Zeros
  <2>2. EndOf(Statements, placed, s, 1) = 0
    BY <1>2, EndStep
  <2>3. LogicalOf(Statements, placed, s, 1) = 0
    BY <1>2, LogicalStart
  <2> QED
    BY <2>1, <2>2, <2>3, Modulus
<1>4. \A i \in 1 .. Len(Statements) : placed[i].size = 0
  BY <1>1, <1>2 DEF Indices
<1>5. 1 .. next - 1 = {}
  BY <1>1
<1> QED
  BY <1>1, <1>3, <1>4, <1>5 DEF LayoutInv

\* The layout is not touched any more, or nothing is said of it.
LEMMA LayoutKept ==
  ASSUME LayoutInv, source' = source, placed' = placed, symbols' = symbols,
         \/ stage' = "failed"
         \/ stage \in {"emit", "done", "written", "read"} /\ stage' \in {"emit", "done", "written", "read"}
  PROVE  LayoutInv'
  BY SameSource DEF LayoutInv

LEMMA LayoutStep ==
  ASSUME TypeInv, TypeInv', LayoutInv, Next
  PROVE  LayoutInv'
<1>0. /\ next \in 1 .. Len(Statements) + 1 /\ Len(Statements) \in Nat /\ Indices = 1 .. Len(Statements)
      /\ IsLayout(Statements, placed) /\ pass \in 1 .. MaxPasses
  BY SourceIs DEF TypeInv, TypeOK
<1>1. CASE LayoutLabel \/ LayoutOrg \/ LayoutEven \/ LayoutData \/ LayoutReserve \/ LayoutInstruction
  <2>1. stage = "layout"
    BY <1>1 DEF LayoutLabel, LayoutOrg, LayoutEven, LayoutData, LayoutReserve, LayoutInstruction, Laying
  <2>a. source' = source
    BY <1>1 DEF LayoutLabel, LayoutOrg, LayoutEven, LayoutData, LayoutReserve, LayoutInstruction, Advance
  <2> SUFFICES ASSUME OneDefinition(Statements)
               PROVE  LayoutInv'
    BY <2>a, SameSource DEF LayoutInv
  <2>2. ASSUME NEW s \in Sections PROVE offsets[s] \in 0 .. ValueMod - 1
    <3>1. EndOf(Statements, placed, s, next) \in Int
      BY <1>0, EndType
    <3>2. offsets[s] = Wrap(EndOf(Statements, placed, s, next))
      BY <2>1 DEF LayoutInv
    <3> QED
      BY <3>1, <3>2, Modulus
  <2>3. PICK x : Lays(x)
    BY <1>1, <2>2, LayoutLays
  <2> QED
    BY <2>3, LaysOne
<1>2. ASSUME EndOfPass, ~changed \/ pass' # 1, OneDefinition(Statements)
      PROVE  /\ \A i \in Indices : PlacedAt(Statements, placed, i) /\ LabelledAt(Statements, placed, symbols, i)
             /\ ~changed => \A i \in Indices : SizedAt(Statements, placed, symbols, i)
  <2>1. stage = "layout" /\ next - 1 = Len(Statements)
    BY <1>0, <1>2 DEF EndOfPass
  <2>2. CASE pass = 1
    BY <1>0, <2>1, <1>2, <2>2 DEF LayoutInv, SizedAt
  <2>3. CASE pass # 1
    BY <1>0, <2>1, <1>2, <2>3 DEF LayoutInv
  <2> QED
    BY <2>2, <2>3
<1>3. CASE NextPass
  <2>1. /\ source' = source /\ stage' = stage /\ placed' = placed /\ symbols' = symbols
        /\ pass' = pass + 1 /\ next' = 1 /\ offsets' = Zeros /\ logicals' = Zeros /\ EndOfPass /\ stage = "layout"
    BY <1>3 DEF NextPass, EndOfPass
  <2>2. pass' # 1
    BY <1>0, <2>1
  <2> SUFFICES ASSUME OneDefinition(Statements)
               PROVE  LayoutInv'
    BY <2>1, SameSource DEF LayoutInv
  <2>3. \A i \in Indices : PlacedAt(Statements, placed, i) /\ LabelledAt(Statements, placed, symbols, i)
    BY <1>2, <2>1, <2>2
  <2>4. ASSUME NEW s \in Sections
        PROVE  offsets'[s] = Wrap(EndOf(Statements, placed, s, 1)) /\ logicals'[s] = LogicalOf(Statements, placed, s, 1)
    <3>1. offsets'[s] = 0 /\ logicals'[s] = 0 /\ 0 \in 0 .. ValueMod - 1
      BY <2>1, Modulus DEF Zeros
    <3>2. EndOf(Statements, placed, s, 1) = 0
      BY <1>0, EndStep
    <3>3. LogicalOf(Statements, placed, s, 1) = 0
      BY <1>0, LogicalStart
    <3> QED
      BY <3>1, <3>2, <3>3, Modulus
  <2>5. Statements' = Statements /\ Indices' = Indices /\ 1 .. next' - 1 = {} /\ stage' = "layout" /\ next' = 1
    BY <2>1, SameSource
  <2> QED
    BY <2>1, <2>2, <2>3, <2>4, <2>5 DEF LayoutInv
<1>4. CASE LayoutDone
  <2>1. /\ source' = source /\ placed' = placed /\ symbols' = symbols /\ EndOfPass /\ ~changed /\ stage' = "emit"
    BY <1>4 DEF LayoutDone, layoutVars
  <2> SUFFICES ASSUME OneDefinition(Statements)
               PROVE  LayoutInv'
    BY <2>1, SameSource DEF LayoutInv
  <2>2. \A i \in Indices : /\ PlacedAt(Statements, placed, i) /\ LabelledAt(Statements, placed, symbols, i)
                           /\ SizedAt(Statements, placed, symbols, i)
    BY <1>2, <2>1
  <2> QED
    BY <2>1, <2>2, SameSource DEF LayoutInv
<1>5. CASE LayoutFails \/ DidNotStabilize \/ EmitGap \/ EmitDataFails \/ EmitInstructionFails \/ AllocationTooSmall \/ NotWritable
  <2>1. Fail
    BY <1>5 DEF LayoutFails, DidNotStabilize, EmitGap, EmitDataFails, EmitInstructionFails, AllocationTooSmall, NotWritable
  <2>2. source' = source /\ placed' = placed /\ symbols' = symbols /\ stage' = "failed"
    BY <2>1 DEF Fail, layoutVars
  <2> QED
    BY <2>2, LayoutKept
<1>6. CASE EmitNothing \/ EmitEven \/ EmitData \/ EmitInstruction
  <2>1. stage = "emit" /\ \E size, new, more : Write(size, new, more)
    BY <1>6 DEF EmitNothing, EmitEven, EmitData, EmitInstruction, Emitting
  <2> QED
    BY <2>1, LayoutKept DEF Write, layoutVars
<1>7. CASE Finish \/ WriteFile \/ ReadFile
  BY <1>7, LayoutKept DEF Finish, EmitEnded, WriteFile, ReadFile, layoutVars
<1>8. CASE Ended
  <2>1. source' = source /\ placed' = placed /\ symbols' = symbols /\ stage' = stage /\ stage \in {"read", "failed"}
    BY <1>8 DEF Ended, vars, layoutVars
  <2> QED
    BY <2>1, LayoutKept
<1> QED
  BY <1>1, <1>3, <1>4, <1>5, <1>6, <1>7, <1>8 DEF Next

-----------------------------------------------------------------------------
(* What symbols and expressions are                                        *)

IsSymbols(table) == \E D : table \in [D -> Symbol]
Finding == [ok : BOOLEAN, defined : BOOLEAN, constant : BOOLEAN, value : Int, section : Nat]

LEMMA LookupType ==
  ASSUME NEW table, IsSymbols(table), NEW name
  PROVE  Lookup(table, name) \in Finding
<1>0. 0 .. ValueMod - 1 \subseteq Int
  BY Modulus
<1>1. CASE name \in DOMAIN Equates
  <2>1. Equates[name] \in Int
    BY <1>0, <1>1, SourceAssumption DEF ValueMod
  <2>2. Lookup(table, name) = [ok |-> TRUE, defined |-> TRUE, constant |-> TRUE, value |-> Equates[name], section |-> 0]
    BY <1>1 DEF Lookup
  <2> QED
    BY <2>1, <2>2 DEF Finding
<1>2. CASE name \notin DOMAIN Equates /\ name \in DOMAIN table
  <2> DEFINE y == table[name]
  <2>1. y \in Symbol
    BY <1>2 DEF IsSymbols
  <2>2. y.defined \in BOOLEAN /\ y.absolute \in BOOLEAN /\ y.section \in Nat /\ y.value \in Int
    BY <1>0, <2>1, SectionsAre DEF Symbol
  <2>3. Lookup(table, name) = [ok |-> TRUE, defined |-> y.defined, constant |-> y.absolute, value |-> y.value, section |-> y.section]
    BY <1>2 DEF Lookup
  <2> HIDE DEF y
  <2> QED
    BY <2>2, <2>3 DEF Finding
<1>3. CASE name \notin DOMAIN Equates /\ name \notin DOMAIN table /\ name \in DOMAIN BaseNames
  <2>1. BaseNames[name] \in Nat
    BY <1>3, SourceAssumption, SectionsAre
  <2>2. Lookup(table, name) = [ok |-> TRUE, defined |-> TRUE, constant |-> FALSE, value |-> 0, section |-> BaseNames[name]]
    BY <1>3 DEF Lookup
  <2> QED
    BY <2>1, <2>2 DEF Finding
<1>4. CASE name \notin DOMAIN Equates /\ name \notin DOMAIN table /\ name \notin DOMAIN BaseNames
  <2>1. Lookup(table, name) = [ok |-> FALSE, defined |-> FALSE, constant |-> FALSE, value |-> 0, section |-> 0]
    BY <1>4 DEF Lookup
  <2> QED
    BY <2>1 DEF Finding
<1> QED
  BY <1>1, <1>2, <1>3, <1>4

LEMMA LookupAtType ==
  ASSUME NEW table, IsSymbols(table), NEW name, NEW current \in Int
  PROVE  LookupAt(table, name, current) \in Finding
<1>1. CASE name = "*"
  <2>1. LookupAt(table, name, current) = [ok |-> TRUE, defined |-> TRUE, constant |-> TRUE, value |-> current, section |-> 0]
    BY <1>1 DEF LookupAt
  <2> QED
    BY <2>1 DEF Finding
<1>2. CASE name # "*"
  BY <1>2, LookupType DEF LookupAt
<1> QED
  BY <1>1, <1>2

\* The parts of Evaluate.
TermOf(table, expr, current, t) == LookupAt(table, expr.terms[t].name, current)
RelativeOf(table, expr, current) == {t \in DOMAIN expr.terms : ~TermOf(table, expr, current, t).constant}
MovingOf(table, expr, current) ==
  {t \in RelativeOf(table, expr, current) : RelativeOf(table, expr, current) = {t} /\ expr.terms[t].sign = 1}
Cancels(table, expr, current) ==
  \E t, u \in RelativeOf(table, expr, current) :
    /\ RelativeOf(table, expr, current) = {t, u} /\ t < u /\ expr.terms[t].sign = 1 /\ expr.terms[u].sign = -1
    /\ TermOf(table, expr, current, t).section = TermOf(table, expr, current, u).section
Summands(table, expr, current) ==
  [t \in DOMAIN expr.terms |-> expr.terms[t].sign * TermOf(table, expr, current, t).value]

LEMMA EvaluateIs ==
  ASSUME NEW table, NEW expr, NEW current
  PROVE  LET e == Evaluate(table, expr, current)
         IN  /\ e.ok <=> /\ \A t \in DOMAIN expr.terms : /\ TermOf(table, expr, current, t).ok
                                                         /\ TermOf(table, expr, current, t).defined
                         /\ \/ RelativeOf(table, expr, current) = {}
                            \/ MovingOf(table, expr, current) # {}
                            \/ Cancels(table, expr, current)
             /\ e.value = Wrap(expr.number + Total(Summands(table, expr, current)))
             /\ e.target = IF MovingOf(table, expr, current) = {} THEN 0
                           ELSE TermOf(table, expr, current, CHOOSE t \in MovingOf(table, expr, current) : TRUE).section
  BY DEF Evaluate, TermOf, RelativeOf, MovingOf, Cancels, Summands

LEMMA ExpressionIs ==
  ASSUME NEW expr \in Expression
  PROVE  /\ expr.number \in Int /\ Len(expr.terms) \in Nat /\ DOMAIN expr.terms = 1 .. Len(expr.terms)
         /\ \A t \in 1 .. Len(expr.terms) : expr.terms[t].sign \in {1, -1}
<1>1. expr.number \in Int /\ expr.terms \in Seq([sign : {1, -1}, name : STRING])
  BY DEF Expression
<1>2. Len(expr.terms) \in Nat /\ DOMAIN expr.terms = 1 .. Len(expr.terms)
  BY <1>1
<1>3. ASSUME NEW t \in 1 .. Len(expr.terms) PROVE expr.terms[t].sign \in {1, -1}
  <2> DEFINE q == expr.terms
             T == [sign : {1, -1}, name : STRING]
  <2>1. q \in Seq(T) /\ t \in 1 .. Len(q)
    BY <1>1
  <2> HIDE DEF q, T
  <2>2. q[t] \in T
    BY <2>1
  <2>3. q[t].sign \in {1, -1}
    BY <2>2 DEF T
  <2> QED
    BY <2>3 DEF q
<1> QED
  BY <1>1, <1>2, <1>3

LEMMA SummandsType ==
  ASSUME NEW table, IsSymbols(table), NEW expr \in Expression, NEW current \in Int
  PROVE  /\ Summands(table, expr, current) \in Seq(Int)
         /\ Len(Summands(table, expr, current)) = Len(expr.terms)
         /\ \A t \in 1 .. Len(expr.terms) :
              Summands(table, expr, current)[t] = expr.terms[t].sign * TermOf(table, expr, current, t).value
<1>1. Len(expr.terms) \in Nat /\ DOMAIN expr.terms = 1 .. Len(expr.terms)
  BY ExpressionIs
<1>2. ASSUME NEW t \in 1 .. Len(expr.terms)
      PROVE  expr.terms[t].sign * TermOf(table, expr, current, t).value \in Int
  <2>1. expr.terms[t].sign \in {1, -1}
    BY ExpressionIs
  <2>2. TermOf(table, expr, current, t) \in Finding
    BY LookupAtType DEF TermOf
  <2>3. TermOf(table, expr, current, t).value \in Int
    BY <2>2 DEF Finding
  <2> QED
    BY <2>1, <2>3
<1> DEFINE n == Len(expr.terms)
           q == [t \in 1 .. n |-> expr.terms[t].sign * TermOf(table, expr, current, t).value]
<1>3. q \in [1 .. n -> Int]
  BY <1>2
<1>4. Summands(table, expr, current) = q
  BY <1>1 DEF Summands
<1>5. \A t \in 1 .. n : q[t] = expr.terms[t].sign * TermOf(table, expr, current, t).value
  OBVIOUS
<1> HIDE DEF q
<1>6. q \in Seq(Int) /\ Len(q) = n
  BY <1>1, <1>3, IsSequence
<1> QED
  BY <1>4, <1>5, <1>6

LEMMA EvaluateType ==
  ASSUME NEW table, IsSymbols(table), NEW expr \in Expression, NEW current \in Int
  PROVE  /\ Evaluate(table, expr, current).value \in 0 .. ValueMod - 1
         /\ Evaluate(table, expr, current).target \in Nat
<1> DEFINE q == Summands(table, expr, current)
           m == MovingOf(table, expr, current)
           t == CHOOSE t \in m : TRUE
<1>1. q \in Seq(Int)
  BY SummandsType
<1>2. expr.number \in Int
  BY ExpressionIs
<1>3. expr.number + Total(q) \in Int
  <2> HIDE DEF q
  <2>1. PICK g : Adds(g, q)
    BY <1>1, TotalAdds
  <2>2. Total(q) \in Int
    BY <1>1, <2>1, TotalIs
  <2> QED
    BY <1>2, <2>2
<1>4. Evaluate(table, expr, current).value = Wrap(expr.number + Total(q))
  BY EvaluateIs
<1>5. Evaluate(table, expr, current).value \in 0 .. ValueMod - 1
  <2> DEFINE v == expr.number + Total(q)
  <2>1. v \in Int
    BY <1>3
  <2> HIDE DEF v
  <2>2. Wrap(v) \in 0 .. ValueMod - 1
    BY <2>1, Modulus
  <2> QED
    BY <1>4, <2>2 DEF v
<1>6. Evaluate(table, expr, current).target = IF m = {} THEN 0 ELSE TermOf(table, expr, current, t).section
  BY EvaluateIs
<1>7. TermOf(table, expr, current, t) \in Finding
  BY LookupAtType DEF TermOf
<1>8. TermOf(table, expr, current, t).section \in Nat
  BY <1>7 DEF Finding
<1> QED
  BY <1>5, <1>6, <1>8

\* The parts of Resolved, of an operand with a symbol.
SymbolValue(table, st) == Wrap((IF Lookup(table, st.name).defined THEN Lookup(table, st.name).value ELSE 0) + st.addend)
ValueOf(table, st, logical) ==
  IF st.form \in Relative THEN Wrap(SymbolValue(table, st) - (logical + 2)) ELSE SymbolValue(table, st)
Vanishes(table, st, logical) ==
  /\ st.form = "displacement" /\ Lookup(table, st.name).defined /\ Lookup(table, st.name).constant
  /\ ValueOf(table, st, logical) = 0

LEMMA ResolvedIs ==
  ASSUME NEW table, NEW st, NEW logical, st.form # "plain"
  PROVE  LET r == Resolved(table, st, logical, FALSE)
             y == Lookup(table, st.name)
         IN  /\ r.ok => y.ok /\ y.defined
             /\ r.value = ValueOf(table, st, logical)
             /\ r.target = IF y.defined /\ ~y.constant /\ st.form \notin Relative THEN y.section ELSE 0
             /\ r.code = Encoded(IF Vanishes(table, st, logical) THEN "indirect" ELSE st.form, r.value)
  BY DEF Resolved, SymbolValue, ValueOf, Vanishes

LEMMA PlainIs ==
  ASSUME NEW table, NEW st, NEW logical, st.form = "plain", NEW a
  PROVE  Resolved(table, st, logical, a) = [ok |-> TRUE, value |-> 0, target |-> 0, code |-> Encoded("plain", 0)]
  BY DEF Resolved

LEMMA ValueType ==
  ASSUME NEW table, IsSymbols(table), NEW st, st.addend \in Int, NEW logical \in Int
  PROVE  SymbolValue(table, st) \in 0 .. ValueMod - 1 /\ ValueOf(table, st, logical) \in 0 .. ValueMod - 1
<1>1. Lookup(table, st.name) \in Finding
  BY LookupType
<1> DEFINE v == IF Lookup(table, st.name).defined THEN Lookup(table, st.name).value ELSE 0
           a == v + st.addend
<1>2. a \in Int
  BY <1>1 DEF Finding
<1>3. SymbolValue(table, st) = Wrap(a)
  BY DEF SymbolValue
<1> HIDE DEF a
<1>4. SymbolValue(table, st) \in 0 .. ValueMod - 1 /\ SymbolValue(table, st) \in Int
  BY <1>2, <1>3, Modulus
<1> DEFINE b == SymbolValue(table, st) - (logical + 2)
<1>5. b \in Int
  BY <1>4
<1>6. ValueOf(table, st, logical) = IF st.form \in Relative THEN Wrap(b) ELSE SymbolValue(table, st)
  BY DEF ValueOf
<1> HIDE DEF b
<1>7. Wrap(b) \in 0 .. ValueMod - 1
  BY <1>5, Modulus
<1> QED
  BY <1>4, <1>6, <1>7

LEMMA ResolvedType ==
  ASSUME NEW table, IsSymbols(table), NEW st, st.addend \in Int, st.form \in Forms, NEW logical \in Int
  PROVE  LET r == Resolved(table, st, logical, FALSE)
         IN  /\ r.value \in Int /\ r.target \in Nat
             /\ r.target # 0 => r.code.width # 0
<1>1. CASE st.form = "plain"
  <2> DEFINE r == Resolved(table, st, logical, FALSE)
             c == Encoded("plain", 0)
  <2>1. r = [ok |-> TRUE, value |-> 0, target |-> 0, code |-> c]
    BY <1>1, PlainIs
  <2> HIDE DEF r, c
  <2>2. r.value = 0 /\ r.target = 0
    BY <2>1
  <2>3. r.value \in Int /\ r.target \in Nat /\ (r.target # 0 => r.code.width # 0)
    BY <2>2
  <2> QED
    BY <2>3 DEF r
<1>2. CASE st.form # "plain"
  <2> DEFINE r == Resolved(table, st, logical, FALSE)
             y == Lookup(table, st.name)
             form == IF Vanishes(table, st, logical) THEN "indirect" ELSE st.form
  <2>1. /\ r.value = ValueOf(table, st, logical)
        /\ r.target = IF y.defined /\ ~y.constant /\ st.form \notin Relative THEN y.section ELSE 0
        /\ r.code = Encoded(form, r.value)
    BY <1>2, ResolvedIs
  <2>2. y \in Finding
    BY LookupType
  <2>3. y.section \in Nat
    BY <2>2 DEF Finding
  <2>4. r.value \in Int
    <3>1. ValueOf(table, st, logical) \in 0 .. ValueMod - 1 /\ ValueMod \in Nat \ {0}
      BY ValueType, Modulus
    <3> DEFINE v == ValueOf(table, st, logical)
    <3> HIDE DEF r, v
    <3>2. v \in Int
      BY <3>1 DEF v
    <3> QED
      BY <2>1, <3>2 DEF v
  <2>5. ASSUME r.target # 0 PROVE r.code.width # 0
    <3>1. y.defined /\ ~y.constant
      BY <2>1, <2>5
    <3>2. form = st.form
      BY <3>1 DEF Vanishes
    <3>3. st.form \notin {"plain", "indirect"}
      BY <1>2 DEF Forms
    <3> DEFINE f == st.form
               v == r.value
    <3>4. r.code = Encoded(f, v)
      BY <2>1, <3>2
    <3> HIDE DEF f, v, r
    <3>5. Encoded(f, v).width # 0
      BY <3>3, EncodedIs DEF f
    <3> QED
      BY <3>4, <3>5
  <2>6. r.target \in Nat
    <3>1. r.target = y.section \/ r.target = 0
      BY <2>1
    <3> HIDE DEF r, y
    <3> QED
      BY <2>3, <3>1
  <2> HIDE DEF r
  <2>7. r.value \in Int /\ r.target \in Nat /\ (r.target # 0 => r.code.width # 0)
    BY <2>4, <2>5, <2>6
  <2> QED
    BY <2>7 DEF r
<1> QED
  BY <1>1, <1>2

-----------------------------------------------------------------------------
(* The steps of the emission                                                *)

LEMMA FieldIs ==
  ASSUME TypeInv, NEW f, IsField(Statements, placed, symbols, f)
  PROVE  /\ f.statement \in 1 .. Len(Statements) /\ f.section = Statements[f.statement].section /\ f.section \in Sections
         /\ f.at \in Nat /\ f.width \in {1, 2, 4} /\ f.value \in Nat
         /\ TargetOf(Statements, placed, symbols, f) \in Nat
         /\ placed[f.statement].logical \in Nat
         /\ Statements[f.statement].kind \in {"data", "instruction"}
<1> DEFINE i == f.statement
           st == Statements[i]
           p == placed[i]
<1>1. i \in 1 .. Len(Statements) /\ f.section = st.section
  BY DEF IsField
<1>2. st \in Statement /\ p \in Place
  BY <1>1, SourceIs DEF TypeInv, IsLayout
<1>3. f.section \in Sections
  BY <1>1, <1>2, StatementIs
<1>4. p.offset \in Nat /\ p.logical \in Nat /\ p.logical \in Int
  BY <1>2 DEF Place
<1>5. IsSymbols(symbols)
  BY DEF TypeInv, IsSymbols
<1>6. CASE st.kind = "data"
  <2> DEFINE e == st.items[f.item]
             a == p.logical + (f.item - 1) * st.width
  <2>1. /\ f.item \in 1 .. Len(st.items) /\ f.width = st.width
        /\ f.at = p.offset + (f.item - 1) * st.width
        /\ f.value = ItemOf(Statements, placed, symbols, i, f.item).value % Holds[f.width]
    BY <1>6 DEF IsField
  <2>2. st.width \in {1, 2, 4} /\ st.items \in Seq(Expression)
    BY <1>2, <1>6, StatementIs
  <2>3. Len(st.items) \in Nat /\ e \in Expression
    BY <2>1, <2>2
  <2>4. f.item \in Nat /\ f.item - 1 \in Nat
    BY <2>1, <2>3
  <2>5. (f.item - 1) * st.width \in Nat
    <3> DEFINE x == f.item - 1
               w == st.width
    <3>1. x \in Nat /\ w \in Nat
      BY <2>2, <2>4
    <3> HIDE DEF x, w
    <3>2. x * w \in Nat
      BY <3>1
    <3> QED
      BY <3>2 DEF x, w
  <2>6. a \in Int
    BY <1>4, <2>5
  <2>7. Wrap(a) \in Int
    <3> HIDE DEF a
    <3> QED
      BY <2>6, Modulus
  <2> DEFINE v == ItemOf(Statements, placed, symbols, i, f.item)
  <2>8. v = Evaluate(symbols, e, Wrap(a))
    BY DEF ItemOf
  <2>9. v.value \in 0 .. ValueMod - 1 /\ v.target \in Nat
    <3> HIDE DEF e, a, v
    <3> QED
      BY <1>5, <2>3, <2>7, <2>8, EvaluateType
  <2> HIDE DEF v
  <2>10. v.value \in Int /\ Holds[f.width] \in Nat \ {0}
    <3>1. ValueMod \in Nat \ {0} /\ f.width \in {1, 2, 4}
      BY <2>1, <2>2, Modulus
    <3>2. Holds[f.width] \in Nat \ {0}
      BY <3>1, Modulus
    <3>3. v.value \in Int
      BY <2>9, <3>1
    <3> QED
      BY <3>2, <3>3
  <2>11. v.value % Holds[f.width] \in Nat
    BY <2>10
  <2>12. TargetOf(Statements, placed, symbols, f) = v.target
    BY <1>6 DEF TargetOf, v
  <2>13. f.value \in Nat
    BY <2>1, <2>11 DEF v
  <2>14. f.at \in Nat
    BY <1>4, <2>1, <2>5
  <2> QED
    BY <1>1, <1>3, <1>4, <1>6, <2>1, <2>2, <2>9, <2>12, <2>13, <2>14
<1>7. CASE st.kind # "data"
  <2>1. st.kind = "instruction"
    BY <1>7 DEF IsField
  <2> DEFINE r == OperandOf(Statements, placed, symbols, i)
  <2>2. /\ f.width = r.code.width /\ f.width # 0 /\ f.at = p.offset + r.code.at
        /\ f.value = r.value % Holds[f.width]
    BY <1>7 DEF IsField
  <2>3. st.addend \in Int /\ st.form \in Forms
    BY <1>2, <2>1, StatementIs
  <2>4. r.value \in Int /\ r.target \in Nat
    BY <1>4, <1>5, <2>3, ResolvedType DEF OperandOf
  <2>5. IsCode(r.code)
    BY ResolvedCode DEF OperandOf
  <2>6. TargetOf(Statements, placed, symbols, f) = r.target
    BY <1>7 DEF TargetOf
  <2> HIDE DEF r
  <2>7. r.code.width \in {1, 2, 4} /\ r.code.at \in Nat
    BY <2>2, <2>5 DEF IsCode
  <2>8. Holds[f.width] \in Nat \ {0}
    BY <2>2, <2>7, Modulus
  <2>9. r.value % Holds[f.width] \in Nat
    BY <2>4, <2>8
  <2> QED
    BY <1>1, <1>3, <1>4, <2>1, <2>2, <2>4, <2>6, <2>7, <2>9
<1> QED
  BY <1>6, <1>7

\* What is written for one statement: size bytes where the layout put it.
EmitsSize(size) ==
  /\ stage = "emit" /\ next <= Len(Statements) /\ size \in Nat
  /\ stage' = stage /\ source' = source /\ placed' = placed /\ symbols' = symbols /\ next' = next + 1
  /\ writers' = [writers EXCEPT ![S] = @ + size] /\ emitted' = [emitted EXCEPT ![next] = size]
  /\ Stmt.kind \in Coded => writers[S] = placed[next].offset
  /\ Stmt.kind \notin Coded => size = 0
  /\ OneDefinition(Statements) /\ EvenAgrees(Statements, placed) /\ Stmt.kind \in Coded => size = placed[next].size
  /\ Stmt.kind = "instruction" => size = OperandOf(Statements, placed, symbols, next).code.size

\* Its fields new and its fixups more.
EmitsFields(size, new, more) ==
  /\ fields' = fields \cup new /\ fixups' = fixups \o more
  /\ \A f \in new : /\ IsField(Statements, placed, symbols, f)
                    /\ f.section = S /\ writers[S] <= f.at /\ f.at < writers[S] + size
  /\ \A f, g \in new : f.at = g.at => f = g
  /\ more \in Seq(FixupRecord)
  /\ \A x \in 1 .. Len(more) :
       \E f \in new : /\ more[x] = FixupOf(Statements, placed, symbols, f)
                      /\ more[x].target # 0 /\ Keeps(source.hunkExecutable, f.width)
  /\ \A x, y \in 1 .. Len(more) : more[x].offset = more[y].offset => x = y
  /\ \A f \in new : TargetOf(Statements, placed, symbols, f) # 0 /\ Keeps(source.hunkExecutable, f.width) =>
       \E x \in 1 .. Len(more) : more[x] = FixupOf(Statements, placed, symbols, f)

LEMMA EmitsOne ==
  ASSUME TypeInv, NEW size, EmitsSize(size)
  PROVE  /\ next \in 1 .. Len(Statements) /\ Stmt = Statements[next] /\ S = Statements[next].section /\ S \in Sections
         /\ Statements' = Statements /\ Emitted = next - 1 /\ Emitted' = next
         /\ \A i \in 1 .. next - 1 : i \in 1 .. Len(Statements) /\ i # next /\ emitted'[i] = emitted[i]
         /\ emitted'[next] = size
         /\ \A i \in 1 .. next : i \in 1 .. next - 1 \/ i = next
         /\ writers[S] \in Nat /\ writers'[S] = writers[S] + size
         /\ \A s \in Sections : s # S => writers'[s] = writers[s]
         /\ \A s \in Sections : writers[s] \in Nat /\ writers'[s] \in Nat /\ writers[s] <= writers'[s]
<1>1. /\ next \in 1 .. Len(Statements) /\ Stmt = Statements[next] /\ S = Statements[next].section /\ S \in Sections
      /\ next \in Indices /\ Len(Statements) \in Nat /\ Indices = 1 .. Len(Statements)
  BY AtStatement, SourceIs DEF TypeInv, EmitsSize
<1>2. writers \in [Sections -> Nat] /\ emitted \in [Indices -> Nat] /\ size \in Nat
  BY DEF TypeInv, TypeOK, EmitsSize
<1>3. /\ stage = "emit" /\ stage' = "emit" /\ next' = next + 1 /\ Statements' = Statements
      /\ writers' = [writers EXCEPT ![S] = @ + size] /\ emitted' = [emitted EXCEPT ![next] = size]
  BY SameSource DEF EmitsSize
<1>4. Emitted = next - 1 /\ Emitted' = next
  BY <1>1, <1>3 DEF Emitted
<1>5. ASSUME NEW i \in 1 .. next - 1 PROVE i \in 1 .. Len(Statements) /\ i # next /\ emitted'[i] = emitted[i]
  <2>1. i \in 1 .. Len(Statements) /\ i # next
    BY <1>1
  <2> QED
    BY <1>1, <1>2, <1>3, <2>1
<1>6. emitted'[next] = size
  BY <1>1, <1>2, <1>3
<1>7. ASSUME NEW i \in 1 .. next PROVE i \in 1 .. next - 1 \/ i = next
  BY <1>1
<1>8. writers[S] \in Nat /\ writers'[S] = writers[S] + size
  BY <1>1, <1>2, <1>3
<1>9. \A s \in Sections : s # S => writers'[s] = writers[s]
  BY <1>2, <1>3
<1>10. ASSUME NEW s \in Sections PROVE writers[s] \in Nat /\ writers'[s] \in Nat /\ writers[s] <= writers'[s]
  <2>1. writers[s] \in Nat
    BY <1>2
  <2>2. CASE s = S
    BY <1>2, <1>8, <2>2
  <2>3. CASE s # S
    BY <1>9, <2>1, <2>3
  <2> QED
    BY <2>1, <2>2, <2>3
<1> QED
  BY <1>1, <1>3, <1>4, <1>5, <1>6, <1>7, <1>8, <1>9, <1>10

LEMMA EmissionOne ==
  ASSUME TypeInv, EmissionInv, NEW size, EmitsSize(size)
  PROVE  EmissionInv'
<1>1. /\ next \in 1 .. Len(Statements) /\ Stmt = Statements[next] /\ S = Statements[next].section /\ S \in Sections
      /\ Statements' = Statements /\ Emitted = next - 1 /\ Emitted' = next
  BY EmitsOne
<1>2. /\ \A i \in 1 .. next - 1 : i \in 1 .. Len(Statements) /\ i # next /\ emitted'[i] = emitted[i]
      /\ emitted'[next] = size
      /\ \A i \in 1 .. next : i \in 1 .. next - 1 \/ i = next
  BY EmitsOne
<1>3. /\ writers[S] \in Nat /\ writers'[S] = writers[S] + size
      /\ \A s \in Sections : s # S => writers'[s] = writers[s]
      /\ \A s \in Sections : writers[s] \in Nat /\ writers'[s] \in Nat /\ writers[s] <= writers'[s]
  BY EmitsOne
<1>4. /\ OneDefinition(Statements) /\ EvenAgrees(Statements, placed) =>
           \A i \in 1 .. next - 1 : emitted[i] = IF Statements[i].kind \in Coded THEN placed[i].size ELSE 0
      /\ \A i \in 1 .. next - 1 :
           Statements[i].kind \in Coded => placed[i].offset + emitted[i] <= writers[Statements[i].section]
      /\ \A s \in Sections :
           \/ writers[s] = 0
           \/ \E i \in 1 .. next - 1 : /\ Statements[i].section = s /\ Statements[i].kind \in Coded
                                       /\ writers[s] = placed[i].offset + emitted[i]
  BY <1>1 DEF EmissionInv, EmitsSize
<1>5. placed' = placed /\ stage' = "emit" /\ size \in Nat
  BY DEF EmitsSize
<1>6. ASSUME OneDefinition(Statements), EvenAgrees(Statements, placed), NEW i \in 1 .. next
      PROVE  emitted'[i] = IF Statements[i].kind \in Coded THEN placed[i].size ELSE 0
  <2>1. CASE i \in 1 .. next - 1
    BY <1>2, <1>4, <1>6, <2>1
  <2>2. CASE i = next
    BY <1>1, <1>2, <1>6, <2>2 DEF EmitsSize
  <2> QED
    BY <1>2, <2>1, <2>2
<1>7. ASSUME NEW i \in 1 .. next, Statements[i].kind \in Coded
      PROVE  placed[i].offset + emitted'[i] <= writers'[Statements[i].section]
  <2>1. CASE i \in 1 .. next - 1
    <3> DEFINE s == Statements[i].section
    <3>1. placed[i].offset + emitted[i] <= writers[s] /\ emitted'[i] = emitted[i]
      BY <1>2, <1>4, <1>7, <2>1
    <3>2. s \in Sections /\ placed[i].offset \in Nat /\ emitted[i] \in Nat
      <4>1. i \in 1 .. Len(Statements)
        BY <1>2, <2>1
      <4>2. Statements[i] \in Statement /\ placed[i] \in Place /\ emitted[i] \in Nat
        BY <4>1, SourceIs DEF TypeInv, IsLayout, TypeOK
      <4> QED
        BY <4>2, StatementIs DEF Place
    <3>3. writers[s] \in Nat /\ writers'[s] \in Nat /\ writers[s] <= writers'[s]
      BY <1>3, <3>2
    <3> HIDE DEF s
    <3>4. placed[i].offset + emitted[i] <= writers'[s]
      BY <3>1, <3>2, <3>3
    <3> QED
      BY <3>1, <3>4 DEF s
  <2>2. CASE i = next
    <3>1. placed[i].offset = writers[S] /\ emitted'[i] = size
      BY <1>1, <1>2, <1>7, <2>2 DEF EmitsSize
    <3> QED
      BY <1>1, <1>3, <1>5, <2>2, <3>1
  <2> QED
    BY <1>2, <2>1, <2>2
<1>8. ASSUME NEW s \in Sections
      PROVE  \/ writers'[s] = 0
             \/ \E i \in 1 .. next : /\ Statements[i].section = s /\ Statements[i].kind \in Coded
                                     /\ writers'[s] = placed[i].offset + emitted'[i]
  <2>1. CASE s = S /\ Stmt.kind \in Coded
    <3>1. placed[next].offset = writers[S] /\ emitted'[next] = size /\ next \in 1 .. next
      BY <1>1, <1>2, <2>1 DEF EmitsSize
    <3> QED
      BY <1>1, <1>3, <2>1, <3>1
  <2>2. CASE ~(s = S /\ Stmt.kind \in Coded)
    <3>1. writers'[s] = writers[s]
      <4>1. CASE s = S
        <5>1. size = 0
          BY <2>2, <4>1 DEF EmitsSize
        <5> QED
          BY <1>3, <4>1, <5>1
      <4>2. CASE s # S
        BY <1>3, <4>2
      <4> QED
        BY <4>1, <4>2
    <3>2. CASE writers[s] = 0
      BY <3>1, <3>2
    <3>3. CASE writers[s] # 0
      <4>1. PICK i \in 1 .. next - 1 : /\ Statements[i].section = s /\ Statements[i].kind \in Coded
                                       /\ writers[s] = placed[i].offset + emitted[i]
        BY <1>4, <3>3
      <4>2. i \in 1 .. next /\ emitted'[i] = emitted[i]
        BY <1>1, <1>2
      <4> QED
        BY <3>1, <4>1, <4>2
    <3> QED
      BY <3>2, <3>3
  <2> QED
    BY <2>1, <2>2
<1> QED
  BY <1>1, <1>5, <1>6, <1>7, <1>8 DEF EmissionInv

LEMMA FieldsOne ==
  ASSUME TypeInv, NEW size, EmitsSize(size), NEW new, NEW more, EmitsFields(size, new, more),
         FieldsTo(source.hunkExecutable, Statements, placed, symbols, fields, fixups, writers)
  PROVE  FieldsTo(source.hunkExecutable, Statements, placed, symbols, fields', fixups', writers')
<1>1. /\ S \in Sections /\ writers[S] \in Nat /\ writers'[S] = writers[S] + size
      /\ \A s \in Sections : writers[s] \in Nat /\ writers'[s] \in Nat /\ writers[s] <= writers'[s]
  BY EmitsOne
<1>2. size \in Nat
  BY DEF EmitsSize
<1>3. fields' = fields \cup new /\ fixups' = fixups \o more
  BY DEF EmitsFields
<1>4. ASSUME NEW f \in fields
      PROVE  /\ IsField(Statements, placed, symbols, f) /\ f.section \in Sections /\ f.at \in Nat
             /\ f.at < writers[f.section] /\ f.at < writers'[f.section]
  <2>1. IsField(Statements, placed, symbols, f) /\ f.at < writers[f.section]
    BY DEF FieldsTo
  <2>2. f.section \in Sections /\ f.at \in Nat
    BY <2>1, FieldIs
  <2>3. writers[f.section] \in Nat /\ writers'[f.section] \in Nat /\ writers[f.section] <= writers'[f.section]
    BY <1>1, <2>2
  <2> QED
    BY <2>1, <2>2, <2>3
<1>5. ASSUME NEW f \in new
      PROVE  /\ IsField(Statements, placed, symbols, f) /\ f.section = S /\ f.at \in Nat
             /\ writers[S] <= f.at /\ f.at < writers'[f.section]
  <2>1. IsField(Statements, placed, symbols, f) /\ f.section = S /\ writers[S] <= f.at /\ f.at < writers[S] + size
    BY DEF EmitsFields
  <2>2. f.at \in Nat
    BY <2>1, FieldIs
  <2> QED
    BY <1>1, <2>1, <2>2
<1>6. \A f \in fields' : IsField(Statements, placed, symbols, f) /\ f.at < writers'[f.section]
  BY <1>3, <1>4, <1>5
<1>7. ASSUME NEW f \in fields', NEW g \in fields', f.section = g.section, f.at = g.at PROVE f = g
  <2>1. CASE f \in fields /\ g \in fields
    BY <1>7, <2>1 DEF FieldsTo
  <2>2. CASE f \in new /\ g \in new
    BY <1>7, <2>2 DEF EmitsFields
  <2>3. ASSUME NEW p \in fields, NEW q \in new PROVE ~(p.section = q.section /\ p.at = q.at)
    <3>1. p.at \in Nat /\ p.at < writers[p.section]
      BY <1>4
    <3>2. q.section = S /\ q.at \in Nat /\ writers[S] <= q.at
      BY <1>5
    <3> QED
      BY <1>1, <3>1, <3>2
  <2> QED
    BY <1>3, <1>7, <2>1, <2>2, <2>3
<1>8. fixups \in Seq(FixupRecord) /\ more \in Seq(FixupRecord)
  BY DEF FieldsTo, EmitsFields
<1>9. /\ fixups' \in Seq(FixupRecord) /\ Len(fixups) \in Nat /\ Len(more) \in Nat
      /\ Len(fixups') = Len(fixups) + Len(more)
      /\ \A i \in 1 .. Len(fixups) : fixups'[i] = fixups[i]
      /\ \A i \in 1 .. Len(more) : fixups'[Len(fixups) + i] = more[i]
  <2> DEFINE a == fixups
  <2>1. a \in Seq(FixupRecord)
    BY <1>8
  <2> HIDE DEF a
  <2>2. /\ a \o more \in Seq(FixupRecord) /\ Len(a) \in Nat /\ Len(more) \in Nat
        /\ Len(a \o more) = Len(a) + Len(more)
    BY <1>8, <2>1, Concat
  <2>3. \A i \in 1 .. Len(a) : (a \o more)[i] = a[i]
    BY <1>8, <2>1, Concat
  <2>4. \A i \in 1 .. Len(more) : (a \o more)[Len(a) + i] = more[i]
    BY <1>8, <2>1, Concat
  <2> QED
    BY <1>3, <2>2, <2>3, <2>4 DEF a
<1>10. ASSUME NEW x \in 1 .. Len(fixups')
       PROVE  \/ x \in 1 .. Len(fixups) /\ fixups'[x] = fixups[x]
              \/ x - Len(fixups) \in 1 .. Len(more) /\ fixups'[x] = more[x - Len(fixups)]
  <2>1. CASE x <= Len(fixups)
    BY <1>9, <2>1
  <2>2. CASE x > Len(fixups)
    <3> DEFINE j == x - Len(fixups)
    <3>1. j \in 1 .. Len(more) /\ Len(fixups) + j = x
      BY <1>9, <2>2
    <3>2. fixups'[Len(fixups) + j] = more[j]
      <4> HIDE DEF j
      <4> QED
        BY <1>9, <3>1
    <3> QED
      BY <3>1, <3>2
  <2> QED
    BY <1>9, <2>1, <2>2
<1>11. ASSUME NEW x \in 1 .. Len(fixups)
       PROVE  \E f \in fields : /\ fixups[x] = FixupOf(Statements, placed, symbols, f)
                                /\ fixups[x].target # 0 /\ Keeps(source.hunkExecutable, f.width)
                                /\ fixups[x].section = f.section /\ fixups[x].offset = f.at
  <2>1. PICK f \in fields : /\ fixups[x] = FixupOf(Statements, placed, symbols, f)
                      /\ fixups[x].target # 0 /\ Keeps(source.hunkExecutable, f.width)
    BY DEF FieldsTo
  <2>2. fixups[x].section = f.section /\ fixups[x].offset = f.at
    BY <2>1 DEF FixupOf
  <2> QED
    BY <2>1, <2>2
<1>12. ASSUME NEW x \in 1 .. Len(more)
       PROVE  \E f \in new : /\ more[x] = FixupOf(Statements, placed, symbols, f)
                             /\ more[x].target # 0 /\ Keeps(source.hunkExecutable, f.width)
                             /\ more[x].section = f.section /\ more[x].offset = f.at
  <2>1. PICK f \in new : /\ more[x] = FixupOf(Statements, placed, symbols, f)
                      /\ more[x].target # 0 /\ Keeps(source.hunkExecutable, f.width)
    BY DEF EmitsFields
  <2>2. more[x].section = f.section /\ more[x].offset = f.at
    BY <2>1 DEF FixupOf
  <2> QED
    BY <2>1, <2>2
<1>13. ASSUME NEW x \in 1 .. Len(fixups')
       PROVE  \E f \in fields' : /\ fixups'[x] = FixupOf(Statements, placed, symbols, f)
                                 /\ fixups'[x].target # 0 /\ Keeps(source.hunkExecutable, f.width)
  <2>1. CASE x \in 1 .. Len(fixups) /\ fixups'[x] = fixups[x]
    BY <1>3, <1>11, <2>1
  <2>2. CASE x - Len(fixups) \in 1 .. Len(more) /\ fixups'[x] = more[x - Len(fixups)]
    BY <1>3, <1>12, <2>2
  <2> QED
    BY <1>10, <2>1, <2>2
<1>14. ASSUME NEW x \in 1 .. Len(fixups'), NEW y \in 1 .. Len(fixups'),
              fixups'[x].section = fixups'[y].section, fixups'[x].offset = fixups'[y].offset
       PROVE  x = y
  <2>1. CASE x \in 1 .. Len(fixups) /\ fixups'[x] = fixups[x] /\ y \in 1 .. Len(fixups) /\ fixups'[y] = fixups[y]
    BY <1>14, <2>1 DEF FieldsTo
  <2>2. CASE /\ x - Len(fixups) \in 1 .. Len(more) /\ fixups'[x] = more[x - Len(fixups)]
             /\ y - Len(fixups) \in 1 .. Len(more) /\ fixups'[y] = more[y - Len(fixups)]
    <3>1. x - Len(fixups) = y - Len(fixups)
      BY <1>14, <2>2 DEF EmitsFields
    <3>2. x \in Int /\ y \in Int /\ Len(fixups) \in Int
      BY <1>9
    <3> QED
      BY <3>1, <3>2
  <2>3. ASSUME NEW i \in 1 .. Len(fixups), NEW j \in 1 .. Len(more)
        PROVE  ~(fixups[i].section = more[j].section /\ fixups[i].offset = more[j].offset)
    <3>1. PICK f \in fields : fixups[i].section = f.section /\ fixups[i].offset = f.at
      BY <1>11
    <3>2. PICK g \in new : more[j].section = g.section /\ more[j].offset = g.at
      BY <1>12
    <3>3. f.at \in Nat /\ f.at < writers[f.section]
      BY <1>4
    <3>4. g.section = S /\ g.at \in Nat /\ writers[S] <= g.at
      BY <1>5
    <3> QED
      BY <1>1, <3>1, <3>2, <3>3, <3>4
  <2>4. CASE x \in 1 .. Len(fixups) /\ fixups'[x] = fixups[x]
    BY <1>10, <1>14, <2>1, <2>3, <2>4
  <2>5. CASE x - Len(fixups) \in 1 .. Len(more) /\ fixups'[x] = more[x - Len(fixups)]
    BY <1>10, <1>14, <2>2, <2>3, <2>5
  <2> QED
    BY <1>10, <2>4, <2>5
<1>15. ASSUME NEW f \in fields', TargetOf(Statements, placed, symbols, f) # 0, Keeps(source.hunkExecutable, f.width)
       PROVE  \E x \in 1 .. Len(fixups') : fixups'[x] = FixupOf(Statements, placed, symbols, f)
  <2>1. CASE f \in fields
    <3>1. PICK x \in 1 .. Len(fixups) : fixups[x] = FixupOf(Statements, placed, symbols, f)
      BY <1>15, <2>1 DEF FieldsTo
    <3>2. x \in 1 .. Len(fixups') /\ fixups'[x] = fixups[x]
      BY <1>9
    <3> QED
      BY <3>1, <3>2
  <2>2. CASE f \in new
    <3>1. PICK x \in 1 .. Len(more) : more[x] = FixupOf(Statements, placed, symbols, f)
      BY <1>15, <2>2 DEF EmitsFields
    <3>2. Len(fixups) + x \in 1 .. Len(fixups') /\ fixups'[Len(fixups) + x] = more[x]
      BY <1>9
    <3> QED
      BY <3>1, <3>2
  <2> QED
    BY <1>3, <1>15, <2>1, <2>2
<1> QED
  BY <1>6, <1>7, <1>9, <1>13, <1>14, <1>15 DEF FieldsTo

\* What Kept keeps.
OnlyKept(r, q) ==
  \A x \in 1 .. Len(r) : \E i \in 1 .. Len(q) : r[x] = q[i] /\ q[i].target # 0 /\ Keeps(source.hunkExecutable, q[i].width)
AllKept(r, q) ==
  \A i \in 1 .. Len(q) : q[i].target # 0 /\ Keeps(source.hunkExecutable, q[i].width) => \E x \in 1 .. Len(r) : r[x] = q[i]

LEMMA KeptIs ==
  ASSUME NEW V, NEW q \in Seq(V)
  PROVE  /\ Kept(q) \in Seq(V) /\ Len(Kept(q)) \in Nat
         /\ OnlyKept(Kept(q), q) /\ AllKept(Kept(q), q)
         /\ (\A i, j \in 1 .. Len(q) : q[i].offset = q[j].offset => i = j) =>
              \A x, y \in 1 .. Len(Kept(q)) : Kept(q)[x].offset = Kept(q)[y].offset => x = y
<1> DEFINE set == {i \in DOMAIN q : q[i].target # 0 /\ Keeps(source.hunkExecutable, q[i].width)}
           r == Kept(q)
<1>1. r = Filtered(q, set)
  BY DEF Kept, KeepsFixup, Keeps
<1>2. DOMAIN q = 1 .. Len(q) /\ Len(q) \in Nat
  OBVIOUS
<1>3. \A i \in 1 .. Len(q) : i \in set <=> q[i].target # 0 /\ Keeps(source.hunkExecutable, q[i].width)
  BY <1>2
<1> HIDE DEF set, r
<1>4. r \in Seq(V)
  BY <1>1, FilteredInOrder
<1>5. PICK p : Enumerates(p, Len(r), set, Len(q)) /\ \A x \in 1 .. Len(r) : r[x] = q[p[x]]
  BY <1>1, FilteredInOrder
<1>6. /\ p \in [1 .. Len(r) -> 1 .. Len(q)]
      /\ \A x, y \in 1 .. Len(r) : x < y => p[x] < p[y]
      /\ {p[x] : x \in 1 .. Len(r)} = set \cap (1 .. Len(q))
  BY <1>5 DEF Enumerates
<1>7. Len(r) \in Nat
  BY <1>4
<1>8. ASSUME NEW x \in 1 .. Len(r)
      PROVE  \E i \in 1 .. Len(q) : r[x] = q[i] /\ q[i].target # 0 /\ Keeps(source.hunkExecutable, q[i].width)
  <2>1. p[x] \in 1 .. Len(q) /\ p[x] \in set
    BY <1>6
  <2> QED
    BY <1>3, <1>5, <2>1
<1>9. ASSUME NEW i \in 1 .. Len(q), q[i].target # 0, Keeps(source.hunkExecutable, q[i].width)
      PROVE  \E x \in 1 .. Len(r) : r[x] = q[i]
  <2>1. i \in {p[x] : x \in 1 .. Len(r)}
    BY <1>3, <1>6, <1>9
  <2>2. PICK x \in 1 .. Len(r) : p[x] = i
    BY <2>1
  <2> QED
    BY <1>5, <2>2
<1>10. ASSUME \A i, j \in 1 .. Len(q) : q[i].offset = q[j].offset => i = j,
              NEW x \in 1 .. Len(r), NEW y \in 1 .. Len(r), r[x].offset = r[y].offset
       PROVE  x = y
  <2>1. p[x] \in 1 .. Len(q) /\ p[y] \in 1 .. Len(q) /\ r[x] = q[p[x]] /\ r[y] = q[p[y]]
    BY <1>5, <1>6
  <2>2. p[x] = p[y]
    BY <1>10, <2>1
  <2>3. ~(x < y) /\ ~(y < x)
    BY <1>2, <1>6, <2>1, <2>2
  <2> QED
    BY <1>7, <2>3
<1> QED
  BY <1>4, <1>7, <1>8, <1>9, <1>10 DEF r, OnlyKept, AllKept

\* An action of the emission with the size, the fields and the fixups.
Emits(size, new, more) == EmitsSize(size) /\ EmitsFields(size, new, more)

LEMMA WriteIs ==
  ASSUME NEW size, NEW new, NEW more, Write(size, new, more)
  PROVE  /\ writers' = [writers EXCEPT ![S] = @ + size] /\ emitted' = [emitted EXCEPT ![next] = size]
         /\ fields' = fields \cup new /\ fixups' = fixups \o more /\ next' = next + 1
         /\ source' = source /\ stage' = stage /\ placed' = placed /\ symbols' = symbols
  BY DEF Write, layoutVars

\* Without fields.
LEMMA EmitsNothing ==
  ASSUME NEW size, EmitsSize(size), Write(size, {}, <<>>)
  PROVE  Emits(size, {}, <<>>)
<1>1. <<>> \in Seq(FixupRecord) /\ 1 .. Len(<<>>) = {}
  OBVIOUS
<1>2. fields' = fields \cup {} /\ fixups' = fixups \o <<>>
  BY WriteIs
<1>3. EmitsFields(size, {}, <<>>)
  BY <1>1, <1>2 DEF EmitsFields
<1> QED
  BY <1>3 DEF Emits

LEMMA EmitNothingEmits ==
  ASSUME TypeInv, EmitNothing
  PROVE  \E size, new, more : Emits(size, new, more)
<1>1. /\ stage = "emit" /\ next <= Len(Statements) /\ Stmt.kind \in {"label", "org", "reserve"}
      /\ Write(0, {}, <<>>)
  BY DEF EmitNothing, Emitting
<1>2. Stmt.kind \notin Coded /\ Stmt.kind # "instruction" /\ 0 \in Nat
  BY <1>1 DEF Coded
<1>3. EmitsSize(0)
  BY <1>1, <1>2, WriteIs DEF EmitsSize
<1> QED
  BY <1>1, <1>3, EmitsNothing

\* The statement that is written is where it belongs.
LEMMA WrittenAt ==
  ASSUME TypeInv, LayoutInv, stage = "emit", next <= Len(Statements), OneDefinition(Statements)
  PROVE  /\ Stmt.kind # "instruction" => placed[next].size = FixedSize(Stmt, placed[next].logical)
         /\ Stmt.kind = "instruction" => placed[next].size = OperandOf(Statements, placed, symbols, next).code.size
<1>1. next \in Indices /\ Stmt = Statements[next]
  BY AtStatement DEF TypeInv
<1>2. PlacedAt(Statements, placed, next) /\ SizedAt(Statements, placed, symbols, next)
  BY <1>1 DEF LayoutInv
<1> QED
  BY <1>1, <1>2 DEF PlacedAt, SizedAt

LEMMA EmitEvenEmits ==
  ASSUME TypeInv, LayoutInv, EmitEven
  PROVE  \E size, new, more : Emits(size, new, more)
<1>1. /\ stage = "emit" /\ next <= Len(Statements) /\ Stmt.kind = "even"
      /\ writers[S] = placed[next].offset /\ Write(writers[S] % 2, {}, <<>>)
  BY DEF EmitEven, Emitting, InPlace
<1> DEFINE size == writers[S] % 2
<1>2. next \in 1 .. Len(Statements) /\ Stmt = Statements[next] /\ S \in Sections
  BY <1>1, AtStatement DEF TypeInv
<1>3. writers[S] \in Nat
  BY <1>2 DEF TypeInv, TypeOK
<1>4. size \in Nat
  BY <1>3
<1>5. ASSUME OneDefinition(Statements), EvenAgrees(Statements, placed) PROVE size = placed[next].size
  <2>1. placed[next].size = FixedSize(Stmt, placed[next].logical)
    BY <1>1, <1>5, WrittenAt
  <2>2. FixedSize(Stmt, placed[next].logical) = placed[next].logical % 2
    BY <1>1 DEF FixedSize
  <2>3. placed[next].logical % 2 = placed[next].offset % 2
    BY <1>1, <1>2, <1>5 DEF EvenAgrees
  <2> QED
    BY <1>1, <2>1, <2>2, <2>3
<1> HIDE DEF size
<1>6. Write(size, {}, <<>>)
  BY <1>1 DEF size
<1>7. Stmt.kind \in Coded /\ Stmt.kind # "instruction"
  BY <1>1 DEF Coded
<1>8. EmitsSize(size)
  BY <1>1, <1>4, <1>5, <1>6, <1>7, WriteIs DEF EmitsSize
<1> QED
  BY <1>6, <1>8, EmitsNothing

LEMMA EmitInstructionEmits ==
  ASSUME TypeInv, LayoutInv, EmitInstruction
  PROVE  \E size, new, more : Emits(size, new, more)
<1> DEFINE r == OperandOf(Statements, placed, symbols, next)
           at == placed[next].offset + r.code.at
           f == Field(1, at, r.code.width, r.value)
           x == Fixup(at, r.code.width, r.target)
           new == IF r.code.width = 0 THEN {} ELSE {f}
           more == Kept(<<x>>)
<1>1. /\ stage = "emit" /\ next <= Len(Statements) /\ Stmt.kind = "instruction" /\ writers[S] = placed[next].offset
  BY DEF EmitInstruction, Emitting, InPlace
<1>2. /\ next \in 1 .. Len(Statements) /\ Stmt = Statements[next] /\ S = Statements[next].section
      /\ S \in Sections /\ Stmt \in Statement
  BY <1>1, AtStatement DEF TypeInv
<1>3. EmitResolved = r
  BY <1>2 DEF EmitResolved, OperandOf
<1>4. Write(r.code.size, new, more) /\ r.ok
  BY <1>3 DEF EmitInstruction, InstructionOk
<1>5. IsCode(r.code)
  BY ResolvedCode DEF OperandOf
<1>6. /\ r.code.size \in Nat /\ r.code.at \in Nat /\ r.code.at < r.code.size /\ r.code.width \in {0, 1, 2, 4}
  BY <1>5 DEF IsCode
<1>7. placed[next] \in Place /\ writers[S] \in Nat
  BY <1>2, SourceIs DEF TypeInv, TypeOK, IsLayout
<1>8. placed[next].offset \in Nat /\ placed[next].logical \in Int
  BY <1>7 DEF Place
<1>9. r.value \in Int /\ r.target \in Nat /\ (r.target # 0 => r.code.width # 0)
  <2>1. Stmt.addend \in Int /\ Stmt.form \in Forms
    BY <1>1, <1>2, StatementIs
  <2>2. IsSymbols(symbols)
    BY DEF TypeInv, IsSymbols
  <2> QED
    BY <1>2, <1>8, <2>1, <2>2, ResolvedType DEF OperandOf
<1>10. EmitsSize(r.code.size)
  <2>1. OneDefinition(Statements) => r.code.size = placed[next].size
    BY <1>1, WrittenAt
  <2> HIDE DEF r, new, more
  <2>2. Stmt.kind \in Coded
    BY <1>1 DEF Coded
  <2> QED
    BY <1>1, <1>4, <1>6, <2>1, <2>2, WriteIs DEF EmitsSize, r
<1> HIDE DEF r
<1>11. at \in Nat /\ writers[S] <= at /\ at < writers[S] + r.code.size
  <2> DEFINE p == placed[next].offset
             d == r.code.at
             z == r.code.size
             w == writers[S]
  <2>1. p \in Nat /\ d \in Nat /\ z \in Nat /\ d < z /\ w = p /\ at = p + d
    BY <1>1, <1>6, <1>8
  <2> HIDE DEF p, d, z, w, at
  <2>2. at \in Nat /\ w <= at /\ at < w + z
    BY <2>1
  <2> QED
    BY <2>2 DEF w, z
<1> HIDE DEF at
<1>12. CASE r.code.width = 0
  <2>1. x \in {x} /\ <<x>> \in Seq({x}) /\ Len(<<x>>) = 1 /\ <<x>>[1] = x
    OBVIOUS
  <2>2. x.target = 0
    BY <1>9, <1>12 DEF Fixup
  <2> HIDE DEF x
  <2> DEFINE q == <<x>>
  <2> HIDE DEF q
  <2>3. \A i \in 1 .. Len(q) : q[i].target = 0
    BY <2>1, <2>2 DEF q
  <2>4. more \in Seq({x}) /\ Len(more) \in Nat /\ OnlyKept(more, q)
    BY <2>1, KeptIs DEF q
  <2>5. more = <<>>
    <3> HIDE DEF more
    <3>1. Len(more) = 0
      BY <2>3, <2>4 DEF OnlyKept
    <3> QED
      BY <2>4, <3>1
  <2>6. new = {}
    BY <1>12
  <2>7. Write(r.code.size, {}, <<>>)
    BY <1>4, <2>5, <2>6
  <2> QED
    BY <1>10, <2>7, EmitsNothing
<1>13. CASE r.code.width # 0
  <2>0. r.code.width \in {1, 2, 4}
    BY <1>6, <1>13
  <2>1. x \in FixupRecord /\ x.offset = at /\ x.width = r.code.width /\ x.target = r.target
    BY <1>2, <1>9, <1>11, <2>0, SectionsAre DEF Fixup, FixupRecord
  <2>2. /\ f.section = S /\ f.statement = next /\ f.at = at /\ f.width = r.code.width
        /\ f.value = r.value % Holds[r.code.width]
    BY DEF Field
  <2>3. TargetOf(Statements, placed, symbols, f) = r.target /\ FixupOf(Statements, placed, symbols, f) = x
    <3> HIDE DEF f
    <3>1. TargetOf(Statements, placed, symbols, f) = r.target
      BY <1>1, <1>2, <2>2 DEF TargetOf, r
    <3> QED
      BY <2>2, <3>1 DEF FixupOf, Fixup
  <2>4. IsField(Statements, placed, symbols, f)
    <3> HIDE DEF f
    <3>1. r = OperandOf(Statements, placed, symbols, f.statement) /\ f.statement \in 1 .. Len(Statements)
      BY <1>2, <2>2 DEF r
    <3>2. Statements[f.statement].kind = "instruction" /\ f.section = Statements[f.statement].section
      BY <1>1, <1>2, <2>2
    <3> QED
      BY <1>4, <1>13, <2>2, <3>1, <3>2 DEF IsField, at
  <2> HIDE DEF f, x
  <2>5. new = {f}
    BY <1>13
  <2> DEFINE q == <<x>>
  <2>6. q \in Seq(FixupRecord) /\ Len(q) = 1 /\ q[1] = x
    BY <2>1
  <2> HIDE DEF q
  <2>7. more = Kept(q)
    BY DEF q
  <2> HIDE DEF new, more
  <2>8. /\ more \in Seq(FixupRecord)
        /\ \A y \in 1 .. Len(more) : \E i \in 1 .. Len(q) : more[y] = q[i] /\ q[i].target # 0 /\ Keeps(source.hunkExecutable, q[i].width)
        /\ \A i \in 1 .. Len(q) : q[i].target # 0 /\ Keeps(source.hunkExecutable, q[i].width) => \E y \in 1 .. Len(more) : more[y] = q[i]
    <3>1. Kept(q) \in Seq(FixupRecord) /\ OnlyKept(Kept(q), q) /\ AllKept(Kept(q), q)
      BY <2>6, KeptIs
    <3> QED
      BY <2>7, <3>1 DEF OnlyKept, AllKept
  <2>9. \A y, z \in 1 .. Len(more) : more[y].offset = more[z].offset => y = z
    <3>1. \A i, j \in 1 .. Len(q) : q[i].offset = q[j].offset => i = j
      BY <2>6
    <3> QED
      BY <2>6, <2>7, <3>1, KeptIs
  <2>10. \A i \in 1 .. Len(q) : q[i] = x
    BY <2>6
  <2>11. fields' = fields \cup new /\ fixups' = fixups \o more
    <3> USE DEF new, more
    <3> QED
      BY <1>4, WriteIs
  <2>12. EmitsFields(r.code.size, new, more)
    BY <1>11, <2>1, <2>2, <2>3, <2>4, <2>5, <2>6, <2>8, <2>9, <2>10, <2>11 DEF EmitsFields
  <2> QED
    BY <1>10, <2>12 DEF Emits
<1> QED
  BY <1>12, <1>13

\* Items of one width at different places.
LEMMA ItemPlaces ==
  ASSUME NEW w \in {1, 2, 4}, NEW n \in Nat, NEW k \in 1 .. n, NEW b \in Nat
  PROVE  /\ b + (k - 1) * w \in Nat /\ b <= b + (k - 1) * w /\ b + (k - 1) * w < b + w * n
         /\ w * n \in Nat
         /\ \A l \in 1 .. n : b + (k - 1) * w = b + (l - 1) * w => k = l
<1>1. CASE w = 1
  BY <1>1
<1>2. CASE w = 2
  BY <1>2
<1>3. CASE w = 4
  BY <1>3
<1> QED
  BY <1>1, <1>2, <1>3

LEMMA EmitDataEmits ==
  ASSUME TypeInv, LayoutInv, EmitData
  PROVE  \E size, new, more : Emits(size, new, more)
<1> DEFINE w == Stmt.width
           n == Len(Stmt.items)
           b == writers[S]
           F(k) == Field(k, ItemAt(k), w, Item(k).value)
           X(k) == Fixup(ItemAt(k), w, Item(k).target)
           new == {F(k) : k \in DOMAIN Stmt.items}
           q == [k \in DOMAIN Stmt.items |-> X(k)]
           more == Kept(q)
           size == w * n
<1>1. /\ stage = "emit" /\ next <= Len(Statements) /\ Stmt.kind = "data" /\ b = placed[next].offset
      /\ ItemsOk /\ Write(size, new, more)
  BY DEF EmitData, Emitting, InPlace
<1>2. /\ next \in 1 .. Len(Statements) /\ Stmt = Statements[next] /\ S = Statements[next].section
      /\ S \in Sections /\ Stmt \in Statement
  BY <1>1, AtStatement DEF TypeInv
<1>3. w \in {1, 2, 4} /\ Stmt.items \in Seq(Expression)
  BY <1>1, <1>2, StatementIs
<1>4. n \in Nat /\ DOMAIN Stmt.items = 1 .. n /\ \A k \in 1 .. n : Stmt.items[k] \in Expression
  BY <1>3
<1>5. placed[next] \in Place /\ b \in Nat
  BY <1>2, SourceIs DEF TypeInv, TypeOK, IsLayout
<1>6. placed[next].offset \in Nat /\ placed[next].logical \in Nat
  BY <1>5 DEF Place
<1>7. IsSymbols(symbols)
  BY DEF TypeInv, IsSymbols
<1> HIDE DEF n, w, b
<1>8. size \in Nat
  BY <1>3, <1>4
<1>9. ASSUME NEW k \in 1 .. n
      PROVE  /\ ItemAt(k) = b + (k - 1) * w /\ ItemAt(k) \in Nat /\ b <= ItemAt(k) /\ ItemAt(k) < b + size
             /\ \A l \in 1 .. n : ItemAt(k) = ItemAt(l) => k = l
  <2>1. \A l \in 1 .. n : ItemAt(l) = b + (l - 1) * w
    BY DEF ItemAt, b, w
  <2>2. /\ b + (k - 1) * w \in Nat /\ b <= b + (k - 1) * w /\ b + (k - 1) * w < b + w * n
        /\ \A l \in 1 .. n : b + (k - 1) * w = b + (l - 1) * w => k = l
    BY <1>3, <1>4, <1>5, ItemPlaces
  <2> QED
    BY <2>1, <2>2
<1> HIDE DEF size
<1>10. ASSUME NEW k \in 1 .. n
       PROVE  /\ Item(k) = ItemOf(Statements, placed, symbols, next, k) /\ Item(k).ok /\ Item(k).target \in Nat
  <2>1. Item(k) = ItemOf(Statements, placed, symbols, next, k)
    BY <1>2 DEF Item, ItemOf
  <2>2. Item(k).ok
    BY <1>1, <1>4 DEF ItemsOk
  <2> DEFINE a == placed[next].logical + (k - 1) * w
             e == Stmt.items[k]
  <2>3. a \in Int
    <3>1. (k - 1) * w \in Int
      BY <1>3, <1>4
    <3> QED
      BY <1>6, <3>1
  <2>4. e \in Expression
    BY <1>4
  <2>5. Item(k) = Evaluate(symbols, e, Wrap(a))
    BY DEF Item, w
  <2> HIDE DEF a, e
  <2>6. Wrap(a) \in Int
    BY <2>3, Modulus
  <2>7. Item(k).target \in Nat
    BY <1>7, <2>4, <2>5, <2>6, EvaluateType
  <2> QED
    BY <2>1, <2>2, <2>7
<1>11. ASSUME NEW k \in 1 .. n
       PROVE  /\ F(k).section = S /\ F(k).statement = next /\ F(k).item = k /\ F(k).at = ItemAt(k) /\ F(k).width = w
              /\ F(k).value = Item(k).value % Holds[w]
  BY DEF Field
<1>12. ASSUME NEW k \in 1 .. n
       PROVE  X(k).offset = ItemAt(k) /\ X(k).width = w /\ X(k).target = Item(k).target /\ X(k) \in FixupRecord
  BY <1>2, <1>3, <1>9, <1>10, SectionsAre DEF Fixup, FixupRecord
<1>13. ASSUME NEW k \in 1 .. n
       PROVE  /\ TargetOf(Statements, placed, symbols, F(k)) = Item(k).target
              /\ FixupOf(Statements, placed, symbols, F(k)) = X(k)
              /\ IsField(Statements, placed, symbols, F(k))
  <2> DEFINE f == F(k)
  <2>1. /\ f.section = S /\ f.statement = next /\ f.item = k /\ f.at = ItemAt(k) /\ f.width = w
        /\ f.value = Item(k).value % Holds[w]
    BY <1>11
  <2> HIDE DEF f
  <2>2. TargetOf(Statements, placed, symbols, f) = Item(k).target
    BY <1>1, <1>2, <1>10, <2>1 DEF TargetOf
  <2>3. FixupOf(Statements, placed, symbols, f) = X(k)
    BY <2>1, <2>2 DEF FixupOf, Fixup
  <2>4. IsField(Statements, placed, symbols, f)
    <3>1. f.statement \in 1 .. Len(Statements) /\ f.section = Statements[f.statement].section
      BY <1>2, <2>1
    <3>2. Statements[f.statement].kind = "data" /\ f.width = Statements[f.statement].width
      BY <1>1, <1>2, <2>1 DEF w
    <3>3. f.item \in 1 .. Len(Statements[f.statement].items)
      BY <1>2, <2>1 DEF n
    <3>4. f.at = placed[f.statement].offset + (f.item - 1) * Statements[f.statement].width
      BY <1>1, <1>2, <1>9, <2>1 DEF w
    <3>5. /\ ItemOf(Statements, placed, symbols, f.statement, f.item) = Item(k) /\ Item(k).ok
      BY <1>10, <2>1
    <3> QED
      BY <2>1, <3>1, <3>2, <3>3, <3>4, <3>5 DEF IsField
  <2> QED
    BY <2>2, <2>3, <2>4 DEF f
<1>14. EmitsSize(size)
  <2>1. OneDefinition(Statements) => size = placed[next].size
    <3>1. FixedSize(Stmt, placed[next].logical) = size
      BY <1>1 DEF FixedSize, size, w, n
    <3> QED
      BY <1>1, <3>1, WrittenAt
  <2> HIDE DEF new, more
  <2>2. Stmt.kind \in Coded /\ Stmt.kind # "instruction"
    BY <1>1 DEF Coded
  <2> QED
    BY <1>1, <1>8, <2>1, <2>2, WriteIs DEF EmitsSize, b
<1>15. q \in [1 .. n -> FixupRecord] /\ \A k \in 1 .. n : q[k] = X(k)
  BY <1>4, <1>12
<1>16. new = {F(k) : k \in 1 .. n}
  BY <1>4
<1> HIDE DEF F, X
<1>17. \A f \in new : \E k \in 1 .. n : f = F(k)
  BY <1>16
<1>18. \A k \in 1 .. n : F(k) \in new
  BY <1>16
<1> HIDE DEF q, new
<1>19. q \in Seq(FixupRecord) /\ Len(q) = n
  BY <1>4, <1>15, IsSequence
<1>20. more \in Seq(FixupRecord)
  BY <1>19, KeptIs
<1>21. ASSUME NEW y \in 1 .. Len(more)
       PROVE  \E f \in new : /\ more[y] = FixupOf(Statements, placed, symbols, f)
                             /\ more[y].target # 0 /\ Keeps(source.hunkExecutable, f.width)
  <2>1. PICK k \in 1 .. Len(q) : more[y] = q[k] /\ q[k].target # 0 /\ Keeps(source.hunkExecutable, q[k].width)
    <3>1. OnlyKept(Kept(q), q)
      BY <1>19, KeptIs
    <3> QED
      BY <3>1 DEF OnlyKept
  <2>2. k \in 1 .. n /\ q[k] = X(k) /\ q[k].width = w /\ F(k).width = w /\ F(k) \in new
    BY <1>11, <1>12, <1>15, <1>18, <1>19
  <2>3. FixupOf(Statements, placed, symbols, F(k)) = X(k)
    BY <1>13, <2>2
  <2> QED
    BY <2>1, <2>2, <2>3
<1>22. ASSUME NEW f \in new, TargetOf(Statements, placed, symbols, f) # 0, Keeps(source.hunkExecutable, f.width)
       PROVE  \E y \in 1 .. Len(more) : more[y] = FixupOf(Statements, placed, symbols, f)
  <2>1. PICK k \in 1 .. n : f = F(k)
    BY <1>17
  <2>2. k \in 1 .. Len(q) /\ q[k] = X(k) /\ q[k].width = w /\ q[k].target = Item(k).target /\ f.width = w
    BY <1>11, <1>12, <1>15, <1>19, <2>1
  <2>3. TargetOf(Statements, placed, symbols, f) = Item(k).target /\ FixupOf(Statements, placed, symbols, f) = X(k)
    BY <1>13, <2>1
  <2>4. q[k].target # 0 /\ Keeps(source.hunkExecutable, q[k].width)
    BY <1>22, <2>2, <2>3
  <2>5. \E y \in 1 .. Len(more) : more[y] = q[k]
    <3>1. AllKept(Kept(q), q)
      BY <1>19, KeptIs
    <3> QED
      BY <2>2, <2>4, <3>1 DEF AllKept
  <2> QED
    BY <2>2, <2>3, <2>5
<1>23. \A y, z \in 1 .. Len(more) : more[y].offset = more[z].offset => y = z
  <2>1. ASSUME NEW i \in 1 .. Len(q), NEW j \in 1 .. Len(q), q[i].offset = q[j].offset PROVE i = j
    <3>1. i \in 1 .. n /\ j \in 1 .. n /\ ItemAt(i) = ItemAt(j)
      BY <1>12, <1>15, <1>19, <2>1
    <3> QED
      BY <1>9, <3>1
  <2> QED
    BY <1>19, <2>1, KeptIs
<1>24. ASSUME NEW f \in new
       PROVE  /\ IsField(Statements, placed, symbols, f)
              /\ f.section = S /\ writers[S] <= f.at /\ f.at < writers[S] + size
  <2>1. PICK k \in 1 .. n : f = F(k)
    BY <1>17
  <2>2. f.section = S /\ f.at = ItemAt(k) /\ b <= ItemAt(k) /\ ItemAt(k) < b + size
    BY <1>9, <1>11, <2>1
  <2> QED
    BY <1>13, <2>1, <2>2 DEF b
<1>25. ASSUME NEW f \in new, NEW g \in new, f.at = g.at PROVE f = g
  <2>1. PICK k \in 1 .. n : f = F(k)
    BY <1>17
  <2>2. PICK l \in 1 .. n : g = F(l)
    BY <1>17
  <2>3. ItemAt(k) = ItemAt(l)
    BY <1>11, <1>25, <2>1, <2>2
  <2> QED
    BY <1>9, <2>1, <2>2, <2>3
<1>26. fields' = fields \cup new /\ fixups' = fixups \o more
  BY <1>1, WriteIs
<1> HIDE DEF more
<1>27. EmitsFields(size, new, more)
  BY <1>20, <1>21, <1>22, <1>23, <1>24, <1>25, <1>26 DEF EmitsFields
<1> QED
  BY <1>14, <1>27 DEF Emits

-----------------------------------------------------------------------------
(* The inductive invariant                                                  *)

EmitStages == {"emit", "done", "written", "read"}
IInv == TypeInv /\ LayoutInv /\ EmissionInv /\ FieldInv /\ ObjectInv

LEMMA EmitsStep ==
  ASSUME IInv, NEW size, NEW new, NEW more, Emits(size, new, more)
  PROVE  EmissionInv' /\ FieldInv'
<1>1. EmitsSize(size) /\ EmitsFields(size, new, more) /\ stage = "emit" /\ stage' = "emit"
  BY DEF Emits, EmitsSize
<1>2. EmissionInv'
  BY <1>1, EmissionOne DEF IInv
<1>3. FieldsTo(source.hunkExecutable, Statements, placed, symbols, fields, fixups, writers)
  BY <1>1 DEF IInv, FieldInv
<1>4. FieldsTo(source.hunkExecutable, Statements, placed, symbols, fields', fixups', writers')
  BY <1>1, <1>3, FieldsOne DEF IInv
<1>5. /\ next \in 1 .. Len(Statements) /\ Stmt = Statements[next]
      /\ Statements' = Statements /\ Emitted = next - 1 /\ Emitted' = next
      /\ \A i \in 1 .. next - 1 : i \in 1 .. Len(Statements) /\ i # next /\ emitted'[i] = emitted[i]
      /\ emitted'[next] = size
      /\ \A i \in 1 .. next : i \in 1 .. next - 1 \/ i = next
  BY <1>1, EmitsOne DEF IInv
<1>6. \A i \in 1 .. next - 1 :
        Statements[i].kind = "instruction" => emitted[i] = OperandOf(Statements, placed, symbols, i).code.size
  BY <1>1, <1>5 DEF IInv, FieldInv
<1>7. Stmt.kind = "instruction" => size = OperandOf(Statements, placed, symbols, next).code.size
  BY <1>1 DEF EmitsSize
<1>8. ASSUME NEW i \in 1 .. next, Statements[i].kind = "instruction"
      PROVE  emitted'[i] = OperandOf(Statements, placed, symbols, i).code.size
  BY <1>5, <1>6, <1>7, <1>8
<1>9. placed' = placed /\ symbols' = symbols /\ source' = source
  BY <1>1 DEF EmitsSize
<1>10. FieldInv'
  BY <1>1, <1>4, <1>5, <1>8, <1>9 DEF FieldInv
<1> QED
  BY <1>2, <1>10

LEMMA EmissionKept ==
  ASSUME EmissionInv, FieldInv, stage \in EmitStages, Emitted' = Emitted, source' = source, placed' = placed,
         symbols' = symbols, writers' = writers, emitted' = emitted, fields' = fields, fixups' = fixups
  PROVE  EmissionInv' /\ FieldInv'
<1>1. Statements' = Statements
  BY SameSource
<1>2. EmissionInv'
  BY <1>1 DEF EmissionInv, EmitStages
<1>3. FieldInv'
  BY <1>1 DEF FieldInv, EmitStages
<1> QED
  BY <1>2, <1>3

LEMMA EmissionStep ==
  ASSUME IInv, Next
  PROVE  EmissionInv' /\ FieldInv'
<1>0. /\ next \in 1 .. Len(Statements) + 1 /\ Len(Statements) \in Nat /\ TypeInv /\ LayoutInv /\ EmissionInv /\ FieldInv
      /\ ObjectInv
  BY SourceIs DEF IInv, TypeInv, TypeOK
<1>1. ASSUME stage' \notin EmitStages PROVE EmissionInv' /\ FieldInv'
  BY <1>1 DEF EmissionInv, FieldInv, EmitStages
<1>2. CASE LayoutLabel \/ LayoutOrg \/ LayoutEven \/ LayoutData \/ LayoutReserve \/ LayoutInstruction \/ NextPass
  <2>1. stage' = stage /\ stage = "layout"
    BY <1>2 DEF LayoutLabel, LayoutOrg, LayoutEven, LayoutData, LayoutReserve, LayoutInstruction, NextPass, EndOfPass,
                Laying, Advance
  <2> QED
    BY <1>1, <2>1 DEF EmitStages
<1>3. CASE LayoutFails \/ DidNotStabilize \/ EmitGap \/ EmitDataFails \/ EmitInstructionFails \/ AllocationTooSmall \/ NotWritable
  <2>1. Fail
    BY <1>3 DEF LayoutFails, DidNotStabilize, EmitGap, EmitDataFails, EmitInstructionFails, AllocationTooSmall, NotWritable
  <2>2. stage' = "failed"
    BY <2>1 DEF Fail
  <2> QED
    BY <1>1, <2>2 DEF EmitStages
<1>4. CASE LayoutDone
  <2>1. /\ stage = "layout" /\ stage' = "emit" /\ next' = 1 /\ source' = source
        /\ writers' = writers /\ fields' = fields /\ fixups' = fixups
    BY <1>4 DEF LayoutDone, EndOfPass, objectVars
  <2>2. writers' = Zeros /\ fields' = {} /\ fixups' = <<>>
    BY <1>0, <2>1 DEF ObjectInv
  <2>3. 1 .. Emitted' = {}
    BY <2>1 DEF Emitted
  <2>4. EmissionInv'
    BY <2>2, <2>3 DEF EmissionInv, Zeros
  <2>5. <<>> \in Seq(FixupRecord) /\ 1 .. Len(<<>>) = {}
    OBVIOUS
  <2>6. FieldsTo(source.hunkExecutable, Statements', placed', symbols', {}, <<>>, Zeros)
    BY <2>5 DEF FieldsTo
  <2>7. FieldInv'
    BY <2>1, <2>2, <2>3, <2>6 DEF FieldInv
  <2> QED
    BY <2>4, <2>7
<1>5. CASE EmitNothing
  BY <1>0, <1>5, EmitNothingEmits, EmitsStep
<1>6. CASE EmitEven
  BY <1>0, <1>6, EmitEvenEmits, EmitsStep
<1>7. CASE EmitData
  BY <1>0, <1>7, EmitDataEmits, EmitsStep
<1>8. CASE EmitInstruction
  BY <1>0, <1>8, EmitInstructionEmits, EmitsStep
<1>9. CASE Finish
  <2>1. /\ stage = "emit" /\ next > Len(Statements) /\ stage' = "done" /\ source' = source /\ placed' = placed
        /\ symbols' = symbols /\ writers' = writers /\ emitted' = emitted /\ fields' = fields /\ fixups' = fixups
    BY <1>9 DEF Finish, EmitEnded, layoutVars
  <2>2. next - 1 = Len(Statements)
    BY <1>0, <2>1
  <2>3. Emitted' = Emitted
    BY <2>1, <2>2, SameSource DEF Emitted
  <2>4. stage \in EmitStages
    BY <2>1 DEF EmitStages
  <2> QED
    BY <1>0, <2>1, <2>3, <2>4, EmissionKept
<1>10. CASE WriteFile \/ ReadFile
  <2>1. /\ stage \in {"done", "written"} /\ stage' \in {"written", "read"} /\ source' = source /\ placed' = placed
        /\ symbols' = symbols /\ writers' = writers /\ emitted' = emitted /\ fields' = fields /\ fixups' = fixups
    BY <1>10 DEF WriteFile, ReadFile, layoutVars
  <2>2. Emitted' = Emitted /\ stage \in EmitStages
    BY <2>1, SameSource DEF Emitted, EmitStages
  <2> QED
    BY <1>0, <2>1, <2>2, EmissionKept
<1>11. CASE Ended
  <2>1. /\ stage \in {"read", "failed"} /\ stage' = stage /\ source' = source /\ placed' = placed
        /\ symbols' = symbols /\ writers' = writers /\ emitted' = emitted /\ fields' = fields /\ fixups' = fixups
    BY <1>11 DEF Ended, vars, layoutVars, objectVars
  <2>2. CASE stage = "failed"
    BY <1>1, <2>1, <2>2 DEF EmitStages
  <2>3. CASE stage = "read"
    <3>1. Emitted' = Emitted /\ stage \in EmitStages
      BY <2>1, <2>3, SameSource DEF Emitted, EmitStages
    <3> QED
      BY <1>0, <2>1, <3>1, EmissionKept
  <2> QED
    BY <2>1, <2>2, <2>3
<1> QED
  BY <1>2, <1>3, <1>4, <1>5, <1>6, <1>7, <1>8, <1>9, <1>10, <1>11 DEF Next

LEMMA ObjectStep ==
  ASSUME TypeInv, ObjectInv, Next
  PROVE  ObjectInv'
<1>1. CASE LayoutLabel \/ LayoutOrg \/ LayoutEven \/ LayoutData \/ LayoutReserve \/ LayoutInstruction \/ NextPass
  <2>1. stage' = stage /\ stage = "layout" /\ fixups' = fixups /\ fields' = fields /\ writers' = writers
    BY <1>1 DEF LayoutLabel, LayoutOrg, LayoutEven, LayoutData, LayoutReserve, LayoutInstruction, NextPass, EndOfPass,
                Laying, Advance, objectVars
  <2> QED
    BY <2>1 DEF ObjectInv
<1>2. CASE LayoutFails \/ DidNotStabilize \/ EmitGap \/ EmitDataFails \/ EmitInstructionFails \/ AllocationTooSmall \/ NotWritable
  <2>1. Fail
    BY <1>2 DEF LayoutFails, DidNotStabilize, EmitGap, EmitDataFails, EmitInstructionFails, AllocationTooSmall, NotWritable
  <2>2. stage' = "failed"
    BY <2>1 DEF Fail
  <2> QED
    BY <2>2 DEF ObjectInv
<1>3. CASE LayoutDone \/ EmitNothing \/ EmitEven \/ EmitData \/ EmitInstruction
  <2>1. stage' = "emit"
    BY <1>3 DEF LayoutDone, EmitNothing, EmitEven, EmitData, EmitInstruction, Emitting, Write
  <2> QED
    BY <2>1 DEF ObjectInv
<1>4. CASE Finish
  <2>1. stage' = "done" /\ writers' = writers
    BY <1>4 DEF Finish
  <2>2. \A s \in Sections : writers[s] <= sizes'[s]
    BY <1>4, TypeFinish
  <2> QED
    BY <2>1, <2>2 DEF ObjectInv
<1>5. ASSUME WriteFile \/ ReadFile \/ Ended
      PROVE  Object' = Object /\ writers' = writers /\ sizes' = sizes
  <2>1. source' = source /\ sizes' = sizes /\ writers' = writers /\ fixups' = fixups
    BY <1>5 DEF WriteFile, ReadFile, Ended, vars, objectVars
  <2> QED
    BY <2>1 DEF Object
<1>6. CASE WriteFile
  <2>1. stage = "done" /\ stage' = "written" /\ Writable(Object) /\ file' = <<Written(Object)>>
    BY <1>6 DEF WriteFile
  <2> QED
    BY <1>5, <1>6, <2>1 DEF ObjectInv
<1>7. CASE ReadFile
  <2>1. stage = "written" /\ stage' = "read" /\ file' = file /\ loaded' = <<Parsed(file[1])>>
    BY <1>7 DEF ReadFile
  <2> QED
    BY <1>5, <1>7, <2>1 DEF ObjectInv
<1>8. CASE Ended
  <2>1. stage' = stage /\ stage \in {"read", "failed"} /\ file' = file /\ loaded' = loaded
    BY <1>8 DEF Ended, vars, objectVars, fileVars
  <2> QED
    BY <1>5, <1>8, <2>1 DEF ObjectInv
<1> QED
  BY <1>1, <1>2, <1>3, <1>4, <1>6, <1>7, <1>8 DEF Next

LEMMA Inductive == Spec => []IInv
<1>1. Init => IInv
  <2> SUFFICES ASSUME Init PROVE IInv
    OBVIOUS
  <2>1. stage = "layout" /\ fixups = <<>> /\ fields = {} /\ writers = Zeros
    BY DEF Init
  <2>2. EmissionInv /\ FieldInv /\ ObjectInv
    BY <2>1 DEF EmissionInv, FieldInv, ObjectInv
  <2> QED
    BY <2>2, TypeInit, LayoutInit DEF IInv
<1>2. IInv /\ [Next]_vars => IInv'
  <2> SUFFICES ASSUME IInv, [Next]_vars PROVE IInv'
    OBVIOUS
  <2>1. CASE Next
    <3>1. TypeInv'
      BY <2>1, TypeStep DEF IInv
    <3>2. LayoutInv'
      BY <2>1, <3>1, LayoutStep DEF IInv
    <3>3. EmissionInv' /\ FieldInv'
      BY <2>1, EmissionStep
    <3>4. ObjectInv'
      BY <2>1, ObjectStep DEF IInv
    <3> QED
      BY <3>1, <3>2, <3>3, <3>4 DEF IInv
  <2>2. CASE UNCHANGED vars
    <3>1. /\ source' = source /\ stage' = stage /\ pass' = pass /\ next' = next /\ changed' = changed
          /\ offsets' = offsets /\ logicals' = logicals /\ placed' = placed /\ symbols' = symbols
          /\ writers' = writers /\ emitted' = emitted /\ sizes' = sizes /\ fields' = fields /\ fixups' = fixups
          /\ file' = file /\ loaded' = loaded
      BY <2>2 DEF vars, layoutVars, objectVars, fileVars
    <3>2. Statements' = Statements /\ Indices' = Indices /\ Emitted' = Emitted /\ Object' = Object
      BY <3>1, SameSource DEF Emitted, Object
    <3>3. TypeInv'
      BY <3>1, TypeOther DEF IInv, TypeInv, TypeOK
    <3>4. LayoutInv'
      BY <3>1, <3>2 DEF IInv, LayoutInv
    <3>5. EmissionInv'
      BY <3>1, <3>2 DEF IInv, EmissionInv
    <3>6. FieldInv'
      BY <3>1, <3>2 DEF IInv, FieldInv
    <3>7. ObjectInv'
      BY <3>1, <3>2 DEF IInv, ObjectInv
    <3> QED
      BY <3>3, <3>4, <3>5, <3>6, <3>7 DEF IInv
  <2> QED
    BY <2>1, <2>2
<1> QED
  BY <1>1, <1>2, PTL DEF Spec

-----------------------------------------------------------------------------
(* Where everything came to lie                                             *)

Ready == stage \in {"done", "written", "read"} /\ WellFormed

LEMMA OneDefinitionOf ==
  ASSUME TypeInv, WellFormed, NEW i \in Indices, NEW j \in Indices,
         Statements[i].kind = "label", Statements[j].kind = "label", Statements[i].name = Statements[j].name
  PROVE  i = j
<1> DEFINE n == Statements[i].name
           D == Definitions(n)
<1>1. i \in D /\ j \in D
  BY DEF Definitions
<1>2. n \in LabelNames(Statements)
  BY DEF LabelNames, Indices
<1>3. Cardinality(D) = 1
  BY <1>2 DEF WellFormed
<1>4. IsFiniteSet(D)
  <2>1. Indices = 1 .. Len(Statements) /\ Len(Statements) \in Int /\ 1 \in Int
    BY SourceIs DEF TypeInv
  <2>2. IsFiniteSet(Indices)
    BY <2>1, FS_Interval
  <2>3. D \subseteq Indices
    BY DEF Definitions
  <2> HIDE DEF D
  <2> QED
    BY <2>2, <2>3, FS_Subset
<1> HIDE DEF D
<1>5. PICK x : D = {x}
  BY <1>3, <1>4, FS_Singleton
<1> QED
  BY <1>1, <1>5

LEMMA ReadyIs ==
  ASSUME IInv, Ready
  PROVE  /\ OneDefinition(Statements) /\ EvenAgrees(Statements, placed)
         /\ Indices = 1 .. Len(Statements) /\ Len(Statements) \in Nat
         /\ \A i \in Indices : /\ PlacedAt(Statements, placed, i) /\ LabelledAt(Statements, placed, symbols, i)
                               /\ SizedAt(Statements, placed, symbols, i)
                               /\ emitted[i] = IF Statements[i].kind \in Coded THEN placed[i].size ELSE 0
<1>1. TypeInv /\ WellFormed /\ stage \in {"done", "written", "read"}
  BY DEF IInv, Ready
<1>2. Indices = 1 .. Len(Statements) /\ Len(Statements) \in Nat
  BY <1>1, SourceIs DEF TypeInv
<1>3. OneDefinition(Statements)
  BY <1>1, <1>2, OneDefinitionOf DEF OneDefinition
<1>4. EvenAgrees(Statements, placed)
  BY <1>1, <1>2 DEF WellFormed, EvenAgrees
<1>5. Emitted = Len(Statements)
  BY <1>1 DEF Emitted
<1>6. \A i \in Indices : emitted[i] = IF Statements[i].kind \in Coded THEN placed[i].size ELSE 0
  BY <1>1, <1>2, <1>3, <1>4, <1>5 DEF IInv, EmissionInv
<1>7. \A i \in Indices : /\ PlacedAt(Statements, placed, i) /\ LabelledAt(Statements, placed, symbols, i)
                         /\ SizedAt(Statements, placed, symbols, i)
  BY <1>1, <1>3 DEF IInv, LayoutInv
<1> QED
  BY <1>2, <1>3, <1>4, <1>6, <1>7

LEMMA ExtentIs ==
  ASSUME IInv, Ready, NEW i \in Indices
  PROVE  Extent(i) = placed[i].size
<1> DEFINE st == Statements[i]
<1>1. PlacedAt(Statements, placed, i) /\ emitted[i] = IF st.kind \in Coded THEN placed[i].size ELSE 0
  BY ReadyIs
<1>2. st \in Statement
  BY SourceIs DEF IInv, TypeInv
<1>3. st.kind \in {"label", "org", "even", "reserve", "data", "instruction"}
  BY <1>2, StatementIs
<1>4. CASE st.kind \in Coded
  BY <1>1, <1>4 DEF Extent, Coded
<1>5. CASE st.kind = "reserve"
  <2>1. placed[i].size = FixedSize(st, placed[i].logical)
    BY <1>1, <1>5 DEF PlacedAt
  <2>2. FixedSize(st, placed[i].logical) = st.size
    BY <1>5 DEF FixedSize
  <2> QED
    BY <1>5, <2>1, <2>2 DEF Extent
<1>6. CASE st.kind \in {"label", "org"}
  <2>1. placed[i].size = FixedSize(st, placed[i].logical)
    BY <1>1, <1>6 DEF PlacedAt
  <2>2. FixedSize(st, placed[i].logical) = 0
    BY <1>6 DEF FixedSize
  <2> QED
    BY <1>1, <1>6, <2>1, <2>2 DEF Extent, Coded
<1> QED
  BY <1>3, <1>4, <1>5, <1>6 DEF Coded

LEMMA PhysicalIs ==
  ASSUME IInv, Ready, NEW i \in Indices
  PROVE  /\ Physical(i) = EndOf(Statements, placed, Statements[i].section, i)
         /\ Physical(i) \in Nat /\ Physical(i) \in 0 .. ValueMod - 1
<1> DEFINE s == Statements[i].section
           e == EndOf(Statements, placed, s, i)
<1>1. Indices = 1 .. Len(Statements) /\ Len(Statements) \in Nat /\ IsLayout(Statements, placed)
  BY SourceIs DEF IInv, TypeInv
<1>2. ASSUME NEW j \in 1 .. i - 1
      PROVE  (IF Alike(i, j) THEN Extent(j) ELSE 0) = SizeIn(Statements, placed, s, j)
  <2>1. j \in Indices
    BY <1>1
  <2>2. Extent(j) = placed[j].size
    BY <2>1, ExtentIs
  <2> QED
    BY <2>2 DEF Alike, SizeIn
<1>3. [j \in 1 .. i - 1 |-> IF Alike(i, j) THEN Extent(j) ELSE 0] = [j \in 1 .. i - 1 |-> SizeIn(Statements, placed, s, j)]
  BY <1>2
<1>4. Physical(i) = e
  BY <1>3 DEF Physical, EndOf
<1>5. i \in 1 .. Len(Statements) + 1
  BY <1>1
<1>6. e \in Nat
  BY <1>1, <1>5, EndType
<1>7. Extent(i) \in Nat
  <2>1. placed[i] \in Place
    BY <1>1 DEF IsLayout
  <2>2. placed[i].size \in Nat
    BY <2>1 DEF Place
  <2> QED
    BY <2>2, ExtentIs
<1>8. Physical(i) + Extent(i) < ValueMod
  BY DEF Ready, WellFormed
<1>9. Physical(i) \in Nat
  BY <1>4, <1>6
<1>10. Physical(i) \in 0 .. ValueMod - 1
  BY <1>7, <1>8, <1>9, Modulus
<1> QED
  BY <1>4, <1>9, <1>10

LEMMA LogicalIs ==
  ASSUME IInv, Ready, NEW i \in Indices
  PROVE  /\ placed[i].offset = Physical(i)
         /\ Statements[i].kind # "org" => placed[i].logical = Logical(i)
<1> DEFINE s == Statements[i].section
           o == Max(OrgsOf(Statements, s, i))
<1>1. Indices = 1 .. Len(Statements) /\ Len(Statements) \in Nat
  BY SourceIs DEF IInv, TypeInv
<1>2. Physical(i) = EndOf(Statements, placed, s, i) /\ Wrap(Physical(i)) = Physical(i)
  BY PhysicalIs, Modulus
<1>3. PlacedAt(Statements, placed, i)
  BY ReadyIs
<1>4. placed[i].offset = Physical(i)
  BY <1>2, <1>3 DEF PlacedAt
<1>5. Orgs(i) = OrgsOf(Statements, s, i)
  BY DEF Orgs, OrgsOf, Alike
<1>6. LogicalOf(Statements, placed, s, i) = Logical(i)
  <2>1. CASE Orgs(i) = {}
    BY <1>2, <1>5, <2>1 DEF LogicalOf, Logical
  <2>2. CASE Orgs(i) # {}
    <3>1. i \in 1 .. Len(Statements) + 1 /\ OrgsOf(Statements, s, i) # {}
      BY <1>1, <1>5, <2>2
    <3>2. o \in 1 .. Len(Statements) /\ Statements[o].section = s
      BY <1>1, <3>1, LastOrg
    <3>3. o \in Indices
      BY <1>1, <3>2
    <3>4. Max(Orgs(i)) = o
      BY <1>5
    <3> HIDE DEF o
    <3>5. Physical(o) = EndOf(Statements, placed, s, o)
      BY <3>2, <3>3, PhysicalIs
    <3>6. Logical(i) = Wrap(Statements[o].value + Physical(i) - Physical(o))
      BY <2>2, <3>4 DEF Logical
    <3>7. LogicalOf(Statements, placed, s, i)
          = Wrap(Statements[o].value + EndOf(Statements, placed, s, i) - EndOf(Statements, placed, s, o))
      BY <3>1 DEF LogicalOf, o
    <3> QED
      BY <1>2, <3>5, <3>6, <3>7
  <2> QED
    BY <2>1, <2>2
<1>7. Statements[i].kind # "org" => placed[i].logical = Logical(i)
  BY <1>3, <1>6 DEF PlacedAt
<1> QED
  BY <1>4, <1>7

LEMMA DataSizeIs ==
  ASSUME IInv, Ready, NEW s \in Sections
  PROVE  IrDataSize(s) = writers[s]
<1> DEFINE T == EndsOfData(s) \cup {0}
<1>1. /\ Indices = 1 .. Len(Statements) /\ Indices = DOMAIN Statements /\ Emitted = Len(Statements)
      /\ placed \in [Indices -> Place] /\ writers[s] \in Nat
  BY SourceIs DEF IInv, TypeInv, TypeOK, Ready, Emitted, Indices
<1>2. stage \in {"emit", "done", "written", "read"} /\ EmissionInv
  BY DEF Ready, IInv
<1>3. ASSUME NEW i \in Indices, Statements[i].section = s, Statements[i].kind \in Coded
      PROVE  /\ placed[i].offset + placed[i].size \in Nat /\ placed[i].offset + placed[i].size <= writers[s]
             /\ placed[i].size = emitted[i]
  <2>1. emitted[i] = placed[i].size
    BY <1>3, ReadyIs
  <2>2. placed[i].offset + emitted[i] <= writers[s]
    BY <1>1, <1>2, <1>3 DEF EmissionInv
  <2>3. placed[i] \in Place
    BY <1>1
  <2>4. placed[i].offset \in Nat /\ placed[i].size \in Nat
    BY <2>3 DEF Place
  <2> QED
    BY <2>1, <2>2, <2>4
<1>4. EndsOfData(s) = {placed[i].offset + placed[i].size :
                         i \in {i \in Indices : Statements[i].section = s /\ Statements[i].kind \in Coded}}
  BY <1>1 DEF EndsOfData, Coded
<1>5. ASSUME NEW x \in T PROVE x \in 0 .. writers[s]
  <2>1. CASE x = 0
    BY <1>1, <2>1
  <2>2. CASE x \in EndsOfData(s)
    <3>1. PICK i \in Indices : /\ Statements[i].section = s /\ Statements[i].kind \in Coded
                               /\ x = placed[i].offset + placed[i].size
      BY <1>4, <2>2
    <3> QED
      BY <1>1, <1>3, <3>1
  <2> QED
    BY <2>1, <2>2
<1>6. writers[s] \in T
  <2>1. CASE writers[s] = 0
    BY <2>1
  <2>2. CASE writers[s] # 0
    <3>1. PICK i \in Indices : /\ Statements[i].section = s /\ Statements[i].kind \in Coded
                               /\ writers[s] = placed[i].offset + emitted[i]
      BY <1>1, <1>2, <2>2 DEF EmissionInv
    <3>2. writers[s] = placed[i].offset + placed[i].size
      BY <1>3, <3>1
    <3> QED
      BY <1>4, <3>1, <3>2
  <2> QED
    BY <2>1, <2>2
<1>7. IrDataSize(s) = Max(T)
  BY DEF IrDataSize
<1> HIDE DEF T
<1>8. T \in SUBSET (0 .. writers[s]) /\ T # {}
  BY <1>5, <1>6
<1>9. Max(T) \in T /\ \A y \in T : y <= Max(T)
  BY <1>1, <1>8, MaxOf
<1>10. Max(T) \in 0 .. writers[s] /\ writers[s] <= Max(T)
  BY <1>5, <1>6, <1>9
<1> QED
  BY <1>1, <1>7, <1>10

LEMMA LaidOutIs ==
  ASSUME IInv, Ready
  PROVE  LaidOut
<1>1. \A i \in Indices : placed[i].size = Extent(i)
  BY ExtentIs
<1>2. \A i \in Indices : Statements[i].kind # "org" => placed[i].offset = Physical(i) /\ placed[i].logical = Logical(i)
  BY LogicalIs
<1>3. \A s \in Sections : IrDataSize(s) = writers[s]
  BY DataSizeIs
<1> QED
  BY <1>1, <1>2, <1>3 DEF LaidOut

\* The object has every statement where the last pass of the layout put it and
\* with the size it had there, and the sizes of the data are those of the source
\* IR, whatever the source, the equates and the widths of the fields are
\* (m68k_source_file_layout, m68k_source_file_emit_object).
THEOREM EmissionKeepsLayout == Spec => []EmittedAsLaidOut
<1>1. IInv => EmittedAsLaidOut
  BY LaidOutIs DEF EmittedAsLaidOut, Ready
<1> QED
  BY <1>1, Inductive, PTL

-----------------------------------------------------------------------------
(* The file                                                                 *)

\* What the emission has made is an object of which nothing was read.
LEMMA ObjectIsNew ==
  ASSUME IInv, stage \in {"done", "written", "read"}
  PROVE  NewObject(Object, Cardinality(Sections))
<1> DEFINE n == Cardinality(Sections)
           parts == [s \in Sections |-> [size |-> sizes[s], data |-> writers[s], bss |-> s \in source.bss]]
           o == Object
<1>1. n \in Nat /\ Sections = 1 .. n
  BY SourceAssumption, FS_CardinalityType
<1>2. o = [executable |-> source.hunkExecutable, sections |-> parts, fixups |-> fixups]
  BY DEF Object
<1> HIDE DEF o
<1>3. o.executable = source.hunkExecutable /\ o.sections = parts /\ o.fixups = fixups
  <2> HIDE DEF parts
  <2> QED
    BY <1>2
<1>4. TypeInv /\ FieldsTo(source.hunkExecutable, Statements, placed, symbols, fields, fixups, writers)
  BY DEF IInv, FieldInv
<1>5. source.hunkExecutable \in BOOLEAN
  BY <1>4, SourceIs DEF TypeInv
<1>6. \A s \in Sections : sizes[s] \in Nat /\ writers[s] \in Nat /\ writers[s] <= sizes[s]
  BY <1>4 DEF IInv, ObjectInv, TypeInv, TypeOK
<1>7. parts \in [1 .. n -> [size : Nat, data : Nat, bss : BOOLEAN]]
  BY <1>1, <1>6
<1>8. fixups \in Seq(FixupRecord)
  BY <1>4 DEF FieldsTo
<1>9. ASSUME NEW x \in 1 .. Len(fixups)
      PROVE  fixups[x].block = 0 /\ fixups[x].group = 0 /\ fixups[x].section \in 1 .. n
  <2>1. PICK f \in fields : fixups[x] = FixupOf(Statements, placed, symbols, f)
    BY <1>4 DEF FieldsTo
  <2>2. IsField(Statements, placed, symbols, f)
    BY <1>4 DEF FieldsTo
  <2>3. f.section \in Sections
    BY <1>4, <2>2, FieldIs
  <2> QED
    BY <1>1, <2>1, <2>3 DEF FixupOf
<1>10. ASSUME NEW s \in 1 .. n PROVE o.sections[s].data <= o.sections[s].size
  <2>1. parts[s].data = writers[s] /\ parts[s].size = sizes[s]
    BY <1>1
  <2> QED
    BY <1>1, <1>3, <1>6, <2>1
<1>11. o = [executable |-> o.executable, sections |-> o.sections, fixups |-> o.fixups]
  BY <1>2, <1>3
<1>12. NewObject(o, n)
  <2> HIDE DEF parts, n
  <2> QED
    BY <1>1, <1>3, <1>5, <1>7, <1>8, <1>9, <1>10, <1>11 DEF NewObject
<1> QED
  BY <1>12 DEF o

LEMMA LoadedIs ==
  ASSUME IInv, stage = "read"
  PROVE  /\ ReadAsWritten
         /\ loaded[1].fixups \in Seq(FixupRecord) /\ \E c : Arranges(c, loaded[1].fixups, fixups)
<1> DEFINE n == Cardinality(Sections)
           o == Object
           r == Parsed(Written(o))
<1>1. NewObject(o, n) /\ Writable(o) /\ file = <<Written(o)>> /\ loaded = <<Parsed(file[1])>>
  BY ObjectIsNew DEF IInv, ObjectInv
<1>2. file[1] = Written(o) /\ loaded[1] = r
  BY <1>1
<1>3. Sections = 1 .. n
  BY SourceAssumption
<1>4. /\ o.executable = source.hunkExecutable /\ o.fixups = fixups
      /\ \A s \in Sections : /\ o.sections[s].size = sizes[s] /\ o.sections[s].data = writers[s]
                            /\ o.sections[s].bss = (s \in source.bss)
  BY DEF Object
<1> HIDE DEF o, n
<1>5. /\ \A s \in 1 .. n : r.sections[s].data = IF o.sections[s].bss THEN 0 ELSE o.sections[s].data
      /\ \A s \in 1 .. n : o.executable \/ o.sections[s].bss => r.sections[s].size = o.sections[s].size
      /\ Writable(r) /\ Written(r) = Written(o)
      /\ r.fixups \in Seq(FixupRecord) /\ \E c : Arranges(c, r.fixups, o.fixups)
  BY <1>1, ReadBack
<1> HIDE DEF r
<1>6. ReadAsWritten
  BY <1>2, <1>3, <1>4, <1>5 DEF ReadAsWritten
<1> QED
  BY <1>2, <1>4, <1>5, <1>6

\* The hunk file gives back the data of every section that is not BSS, drops that
\* of the others, and gives back the sizes of the BSS sections and, of an
\* executable, of all; and what was read is written as the same file again
\* (amiga_hunk_write_buffer, write_section_payload, amiga_hunk_read_buffer,
\* add_section_from_hunk), for every object that the assembler makes.
THEOREM FileGivesBack == Spec => []ReadAsWritten
<1>1. IInv => ReadAsWritten
  BY LoadedIs DEF ReadAsWritten
<1> QED
  BY <1>1, Inductive, PTL

-----------------------------------------------------------------------------
(* What names stand for, when section s lies at base[s]                     *)

IsBase(base) == base \in [Sections -> Nat]

\* The address of a label is its value, counted from its section if it moves.
LEMMA LabelIs ==
  ASSUME IInv, Ready, NEW name \in LabelNames(Statements), NEW base, IsBase(base)
  PROVE  LET y == symbols[name] IN
         /\ y.defined /\ y.section \in Sections /\ y.value \in Int
         /\ y.absolute => AddressAt(Max(Definitions(name)), base) = y.value
         /\ ~y.absolute => AddressAt(Max(Definitions(name)), base) = base[y.section] + y.value
<1>1. /\ Indices = 1 .. Len(Statements) /\ Indices = DOMAIN Statements /\ Len(Statements) \in Nat /\ IsLayout(Statements, placed)
      /\ TypeInv /\ WellFormed
  BY SourceIs DEF IInv, TypeInv, Ready, Indices
<1>2. PICK i \in Indices : Statements[i].kind = "label" /\ Statements[i].name = name
  BY <1>1 DEF LabelNames
<1>3. Definitions(name) = {i}
  <2>1. i \in Definitions(name)
    BY <1>2 DEF Definitions
  <2>2. ASSUME NEW j \in Definitions(name) PROVE j = i
    <3>1. j \in Indices /\ Statements[j].kind = "label" /\ Statements[j].name = name
      BY DEF Definitions
    <3> QED
      BY <1>1, <1>2, <3>1, OneDefinitionOf
  <2> QED
    BY <2>1, <2>2
<1>4. Max(Definitions(name)) = i
  <2> DEFINE T == {i}
             n == Len(Statements)
  <2>1. n \in Nat /\ T \in SUBSET (0 .. n) /\ T # {}
    BY <1>1
  <2>2. Max(T) \in T
    <3> HIDE DEF T, n
    <3> QED
      BY <2>1, MaxOf
  <2> QED
    BY <1>3, <2>2
<1>5. symbols[name] = SymbolOf(Statements, placed, i)
  BY <1>2, ReadyIs DEF LabelledAt
<1> DEFINE y == symbols[name]
           p == placed[i]
           st == Statements[i]
<1>6. y.defined /\ y.section = st.section /\ y.value = p.logical /\ y.absolute = (p.logical # p.offset)
  <2> HIDE DEF p, st
  <2> QED
    BY <1>5 DEF SymbolOf, p, st
<1>7. p \in Place /\ st \in Statement
  BY <1>1, <1>2, SourceIs DEF IsLayout, TypeInv
<1>8. p.logical \in Int /\ p.offset \in Int
  BY <1>7 DEF Place
<1>9. st.section \in Sections
  BY <1>7, StatementIs
<1>10. p.offset = Physical(i) /\ p.logical = Logical(i)
  BY <1>2, LogicalIs
<1>11. AddressAt(i, base) = IF p.logical # p.offset THEN p.logical ELSE base[st.section] + p.offset
  BY <1>10 DEF AddressAt
<1> HIDE DEF p, st, y
<1>12. y.absolute => AddressAt(i, base) = y.value
  BY <1>6, <1>11
<1>13. ~y.absolute => AddressAt(i, base) = base[y.section] + y.value
  BY <1>6, <1>11
<1> QED
  BY <1>4, <1>6, <1>8, <1>9, <1>12, <1>13 DEF y

\* How far a name moves with the sections.
Shift(y, base) == IF y.constant THEN 0 ELSE base[y.section]

LEMMA NameIs ==
  ASSUME IInv, Ready, NEW name, Lookup(symbols, name).ok, NEW base, IsBase(base)
  PROVE  LET y == Lookup(symbols, name) IN
         /\ y.value \in Int /\ Shift(y, base) \in Int /\ (~y.constant => y.section \in Sections)
         /\ Address(name, base) = y.value + Shift(y, base)
<1> DEFINE y == Lookup(symbols, name)
<1>1. y \in Finding
  BY LookupType DEF IInv, TypeInv, IsSymbols
<1>2. y.value \in Int
  BY <1>1 DEF Finding
<1>3. DOMAIN symbols = LabelNames(Statements)
  BY DEF IInv, TypeInv
<1>4. (name \in LabelNames(Statements)) <=> Definitions(name) # {}
  BY DEF LabelNames, Definitions, Indices
<1>5. CASE name \in DOMAIN Equates
  <2>1. y.constant /\ y.value = Equates[name]
    BY <1>5 DEF Lookup
  <2>2. Address(name, base) = Equates[name]
    BY <1>5 DEF Address
  <2> HIDE DEF y
  <2>3. Shift(y, base) = 0
    BY <2>1 DEF Shift
  <2> QED
    BY <1>2, <2>1, <2>2, <2>3 DEF y
<1>6. CASE name \notin DOMAIN Equates /\ name \in LabelNames(Statements)
  <2> DEFINE l == symbols[name]
             a == AddressAt(Max(Definitions(name)), base)
  <2>1. y.constant = l.absolute /\ y.value = l.value /\ y.section = l.section
    BY <1>3, <1>6 DEF Lookup
  <2>2. /\ l.section \in Sections
        /\ l.absolute => a = l.value
        /\ ~l.absolute => a = base[l.section] + l.value
    BY <1>6, LabelIs
  <2>3. Address(name, base) = a
    BY <1>4, <1>6 DEF Address
  <2> HIDE DEF y, l, a
  <2>4. CASE y.constant
    <3>1. Shift(y, base) = 0 /\ a = y.value
      BY <2>1, <2>2, <2>4 DEF Shift
    <3> QED
      BY <1>2, <2>3, <2>4, <3>1 DEF y
  <2>5. CASE ~y.constant
    <3>1. Shift(y, base) = base[y.section] /\ a = base[y.section] + y.value /\ y.section \in Sections
      BY <2>1, <2>2, <2>5 DEF Shift
    <3>2. base[y.section] \in Int
      BY <3>1 DEF IsBase
    <3> QED
      BY <1>2, <2>3, <3>1, <3>2 DEF y
  <2> QED
    BY <2>4, <2>5
<1>7. CASE name \notin DOMAIN Equates /\ name \notin LabelNames(Statements)
  <2>1. name \in DOMAIN BaseNames /\ ~y.constant /\ y.value = 0 /\ y.section = BaseNames[name]
    BY <1>3, <1>7 DEF Lookup
  <2>2. Address(name, base) = base[BaseNames[name]]
    BY <1>4, <1>7 DEF Address
  <2>3. BaseNames[name] \in Sections
    BY <2>1, SourceAssumption
  <2>4. base[BaseNames[name]] \in Int
    BY <2>3 DEF IsBase
  <2> HIDE DEF y
  <2>5. Shift(y, base) = base[BaseNames[name]]
    BY <2>1 DEF Shift
  <2> QED
    BY <2>1, <2>2, <2>3, <2>4, <2>5 DEF y
<1> QED
  BY <1>5, <1>6, <1>7

-----------------------------------------------------------------------------
(* What expressions stand for                                               *)

ShiftTo(target, base) == IF target = 0 THEN 0 ELSE base[target]
Shifts(table, expr, current, base) ==
  [t \in DOMAIN expr.terms |-> expr.terms[t].sign * Shift(TermOf(table, expr, current, t), base)]
InSections(table, expr, current) ==
  \A t \in 1 .. Len(expr.terms) :
    ~TermOf(table, expr, current, t).constant => TermOf(table, expr, current, t).section \in Sections

LEMMA ShiftsType ==
  ASSUME NEW table, NEW expr \in Expression, NEW current, InSections(table, expr, current), NEW base, IsBase(base)
  PROVE  /\ Shifts(table, expr, current, base) \in Seq(Int)
         /\ Len(Shifts(table, expr, current, base)) = Len(expr.terms)
         /\ \A t \in 1 .. Len(expr.terms) :
              /\ Shift(TermOf(table, expr, current, t), base) \in Int
              /\ Shifts(table, expr, current, base)[t] = expr.terms[t].sign * Shift(TermOf(table, expr, current, t), base)
<1>1. Len(expr.terms) \in Nat /\ DOMAIN expr.terms = 1 .. Len(expr.terms)
  BY ExpressionIs
<1>2. ASSUME NEW t \in 1 .. Len(expr.terms)
      PROVE  /\ Shift(TermOf(table, expr, current, t), base) \in Int
             /\ expr.terms[t].sign * Shift(TermOf(table, expr, current, t), base) \in Int
  <2> DEFINE y == TermOf(table, expr, current, t)
  <2>1. ~y.constant => y.section \in Sections
    BY DEF InSections
  <2> HIDE DEF y
  <2>2. Shift(y, base) \in Int
    BY <2>1 DEF Shift, IsBase
  <2>3. expr.terms[t].sign \in {1, -1}
    BY ExpressionIs
  <2>4. expr.terms[t].sign * Shift(y, base) \in Int
    BY <2>2, <2>3
  <2> QED
    BY <2>2, <2>4 DEF y
<1> DEFINE n == Len(expr.terms)
           q == [t \in 1 .. n |-> expr.terms[t].sign * Shift(TermOf(table, expr, current, t), base)]
<1>3. q \in [1 .. n -> Int]
  BY <1>2
<1>4. Shifts(table, expr, current, base) = q
  BY <1>1 DEF Shifts
<1>5. \A t \in 1 .. n : q[t] = expr.terms[t].sign * Shift(TermOf(table, expr, current, t), base)
  OBVIOUS
<1> HIDE DEF q
<1>6. q \in Seq(Int) /\ Len(q) = n
  BY <1>1, <1>3, IsSequence
<1> QED
  BY <1>2, <1>4, <1>5, <1>6

\* An expression that is accepted moves with its target.
LEMMA ShiftsAre ==
  ASSUME NEW table, NEW expr \in Expression, NEW current, InSections(table, expr, current), NEW base, IsBase(base),
         Evaluate(table, expr, current).ok
  PROVE  LET target == Evaluate(table, expr, current).target IN
         /\ target \in Sections \cup {0}
         /\ Total(Shifts(table, expr, current, base)) = ShiftTo(target, base)
<1> DEFINE q == Shifts(table, expr, current, base)
           n == Len(expr.terms)
           y(t) == TermOf(table, expr, current, t)
           relative == RelativeOf(table, expr, current)
           moving == MovingOf(table, expr, current)
           cancels == Cancels(table, expr, current)
           target == Evaluate(table, expr, current).target
           m == CHOOSE t \in moving : TRUE
<1>1. n \in Nat /\ DOMAIN expr.terms = 1 .. n /\ q \in Seq(Int) /\ Len(q) = n
  BY ExpressionIs, ShiftsType
<1>2. \A t \in 1 .. n : Shift(y(t), base) \in Int /\ q[t] = expr.terms[t].sign * Shift(y(t), base)
  BY ShiftsType
<1>3. relative = {} \/ moving # {} \/ cancels
  BY EvaluateIs
<1>4. target = IF moving = {} THEN 0 ELSE y(m).section
  BY EvaluateIs
<1>5. \A t \in relative : t \in 1 .. n /\ ~y(t).constant
  BY <1>1 DEF RelativeOf
<1>6. \A t \in relative : y(t).section \in Sections /\ Shift(y(t), base) = base[y(t).section]
  BY <1>5 DEF InSections, Shift
<1>7. ASSUME NEW t \in 1 .. n, t \notin relative PROVE q[t] = 0
  <2>1. y(t).constant
    BY <1>1, <1>7 DEF RelativeOf
  <2>2. Shift(y(t), base) = 0
    BY <2>1 DEF Shift
  <2>3. q[t] = expr.terms[t].sign * Shift(y(t), base)
    BY <1>2
  <2>4. expr.terms[t].sign \in {1, -1}
    BY ExpressionIs
  <2> HIDE DEF q, y
  <2> QED
    BY <2>2, <2>3, <2>4
<1>8. CASE relative = {}
  <2>1. \A t \in 1 .. Len(q) : q[t] = 0
    BY <1>1, <1>7, <1>8
  <2>2. Total(q) = 0
    <3> HIDE DEF q
    <3> QED
      BY <1>1, <2>1, TotalZero
  <2>3. moving = {}
    BY <1>8 DEF MovingOf
  <2>4. target = 0
    BY <1>4, <2>3
  <2> QED
    BY <2>2, <2>4 DEF ShiftTo
<1>9. CASE moving # {}
  <2>1. m \in moving
    BY <1>9
  <2>2. m \in relative /\ relative = {m} /\ expr.terms[m].sign = 1
    BY <2>1 DEF MovingOf
  <2>3. target = y(m).section
    BY <1>4, <1>9
  <2>4. m \in 1 .. n /\ target \in Sections /\ Shift(y(m), base) = base[target]
    BY <1>5, <1>6, <2>2, <2>3
  <2>5. q[m] = expr.terms[m].sign * Shift(y(m), base) /\ Shift(y(m), base) \in Int
    BY <1>2, <2>4
  <2>6. \A t \in 1 .. n : t # m => q[t] = 0
    BY <1>7, <2>2
  <2>7. target # 0
    BY <2>4, SectionsAre
  <2> HIDE DEF q, m, y, target, n
  <2>8. q[m] = base[target]
    BY <2>2, <2>4, <2>5
  <2>9. Total(q) = q[m]
    BY <1>1, <2>4, <2>6, TotalSingle
  <2> QED
    BY <2>4, <2>7, <2>8, <2>9 DEF ShiftTo, q, target
<1>10. CASE cancels
  <2>1. PICK t \in relative : \E u \in relative :
          /\ relative = {t, u} /\ t < u /\ expr.terms[t].sign = 1 /\ expr.terms[u].sign = -1
          /\ y(t).section = y(u).section
    BY <1>10 DEF Cancels
  <2>2. PICK u \in relative :
          /\ relative = {t, u} /\ t < u /\ expr.terms[t].sign = 1 /\ expr.terms[u].sign = -1
          /\ y(t).section = y(u).section
    BY <2>1
  <2>3. t \in 1 .. n /\ u \in 1 .. n
    BY <1>5
  <2>4. q[t] = expr.terms[t].sign * Shift(y(t), base) /\ q[u] = expr.terms[u].sign * Shift(y(u), base)
    BY <1>2, <2>3
  <2>5. Shift(y(t), base) = Shift(y(u), base) /\ Shift(y(t), base) \in Int
    BY <1>2, <1>6, <2>2, <2>3
  <2>6. \A i \in 1 .. n : i # t /\ i # u => q[i] = 0
    BY <1>7, <2>2
  <2>7. moving = {}
    <3>1. ASSUME NEW x \in moving PROVE FALSE
      <4>1. relative = {x}
        BY DEF MovingOf
      <4>2. t = x /\ u = x
        BY <4>1
      <4> QED
        BY <2>2, <2>3, <4>2
    <3> QED
      BY <3>1
  <2>8. target = 0
    BY <1>4, <2>7
  <2> HIDE DEF q, y, n, relative
  <2>9. q[t] + q[u] = 0
    BY <2>2, <2>4, <2>5
  <2>10. Total(q) = q[t] + q[u]
    BY <1>1, <2>2, <2>3, <2>6, TotalPair
  <2> QED
    BY <2>8, <2>9, <2>10 DEF ShiftTo, q
<1> QED
  BY <1>3, <1>8, <1>9, <1>10

-----------------------------------------------------------------------------
(* What the fields stand for                                                *)

\* What a term stands for when "*" is a, which the code has wrapped.
Term(name, a, base) == IF name = "*" THEN a ELSE Address(name, base)

LEMMA TermIs ==
  ASSUME IInv, Ready, NEW name, NEW a \in Int, NEW base, IsBase(base), LookupAt(symbols, name, Wrap(a)).ok
  PROVE  LET y == LookupAt(symbols, name, Wrap(a)) IN
         /\ y.value \in Int /\ Shift(y, base) \in Int /\ (~y.constant => y.section \in Sections)
         /\ Term(name, a, base) \in Int /\ Cong(Term(name, a, base), y.value + Shift(y, base), ValueMod)
<1> DEFINE y == LookupAt(symbols, name, Wrap(a))
<1>1. ValueMod \in Nat \ {0} /\ Wrap(a) \in Nat /\ Cong(a, Wrap(a), ValueMod)
  BY Modulus
<1>2. CASE name = "*"
  <2>1. y = [ok |-> TRUE, defined |-> TRUE, constant |-> TRUE, value |-> Wrap(a), section |-> 0]
    BY <1>2 DEF LookupAt
  <2>2. y.value = Wrap(a) /\ y.constant /\ Term(name, a, base) = a
    BY <1>2, <2>1 DEF Term
  <2> HIDE DEF y
  <2>3. Shift(y, base) = 0
    BY <2>2 DEF Shift
  <2>4. y.value \in Int /\ y.value + 0 = Wrap(a)
    BY <1>1, <2>2
  <2> QED
    BY <1>1, <2>2, <2>3, <2>4 DEF y
<1>3. CASE name # "*"
  <2>1. y = Lookup(symbols, name) /\ Term(name, a, base) = Address(name, base) /\ y.ok
    BY <1>3 DEF LookupAt, Term
  <2> HIDE DEF y
  <2>2. /\ y.value \in Int /\ Shift(y, base) \in Int /\ (~y.constant => y.section \in Sections)
        /\ Term(name, a, base) = y.value + Shift(y, base)
    BY <2>1, NameIs
  <2> DEFINE v == y.value + Shift(y, base)
  <2>3. v \in Int
    BY <2>2
  <2> HIDE DEF v
  <2>4. Cong(v, v, ValueMod)
    BY <1>1, <2>3, CongSame
  <2> QED
    BY <2>2, <2>3, <2>4 DEF y, v
<1> QED
  BY <1>2, <1>3

\* An item of a data statement, of which "*" stands for a.
MeaningOf(expr, a, base) ==
  expr.number + Total([t \in DOMAIN expr.terms |-> expr.terms[t].sign * Term(expr.terms[t].name, a, base)])

LEMMA SignedCong ==
  ASSUME NEW sign \in {1, -1}, NEW a \in Int, NEW b \in Int, NEW c \in Int, Cong(a, b + c, ValueMod)
  PROVE  Cong(sign * a, sign * b + sign * c, ValueMod)
<1>1. PICK k \in Int : a - (b + c) = k * ValueMod
  BY DEF Cong
<1>2. ValueMod \in Int
  BY Modulus
<1>3. sign * a - (sign * b + sign * c) = sign * (a - (b + c))
  OBVIOUS
<1>4. sign * (k * ValueMod) = (sign * k) * ValueMod /\ sign * k \in Int
  BY <1>2
<1> QED
  BY <1>1, <1>3, <1>4, CongBy

LEMMA ExpressionMeans ==
  ASSUME IInv, Ready, NEW expr \in Expression, NEW a \in Int, NEW base, IsBase(base),
         Evaluate(symbols, expr, Wrap(a)).ok
  PROVE  LET v == Evaluate(symbols, expr, Wrap(a)) IN
         /\ v.target \in Sections \cup {0} /\ v.value \in Int /\ MeaningOf(expr, a, base) \in Int
         /\ Cong(MeaningOf(expr, a, base), v.value + ShiftTo(v.target, base), ValueMod)
<1> DEFINE n == Len(expr.terms)
           c == Wrap(a)
           y(t) == TermOf(symbols, expr, c, t)
           v == Evaluate(symbols, expr, c)
           q == Summands(symbols, expr, c)
           r == Shifts(symbols, expr, c, base)
           m == [t \in 1 .. n |-> expr.terms[t].sign * Term(expr.terms[t].name, a, base)]
           z == [t \in 1 .. n |-> q[t] + r[t]]
<1>1. /\ n \in Nat /\ DOMAIN expr.terms = 1 .. n /\ expr.number \in Int
      /\ \A t \in 1 .. n : expr.terms[t].sign \in {1, -1}
  BY ExpressionIs
<1>2. ValueMod \in Nat \ {0} /\ c \in Int /\ IsSymbols(symbols)
  BY Modulus DEF IInv, TypeInv, IsSymbols
<1>3. \A t \in 1 .. n : y(t).ok
  BY <1>1, EvaluateIs
<1>4. ASSUME NEW t \in 1 .. n
      PROVE  /\ y(t).value \in Int /\ Shift(y(t), base) \in Int /\ (~y(t).constant => y(t).section \in Sections)
             /\ Term(expr.terms[t].name, a, base) \in Int
             /\ Cong(Term(expr.terms[t].name, a, base), y(t).value + Shift(y(t), base), ValueMod)
  <2> DEFINE name == expr.terms[t].name
  <2>1. y(t) = LookupAt(symbols, name, c) /\ LookupAt(symbols, name, c).ok
    BY <1>3 DEF TermOf
  <2> HIDE DEF name, y
  <2> QED
    BY <2>1, TermIs DEF name
<1>5. InSections(symbols, expr, c)
  BY <1>4 DEF InSections
<1>6. v.target \in Sections \cup {0} /\ Total(r) = ShiftTo(v.target, base)
  BY <1>5, ShiftsAre
<1>7. /\ q \in Seq(Int) /\ Len(q) = n
      /\ \A t \in 1 .. n : q[t] = expr.terms[t].sign * y(t).value
  BY <1>2, SummandsType
<1>8. /\ r \in Seq(Int) /\ Len(r) = n
      /\ \A t \in 1 .. n : r[t] = expr.terms[t].sign * Shift(y(t), base)
  BY <1>5, ShiftsType
<1>9. v.value = Wrap(expr.number + Total(q))
  BY EvaluateIs
<1>10. MeaningOf(expr, a, base) = expr.number + Total(m)
  BY <1>1 DEF MeaningOf
<1>11. ASSUME NEW t \in 1 .. n
       PROVE  m[t] \in Int /\ z[t] \in Int /\ Cong(m[t], z[t], ValueMod)
  <2> DEFINE sign == expr.terms[t].sign
             x == Term(expr.terms[t].name, a, base)
             p == y(t).value
             d == Shift(y(t), base)
  <2>1. sign \in {1, -1} /\ x \in Int /\ p \in Int /\ d \in Int /\ Cong(x, p + d, ValueMod)
    BY <1>1, <1>4
  <2>2. m[t] = sign * x /\ z[t] = sign * p + sign * d
    BY <1>7, <1>8
  <2> HIDE DEF sign, x, p, d, m, z
  <2>3. sign * x \in Int /\ sign * p + sign * d \in Int
    BY <2>1
  <2>4. Cong(sign * x, sign * p + sign * d, ValueMod)
    BY <2>1, SignedCong
  <2> QED
    BY <2>2, <2>3, <2>4
<1>12. m \in Seq(Int) /\ Len(m) = n
  <2>1. m \in [1 .. n -> Int]
    BY <1>11
  <2> HIDE DEF m, n
  <2> QED
    BY <1>1, <2>1, IsSequence
<1>13. z \in Seq(Int) /\ Len(z) = n /\ \A t \in 1 .. n : z[t] = q[t] + r[t]
  <2>1. z \in [1 .. n -> Int]
    BY <1>11
  <2>2. \A t \in 1 .. n : z[t] = q[t] + r[t]
    OBVIOUS
  <2> HIDE DEF z, n
  <2> QED
    BY <1>1, <2>1, <2>2, IsSequence
<1> HIDE DEF q, r, m, z, v, n, c
<1>14. Cong(Total(m), Total(z), ValueMod)
  BY <1>2, <1>11, <1>12, <1>13, TotalCong
<1>15. Total(z) = Total(q) + Total(r)
  <2>1. q \in Seq(Int) /\ r \in Seq(Int) /\ z \in Seq(Int) /\ Len(r) = Len(q) /\ Len(z) = Len(q)
    BY <1>7, <1>8, <1>13
  <2>2. \A t \in 1 .. Len(q) : z[t] = q[t] + r[t]
    BY <1>7, <1>13
  <2> QED
    BY <2>1, <2>2, TotalPlus
<1>16. Total(q) \in Int /\ Total(r) \in Int /\ Total(m) \in Int
  <2>1. PICK g : Adds(g, q)
    BY <1>7, TotalAdds
  <2>2. PICK h : Adds(h, r)
    BY <1>8, TotalAdds
  <2>3. PICK k : Adds(k, m)
    BY <1>12, TotalAdds
  <2> QED
    BY <1>7, <1>8, <1>12, <2>1, <2>2, <2>3, TotalIs
<1> DEFINE e == expr.number
           A == Total(q)
           B == Total(r)
           M == Total(m)
<1>17. e \in Int /\ A \in Int /\ B \in Int /\ M \in Int /\ Cong(M, A + B, ValueMod) /\ v.value = Wrap(e + A)
  BY <1>1, <1>9, <1>14, <1>15, <1>16
<1>18. MeaningOf(expr, a, base) = e + M /\ B = ShiftTo(v.target, base)
  BY <1>6, <1>10
<1> HIDE DEF e, A, B, M
<1>19. e + A \in Int /\ A + B \in Int /\ e + M \in Int
  BY <1>17
<1>20. Cong(e, e, ValueMod) /\ Cong(B, B, ValueMod)
  BY <1>2, <1>17, CongSame
<1>21. Cong(e + M, e + (A + B), ValueMod)
  BY <1>2, <1>17, <1>19, <1>20, CongAdd
<1>22. v.value \in Nat /\ Cong(e + A, v.value, ValueMod)
  BY <1>17, <1>19, Modulus
<1>23. v.value \in Int
  BY <1>22
<1>24. Cong((e + A) + B, v.value + B, ValueMod)
  BY <1>2, <1>17, <1>19, <1>20, <1>22, <1>23, CongAdd
<1>25. (e + A) + B = e + (A + B) /\ e + (A + B) \in Int /\ v.value + B \in Int
  BY <1>17, <1>23
<1>26. Cong(e + M, v.value + B, ValueMod)
  BY <1>2, <1>19, <1>21, <1>24, <1>25, CongTrans
<1> QED
  BY <1>6, <1>18, <1>19, <1>23, <1>26 DEF v, c

LEMMA ItemMeans ==
  ASSUME IInv, Ready, NEW i \in Indices, Statements[i].kind = "data", NEW k \in 1 .. Len(Statements[i].items),
         ItemOf(Statements, placed, symbols, i, k).ok, NEW base, IsBase(base)
  PROVE  LET v == ItemOf(Statements, placed, symbols, i, k) IN
         /\ v.target \in Sections \cup {0} /\ v.value \in Int /\ MeaningOfItem(i, k, base) \in Int
         /\ Cong(MeaningOfItem(i, k, base), v.value + ShiftTo(v.target, base), ValueMod)
<1> DEFINE st == Statements[i]
           p == placed[i]
           e == st.items[k]
           a == p.logical + (k - 1) * st.width
           v == ItemOf(Statements, placed, symbols, i, k)
<1>1. st \in Statement /\ p \in Place
  BY SourceIs DEF IInv, TypeInv, IsLayout
<1>2. st.width \in {1, 2, 4} /\ st.items \in Seq(Expression)
  BY <1>1, StatementIs
<1>3. Len(st.items) \in Nat /\ e \in Expression
  BY <1>2
<1>4. p.logical \in Nat
  BY <1>1 DEF Place
<1>5. (k - 1) * st.width \in Nat
  <2>1. k - 1 \in Nat
    BY <1>3
  <2> QED
    BY <1>2, <2>1
<1>6. a \in Int
  BY <1>4, <1>5
<1>7. v = Evaluate(symbols, e, Wrap(a))
  BY DEF ItemOf
<1>8. p.logical = Logical(i)
  BY LogicalIs
<1>9. MeaningOfItem(i, k, base) = MeaningOf(e, a, base)
  BY <1>8 DEF MeaningOfItem, MeaningOf, Term
<1> HIDE DEF e, a, v
<1>10. Evaluate(symbols, e, Wrap(a)).ok
  BY <1>7 DEF v
<1>11. /\ v.target \in Sections \cup {0} /\ v.value \in Int /\ MeaningOf(e, a, base) \in Int
       /\ Cong(MeaningOf(e, a, base), v.value + ShiftTo(v.target, base), ValueMod)
  BY <1>3, <1>6, <1>7, <1>10, ExpressionMeans
<1> QED
  BY <1>9, <1>11 DEF v

\* The distance from an instruction is a number of its own, whatever moves.
Distance(st) == st.kind = "instruction" /\ st.form \in Relative

LEMMA OperandMeans ==
  ASSUME IInv, Ready, NEW i \in Indices, Statements[i].kind = "instruction", Statements[i].form # "plain",
         OperandOf(Statements, placed, symbols, i).ok, NEW base, IsBase(base),
         Distance(Statements[i]) => base = Zeros
  PROVE  LET r == OperandOf(Statements, placed, symbols, i) IN
         /\ r.target \in Sections \cup {0} /\ (Distance(Statements[i]) => r.target = 0)
         /\ r.value \in Int /\ MeaningOfOperand(i, base) \in Int
         /\ Cong(MeaningOfOperand(i, base), r.value + ShiftTo(r.target, base), ValueMod)
<1> DEFINE st == Statements[i]
           p == placed[i]
           y == Lookup(symbols, st.name)
           r == OperandOf(Statements, placed, symbols, i)
           d == Shift(y, base)
           b == st.addend
           l == p.logical
           m == MeaningOfOperand(i, base)
<1>1. st \in Statement /\ p \in Place /\ ValueMod \in Nat \ {0}
  BY SourceIs, Modulus DEF IInv, TypeInv, IsLayout
<1>2. b \in Int /\ l \in Int
  BY <1>1, StatementIs DEF Place
<1>3. /\ y.ok /\ y.defined /\ r.value = ValueOf(symbols, st, l)
      /\ r.target = IF y.defined /\ ~y.constant /\ st.form \notin Relative THEN y.section ELSE 0
  <2> DEFINE z == Resolved(symbols, st, l, FALSE)
  <2>1. r = z /\ st.form # "plain" /\ z.ok
    BY DEF OperandOf
  <2>2. y.ok /\ y.defined
    BY <2>1 DEF Resolved
  <2>4. z.value = ValueOf(symbols, st, l)
    BY <2>1 DEF Resolved, ValueOf, SymbolValue
  <2>3. z.target = IF y.defined /\ ~y.constant /\ st.form \notin Relative THEN y.section ELSE 0
    BY <2>1, ResolvedIs
  <2> HIDE DEF r, z
  <2> QED
    BY <2>1, <2>2, <2>3, <2>4
<1>4. /\ y.value \in Int /\ d \in Int /\ (~y.constant => y.section \in Sections)
      /\ Address(st.name, base) = y.value + d
  BY <1>3, NameIs
<1> DEFINE u == y.value + b
<1>5. u \in Int
  BY <1>2, <1>4
<1>6. SymbolValue(symbols, st) = Wrap(u)
  BY <1>3 DEF SymbolValue
<1>7. Wrap(u) \in Int /\ Cong(u, Wrap(u), ValueMod)
  <2> HIDE DEF u
  <2>1. Wrap(u) \in Nat /\ Cong(u, Wrap(u), ValueMod)
    BY <1>5, Modulus
  <2> QED
    BY <2>1
<1>8. CASE st.form \notin Relative
  <2>1. r.value = Wrap(u) /\ r.target = IF ~y.constant THEN y.section ELSE 0
    BY <1>3, <1>6, <1>8 DEF ValueOf
  <2>2. m = Address(st.name, base) + b - 0
    BY <1>8 DEF MeaningOfOperand
  <2>3. ~Distance(st)
    BY <1>8 DEF Distance
  <2> HIDE DEF r, d, m, y
  <2>4. r.target \in Sections \cup {0} /\ ShiftTo(r.target, base) = d
    <3>1. CASE y.constant
      <4>1. r.target = 0
        BY <2>1, <3>1
      <4> QED
        BY <3>1, <4>1 DEF ShiftTo, d, Shift
    <3>2. CASE ~y.constant
      <4>1. r.target = y.section /\ r.target \in Sections /\ r.target # 0
        BY <1>4, <2>1, <3>2, SectionsAre
      <4> QED
        BY <3>2, <4>1 DEF ShiftTo, d, Shift
    <3> QED
      BY <3>1, <3>2
  <2>5. m = u + d
    BY <1>2, <1>4, <2>2
  <2> HIDE DEF u, b
  <2>6. m \in Int /\ r.value \in Int /\ r.value = Wrap(u)
    BY <1>4, <1>5, <1>7, <2>1, <2>5
  <2>7. Cong(d, d, ValueMod)
    BY <1>1, <1>4, CongSame
  <2>8. Cong(u + d, Wrap(u) + d, ValueMod)
    BY <1>1, <1>4, <1>5, <1>7, <2>7, CongAdd
  <2> QED
    BY <2>3, <2>4, <2>5, <2>6, <2>8 DEF r, m
<1>9. CASE st.form \in Relative
  <2> DEFINE x == l + 2
             w == Wrap(u) - x
  <2>1. r.value = Wrap(w) /\ r.target = 0
    BY <1>3, <1>6, <1>9 DEF ValueOf
  <2>2. base = Zeros
    BY <1>9 DEF Distance
  <2>3. d = 0
    <3>1. ~y.constant => base[y.section] = 0
      BY <1>4, <2>2 DEF Zeros
    <3> HIDE DEF y
    <3> QED
      BY <3>1 DEF Shift
  <2>4. AddressAt(i, base) = l
    <3>1. p.offset = Physical(i) /\ l = Logical(i)
      BY LogicalIs
    <3>2. base[st.section] = 0
      BY <1>1, <2>2, StatementIs DEF Zeros
    <3>3. Physical(i) \in Nat
      BY PhysicalIs
    <3> QED
      BY <3>1, <3>2, <3>3 DEF AddressAt
  <2>5. m = Address(st.name, base) + b - (AddressAt(i, base) + 2)
    BY <1>9 DEF MeaningOfOperand
  <2> HIDE DEF r, d, m, y, l
  <2>6. m = u - x /\ x \in Int /\ w \in Int
    BY <1>2, <1>4, <1>7, <2>3, <2>4, <2>5
  <2> HIDE DEF u, b, x
  <2>7. Cong(x, x, ValueMod) /\ u - x \in Int
    BY <1>1, <1>5, <2>6, CongSame
  <2>8. Cong(u - x, w, ValueMod)
    BY <1>1, <1>5, <1>7, <2>6, <2>7, CongAdd
  <2> HIDE DEF w
  <2>9. Wrap(w) \in Nat /\ Cong(w, Wrap(w), ValueMod)
    BY <2>6, Modulus
  <2>10. Wrap(w) \in Int
    BY <2>9
  <2>11. Cong(u - x, Wrap(w), ValueMod)
    BY <1>1, <2>6, <2>7, <2>8, <2>9, <2>10, CongTrans
  <2>12. ShiftTo(r.target, base) = 0 /\ r.value + 0 = Wrap(w) /\ r.value \in Int /\ m \in Int
    BY <2>1, <2>6, <2>7, <2>10 DEF ShiftTo
  <2>13. r.value + ShiftTo(r.target, base) = Wrap(w)
    BY <2>12
  <2> QED
    BY <2>1, <2>6, <2>11, <2>12, <2>13 DEF r, m
<1> QED
  BY <1>8, <1>9

\* A field stands for its value, which moves with its target.
LEMMA FieldMeans ==
  ASSUME IInv, Ready, NEW f, IsField(Statements, placed, symbols, f), NEW base, IsBase(base),
         Distance(Statements[f.statement]) => base = Zeros
  PROVE  LET target == TargetOf(Statements, placed, symbols, f) IN
         /\ target \in Sections \cup {0} /\ (Distance(Statements[f.statement]) => target = 0)
         /\ f.value \in Int /\ Meaning(f, base) \in Int
         /\ Cong(Meaning(f, base), f.value + ShiftTo(target, base), Holds[f.width])
<1> DEFINE i == f.statement
           st == Statements[i]
           target == TargetOf(Statements, placed, symbols, f)
           h == Holds[f.width]
           m == Meaning(f, base)
<1>1. TypeInv /\ Indices = 1 .. Len(Statements)
  BY SourceIs DEF IInv, TypeInv
<1>2. /\ i \in Indices /\ f.width \in {1, 2, 4} /\ f.value \in Int
      /\ st.kind \in {"data", "instruction"} /\ h \in Nat \ {0}
  <2>1. /\ i \in 1 .. Len(Statements) /\ f.width \in {1, 2, 4} /\ f.value \in Nat
        /\ st.kind \in {"data", "instruction"}
    BY <1>1, FieldIs
  <2>2. h \in Nat \ {0}
    BY <2>1, Modulus
  <2> QED
    BY <1>1, <2>1, <2>2
<1>3. PICK v \in Int :
        /\ target \in Sections \cup {0} /\ (Distance(st) => target = 0)
        /\ m \in Int /\ Cong(m, v + ShiftTo(target, base), ValueMod) /\ f.value = v % h
  <2>1. CASE st.kind = "data"
    <3> DEFINE w == ItemOf(Statements, placed, symbols, i, f.item)
    <3>1. f.item \in 1 .. Len(st.items) /\ w.ok /\ f.value = w.value % h
      BY <2>1 DEF IsField
    <3>2. target = w.target /\ m = MeaningOfItem(i, f.item, base) /\ ~Distance(st)
      BY <2>1 DEF TargetOf, Meaning, Distance
    <3>3. /\ w.target \in Sections \cup {0} /\ w.value \in Int /\ MeaningOfItem(i, f.item, base) \in Int
          /\ Cong(MeaningOfItem(i, f.item, base), w.value + ShiftTo(w.target, base), ValueMod)
      BY <1>2, <2>1, <3>1, ItemMeans
    <3> HIDE DEF w, m, target, h
    <3> QED
      BY <3>1, <3>2, <3>3
  <2>2. CASE st.kind = "instruction"
    <3> DEFINE r == OperandOf(Statements, placed, symbols, i)
    <3>1. r.ok /\ r.code.width # 0 /\ f.value = r.value % h
      BY <2>2 DEF IsField
    <3>2. target = r.target /\ m = MeaningOfOperand(i, base)
      BY <2>2 DEF TargetOf, Meaning
    <3>3. st.form # "plain"
      <4>1. ASSUME st.form = "plain" PROVE FALSE
        <5> DEFINE c == Encoded("plain", 0)
        <5>1. r = [ok |-> TRUE, value |-> 0, target |-> 0, code |-> c]
          BY <4>1, PlainIs DEF OperandOf
        <5> HIDE DEF c, r
        <5>2. r.code = c
          BY <5>1
        <5>3. c.width = 0
          BY EncodedIs DEF c
        <5> QED
          BY <3>1, <5>2, <5>3
      <4> QED
        BY <4>1
    <3>4. /\ r.target \in Sections \cup {0} /\ (Distance(st) => r.target = 0)
          /\ r.value \in Int /\ MeaningOfOperand(i, base) \in Int
          /\ Cong(MeaningOfOperand(i, base), r.value + ShiftTo(r.target, base), ValueMod)
      BY <1>2, <2>2, <3>1, <3>3, OperandMeans
    <3> HIDE DEF r, m, target, h
    <3> QED
      BY <3>1, <3>2, <3>4
  <2> QED
    BY <1>2, <2>1, <2>2
<1> DEFINE d == ShiftTo(target, base)
<1>4. d \in Int
  <2> HIDE DEF target
  <2>1. target # 0 => base[target] \in Int
    BY <1>3 DEF IsBase
  <2> QED
    BY <2>1 DEF ShiftTo
<1> HIDE DEF d, m, h, target
<1>5. v + d \in Int /\ m \in Int /\ Cong(m, v + d, ValueMod) /\ f.value + d \in Int
  BY <1>2, <1>3, <1>4 DEF d
<1>6. Cong(m, v + d, h)
  BY <1>2, <1>5, Modulus DEF h
<1>7. Cong(v, f.value, h) /\ Cong(d, d, h)
  BY <1>2, <1>3, <1>4, ModCong, CongSame
<1>8. Cong(v + d, f.value + d, h)
  BY <1>2, <1>4, <1>7, CongAdd
<1>9. Cong(m, f.value + d, h)
  BY <1>2, <1>5, <1>6, <1>8, CongTrans
<1> QED
  BY <1>2, <1>3, <1>5, <1>9 DEF d, m, h, target

-----------------------------------------------------------------------------
(* What the loader makes of the fields                                      *)

LEMMA RelocationsAre ==
  ASSUME IInv, stage \in {"done", "read"}
  PROVE  Relocations \in Seq(FixupRecord) /\ \E c : Arranges(c, Relocations, fixups)
<1>1. fixups \in Seq(FixupRecord)
  BY DEF IInv, FieldInv, FieldsTo
<1>2. CASE stage = "read"
  BY <1>2, LoadedIs DEF Relocations
<1>3. CASE stage = "done"
  <2> DEFINE c == [x \in 1 .. Len(fixups) |-> x]
  <2>1. Relocations = fixups
    BY <1>3 DEF Relocations
  <2>2. \A x \in 1 .. Len(fixups) : c[x] = x /\ SameFixup(fixups[x], fixups[c[x]], fixups[c[x]].section)
    BY DEF SameFixup
  <2>3. c \in [1 .. Len(fixups) -> 1 .. Len(fixups)]
    OBVIOUS
  <2> HIDE DEF c
  <2>4. Arranges(c, fixups, fixups)
    BY <2>2, <2>3 DEF Arranges
  <2> QED
    BY <1>1, <2>1, <2>4
<1> QED
  BY <1>2, <1>3

\* A relocation of the place of a field is the one of the field.
LEMMA RelocatesOne ==
  ASSUME IInv, stage \in {"done", "read"}, NEW f \in fields,
         NEW c, Arranges(c, Relocations, fixups), NEW x \in 1 .. Len(Relocations)
  PROVE  LET target == TargetOf(Statements, placed, symbols, f) IN
         /\ c[x] \in 1 .. Len(fixups)
         /\ Relocates(Relocations[x], f) <=> fixups[c[x]] = FixupOf(Statements, placed, symbols, f)
         /\ Relocates(Relocations[x], f) =>
              target # 0 /\ Keeps(source.hunkExecutable, f.width) /\ Relocations[x].target = target
<1> DEFINE r == Relocations[x]
           i == c[x]
           p == fixups[i]
           target == TargetOf(Statements, placed, symbols, f)
           own == FixupOf(Statements, placed, symbols, f)
<1>1. FieldsTo(source.hunkExecutable, Statements, placed, symbols, fields, fixups, writers)
  BY DEF IInv, FieldInv
<1>2. i \in 1 .. Len(fixups) /\ SameFixup(r, p, p.section)
  BY DEF Arranges
<1>3. r.section = p.section /\ r.offset = p.offset /\ r.width = p.width /\ r.target = p.target
  BY <1>2 DEF SameFixup
<1>4. own.section = f.section /\ own.offset = f.at /\ own.width = f.width /\ own.target = target
  BY DEF FixupOf
<1>5. p = own => Relocates(r, f)
  <2> HIDE DEF own, p, r
  <2> QED
    BY <1>3, <1>4 DEF Relocates
<1>6. PICK g \in fields : /\ p = FixupOf(Statements, placed, symbols, g) /\ p.target # 0
                          /\ Keeps(source.hunkExecutable, g.width)
  BY <1>1, <1>2 DEF FieldsTo
<1>7. p.section = g.section /\ p.offset = g.at
  BY <1>6 DEF FixupOf
<1>8. ASSUME Relocates(r, f)
      PROVE  p = own /\ target # 0 /\ Keeps(source.hunkExecutable, f.width) /\ r.target = target
  <2>1. f.section = g.section /\ f.at = g.at
    BY <1>3, <1>7, <1>8 DEF Relocates
  <2>2. f = g
    BY <1>1, <2>1 DEF FieldsTo
  <2>3. p = own
    BY <1>6, <2>2
  <2> QED
    BY <1>3, <1>4, <1>6, <2>2, <2>3
<1> QED
  BY <1>2, <1>5, <1>8

\* The loader moves a field with its target once if it has a fixup, else not at all.
LEMMA LinkedIs ==
  ASSUME IInv, Ready, stage \in {"done", "read"}, NEW f \in fields, NEW base, IsBase(base),
         NEW target, target = TargetOf(Statements, placed, symbols, f), target \in Sections \cup {0}
  PROVE  Linked(f, base) = f.value + (IF Keeps(source.hunkExecutable, f.width) THEN ShiftTo(target, base) ELSE 0)
<1> DEFINE q == Relocations
           n == Len(q)
           w == [x \in 1 .. n |-> IF Relocates(q[x], f) THEN base[q[x].target] ELSE 0]
           own == FixupOf(Statements, placed, symbols, f)
           kept == target # 0 /\ Keeps(source.hunkExecutable, f.width)
<1>1. q \in Seq(FixupRecord) /\ \E c : Arranges(c, q, fixups)
  BY RelocationsAre
<1>2. PICK c : Arranges(c, q, fixups)
  BY <1>1
<1>3. n \in Nat /\ DOMAIN q = 1 .. n
  BY <1>1
<1>4. Linked(f, base) = f.value + Total(w)
  BY <1>3 DEF Linked
<1>5. \A x \in 1 .. n : /\ c[x] \in 1 .. Len(fixups)
                        /\ Relocates(q[x], f) <=> fixups[c[x]] = own
                        /\ Relocates(q[x], f) => kept /\ q[x].target = target
  BY <1>2, RelocatesOne
<1>6. target # 0 => base[target] \in Int
  BY DEF IsBase
<1>7. ASSUME NEW x \in 1 .. n
      PROVE  w[x] \in Int /\ (Relocates(q[x], f) => w[x] = base[target]) /\ (~Relocates(q[x], f) => w[x] = 0)
  <2>1. CASE Relocates(q[x], f)
    <3>1. target # 0 /\ q[x].target = target
      BY <1>5, <2>1
    <3> QED
      BY <1>6, <2>1, <3>1
  <2>2. CASE ~Relocates(q[x], f)
    BY <2>2
  <2> QED
    BY <2>1, <2>2
<1>8. w \in Seq(Int) /\ Len(w) = n
  <2>1. w \in [1 .. n -> Int]
    BY <1>7
  <2> HIDE DEF w, n
  <2> QED
    BY <1>3, <2>1, IsSequence
<1> HIDE DEF w, q, n
<1>9. CASE kept
  <2>1. FieldsTo(source.hunkExecutable, Statements, placed, symbols, fields, fixups, writers)
    BY DEF IInv, FieldInv
  <2>2. PICK i \in 1 .. Len(fixups) : fixups[i] = own
    BY <1>9, <2>1 DEF FieldsTo
  <2>3. PICK x \in 1 .. n : c[x] = i
    BY <1>2 DEF Arranges, n
  <2>4. Relocates(q[x], f)
    BY <1>5, <2>2, <2>3
  <2>5. ASSUME NEW y \in 1 .. n, y # x PROVE w[y] = 0
    <3>1. ASSUME Relocates(q[y], f) PROVE FALSE
      <4>1. fixups[c[y]] = own /\ c[y] \in 1 .. Len(fixups)
        BY <1>5, <3>1
      <4>2. c[y] = i
        BY <2>1, <2>2, <4>1 DEF FieldsTo
      <4> QED
        BY <1>2, <2>3, <2>5, <4>2 DEF Arranges, n
    <3> QED
      BY <1>7, <3>1
  <2>6. Total(w) = w[x]
    BY <1>8, <2>5, TotalSingle
  <2>7. Total(w) = base[target]
    BY <1>7, <2>4, <2>6
  <2> QED
    BY <1>4, <1>9, <2>7 DEF ShiftTo
<1>10. CASE ~kept
  <2>1. \A y \in 1 .. n : w[y] = 0
    BY <1>5, <1>7, <1>10
  <2>2. Total(w) = 0
    BY <1>8, <2>1, TotalZero
  <2>3. (IF Keeps(source.hunkExecutable, f.width) THEN ShiftTo(target, base) ELSE 0) = 0
    BY <1>10 DEF ShiftTo
  <2> QED
    BY <1>4, <2>2, <2>3
<1> QED
  BY <1>9, <1>10

LEMMA LinkedBy ==
  ASSUME NEW a \in Int, NEW b \in Int, NEW h \in Nat \ {0}, Cong(a, b, h)
  PROVE  (b - a) % h = 0
  BY CongFlip, CongIs

\* Congruent numbers below the modulus are the same.
LEMMA BelowModulus ==
  ASSUME NEW h \in Nat \ {0}, NEW a \in 0 .. h - 1, NEW b \in 0 .. h - 1, Cong(a, b, h)
  PROVE  a = b
<1>1. a % h = b % h
  BY CongIs
<1> QED
  BY <1>1

\* A field that is congruent to a value is read as it, if the value fits.
LEMMA ReadingIs ==
  ASSUME NEW w \in {1, 2, 4}, NEW n \in Int, NEW m \in Int, (n - m) % Holds[w] = 0
  PROVE  LET h == Holds[w]
             stored == n % h
         IN  /\ Wrap(m) < h => Wrap(stored) = Wrap(m)
             /\ Wrap(m) < h \div 2 \/ Wrap(m) >= ValueMod - h \div 2 => Wrap(Signed(stored, h)) = Wrap(m)
<1> DEFINE h == Holds[w]
           half == h \div 2
           s == n % h
           v == Wrap(m)
           top == ValueMod
<1>1. h \in Nat \ {0} /\ top \in Nat \ {0} /\ v \in 0 .. top - 1
  BY Modulus
<1>2. Wrap(v) = v
  BY Modulus
<1>3. Cong(s, v, h)
  <2>1. Cong(m, v, h)
    BY Modulus
  <2>2. Cong(n, m, h)
    BY <1>1, CongIs
  <2>3. Cong(s, n, h) /\ s \in Int
    <3>1. s \in 0 .. h - 1
      BY <1>1
    <3>2. Cong(s, n, h)
      <4> HIDE DEF h
      <4> QED
        BY <1>1, ModCong, Zenon
    <3> HIDE DEF s, h
    <3> QED
      BY <1>1, <3>1, <3>2
  <2>4. Cong(s, m, h)
    BY <1>1, <2>2, <2>3, CongTrans
  <2> HIDE DEF s, v, h
  <2> QED
    BY <1>1, <2>1, <2>3, <2>4, CongTrans
<1>4. s \in 0 .. h - 1
  BY <1>1
<1>5. half \in Nat /\ half <= h - half /\ half <= h
  BY <1>1
<1>6. Signed(s, h) = IF s < half THEN s ELSE s - h
  BY DEF Signed
<1>7. top % h = 0
  <2>1. CASE w = 4
    BY <1>1, <2>1 DEF ValueMod
  <2>2. CASE w # 4
    BY <2>2, SourceAssumption DEF ValueMod
  <2> QED
    BY <2>1, <2>2
<1> HIDE DEF h, half, s, v, top
<1>8. ASSUME v < h PROVE s = v
  BY <1>1, <1>3, <1>4, <1>8, BelowModulus
<1>9. ASSUME v < half PROVE Signed(s, h) = v
  <2>1. s = v
    BY <1>1, <1>5, <1>8, <1>9
  <2> QED
    BY <1>6, <1>9, <2>1
<1>10. ASSUME v >= top - half PROVE Wrap(Signed(s, h)) = v
  <2> DEFINE d == top - v
             r == h - d
  <2>1. d \in 1 .. half /\ d \in Int
    BY <1>1, <1>5, <1>10
  <2>2. r \in 0 .. h - 1 /\ r >= half
    BY <1>1, <1>5, <2>1
  <2>3. Cong(v, r, h)
    <3>1. PICK k \in Int : top = k * h
      <4>1. top = (top \div h) * h + (top % h) /\ top \div h \in Int
        BY <1>1
      <4>2. top = (top \div h) * h
        BY <1>1, <1>7, <4>1
      <4> QED
        BY <4>1, <4>2
    <3>2. (k - 1) * h = k * h - h
      BY <1>1
    <3>3. v - r = (k - 1) * h /\ k - 1 \in Int
      BY <1>1, <3>1, <3>2
    <3> QED
      BY <3>3, CongBy
  <2>4. Cong(s, r, h)
    <3>1. s \in Int /\ v \in Int /\ r \in Int
      BY <1>1, <1>4, <2>2
    <3> HIDE DEF r
    <3> QED
      BY <1>1, <1>3, <2>3, <3>1, CongTrans
  <2>5. s = r
    <3> HIDE DEF r
    <3> QED
      BY <1>1, <1>4, <2>2, <2>4, BelowModulus
  <2>6. Signed(s, h) = v - top
    BY <1>1, <1>4, <1>5, <1>6, <2>1, <2>2, <2>5
  <2>7. Cong(v - top, v, top)
    <3>1. (v - top) - v = (-1) * top
      BY <1>1
    <3> QED
      BY <3>1, CongBy
  <2>8. Wrap(v - top) = Wrap(v)
    <3>1. v \in Int /\ v - top \in Int
      BY <1>1
    <3> QED
      BY <2>7, <3>1, Modulus DEF top
  <2> QED
    BY <1>2, <2>6, <2>8
<1>11. (v < h => Wrap(s) = v) /\ (v < half \/ v >= top - half => Wrap(Signed(s, h)) = v)
  BY <1>2, <1>8, <1>9, <1>10
<1> QED
  BY <1>11 DEF h, half, s, v, top

\* A field has its value modulo its width, or cannot be expressed.
LEMMA FieldLinks ==
  ASSUME IInv, Ready, stage \in {"done", "read"}, NEW f \in fields, NEW base \in Bases
  PROVE  \/ /\ Linked(f, base) \in Int /\ Meaning(f, base) \in Int
            /\ (Linked(f, base) - Meaning(f, base)) % Holds[f.width] = 0
         \/ Inexpressible(f)
<1> DEFINE target == TargetOf(Statements, placed, symbols, f)
           st == Statements[f.statement]
           h == Holds[f.width]
           keeps == Keeps(source.hunkExecutable, f.width)
           m == Meaning(f, base)
           still == Meaning(f, Zeros)
           linked == Linked(f, base)
<1>1. IsField(Statements, placed, symbols, f) /\ TypeInv
  BY DEF IInv, FieldInv, FieldsTo
<1>2. IsBase(base) /\ IsBase(Zeros)
  <2>1. base \in [Sections -> Nat]
    BY SourceAssumption
  <2> QED
    BY <2>1 DEF IsBase, Zeros
<1>3. h \in Nat \ {0}
  BY <1>1, FieldIs, Modulus
<1>4. /\ target \in Sections \cup {0} /\ (Distance(st) => target = 0)
      /\ f.value \in Int /\ still \in Int /\ Cong(still, f.value + ShiftTo(target, Zeros), h)
  BY <1>1, <1>2, FieldMeans
<1>5. linked = f.value + (IF keeps THEN ShiftTo(target, base) ELSE 0)
  BY <1>2, <1>4, LinkedIs
<1>6. ShiftTo(target, Zeros) = 0
  <2> HIDE DEF target
  <2> QED
    BY <1>4 DEF ShiftTo, Zeros
<1>7. CASE keeps /\ ~Distance(st)
  <2>1. m \in Int /\ Cong(m, f.value + ShiftTo(target, base), h)
    BY <1>1, <1>2, <1>7, FieldMeans
  <2>2. ShiftTo(target, base) \in Int
    <3> HIDE DEF target
    <3>1. target # 0 => base[target] \in Int
      BY <1>2, <1>4 DEF IsBase
    <3> QED
      BY <3>1 DEF ShiftTo
  <2>3. linked = f.value + ShiftTo(target, base)
    BY <1>5, <1>7
  <2> HIDE DEF m, linked, target, h
  <2>4. linked \in Int /\ Cong(m, linked, h)
    BY <1>4, <2>1, <2>2, <2>3
  <2>5. (linked - m) % h = 0
    BY <1>3, <2>1, <2>4, LinkedBy
  <2> QED
    BY <2>1, <2>4, <2>5 DEF m, linked, h
<1>8. CASE ~keeps \/ Distance(st)
  <2>1. linked = f.value
    <3>1. (IF keeps THEN ShiftTo(target, base) ELSE 0) = 0
      BY <1>4, <1>8 DEF ShiftTo
    <3> HIDE DEF linked, keeps, target
    <3> QED
      BY <1>4, <1>5, <3>1
  <2>2. Cong(still, linked, h) /\ linked \in Int
    <3> HIDE DEF linked, still, h, target
    <3>1. f.value + ShiftTo(target, Zeros) = linked
      BY <1>4, <1>6, <2>1
    <3> QED
      BY <1>4, <2>1, <3>1
  <2>3. CASE m = still
    <3> HIDE DEF m, still, linked, h
    <3>1. (linked - m) % h = 0
      BY <1>3, <1>4, <2>2, <2>3, LinkedBy
    <3>2. m \in Int /\ linked \in Int
      BY <1>4, <2>2, <2>3
    <3> QED
      BY <3>1, <3>2 DEF m, linked, h
  <2>4. CASE m # still
    <3>1. Moves(f)
      BY <2>4 DEF Moves
    <3> QED
      BY <1>8, <3>1 DEF Inexpressible, Keeps, Distance
  <2> QED
    BY <2>3, <2>4
<1> QED
  BY <1>7, <1>8

\* A field is read as its value unless that is too wide for it.
LEMMA FieldReads ==
  ASSUME IInv, Ready, stage \in {"done", "read"}, NEW f \in fields, NEW base \in Bases
  PROVE  \/ \E n \in Readings(f, base) : Wrap(n) = Wrap(Meaning(f, base))
         \/ TooWide(f, base) /\ (Linked(f, base) - Meaning(f, base)) % Holds[f.width] = 0
         \/ Inexpressible(f)
<1> DEFINE h == Holds[f.width]
           half == h \div 2
           linked == Linked(f, base)
           m == Meaning(f, base)
           v == Wrap(m)
           s == linked % h
           top == IF IsData(f) THEN h ELSE half
<1> SUFFICES ASSUME ~Inexpressible(f)
             PROVE  \/ \E n \in Readings(f, base) : Wrap(n) = v
                    \/ TooWide(f, base) /\ (linked - m) % h = 0
  OBVIOUS
<1>1. linked \in Int /\ m \in Int /\ (linked - m) % h = 0
  BY FieldLinks
<1>2. f.width \in {1, 2, 4}
  BY FieldIs DEF IInv, FieldInv, FieldsTo
<1>3. (v < h => Wrap(s) = v) /\ (v < half \/ v >= ValueMod - half => Wrap(Signed(s, h)) = v)
  <2> HIDE DEF linked, m
  <2> QED
    BY <1>1, <1>2, ReadingIs
<1>4. Readings(f, base) = {Signed(s, h)} \cup IF IsData(f) THEN {s} ELSE {}
  BY DEF Readings, Stored
<1>5. TooWide(f, base) <=> v >= top /\ v < ValueMod - half
  BY DEF TooWide
<1>6. v \in Int /\ h \in Int /\ half \in Int /\ ValueMod \in Int
  <2>1. h \in Nat \ {0} /\ ValueMod \in Nat \ {0}
    BY <1>2, Modulus
  <2>2. v \in Nat
    BY <1>1, Modulus
  <2> HIDE DEF h, v
  <2> QED
    BY <2>1, <2>2
<1> HIDE DEF h, half, linked, m, v, s
<1>7. CASE IsData(f)
  BY <1>1, <1>3, <1>4, <1>5, <1>6, <1>7
<1>8. CASE ~IsData(f)
  BY <1>1, <1>3, <1>4, <1>5, <1>6, <1>8
<1> QED
  BY <1>7, <1>8

\* An operand that vanished stands for zero.
LEMMA VanishedIsZero ==
  ASSUME IInv, Ready, NEW base \in Bases, NEW i \in Indices,
         Statements[i].kind = "instruction", Statements[i].form = "displacement", emitted[i] = 2
  PROVE  Wrap(MeaningOfOperand(i, base)) = 0
<1> DEFINE st == Statements[i]
           l == placed[i].logical
           z == Resolved(symbols, st, l, FALSE)
           y == Lookup(symbols, st.name)
<1>1. Indices = 1 .. Len(Statements) /\ Emitted = Len(Statements) /\ stage \in {"done", "written", "read"}
  BY SourceIs DEF IInv, TypeInv, Ready, Emitted
<1>2. z.code.size = 2
  BY <1>1 DEF IInv, FieldInv, OperandOf
<1>3. z.code = Encoded(IF Vanishes(symbols, st, l) THEN "indirect" ELSE st.form, z.value)
  BY ResolvedIs
<1>4. Vanishes(symbols, st, l)
  <2>1. ASSUME ~Vanishes(symbols, st, l) PROVE FALSE
    <3> DEFINE v == z.value
    <3>1. z.code = Encoded("displacement", v)
      BY <1>3, <2>1
    <3> HIDE DEF z, v
    <3>2. Encoded("displacement", v).size = 4
      BY EncodedIs
    <3> QED
      BY <1>2, <3>1, <3>2
  <2> QED
    BY <2>1
<1>5. st.form \notin Relative
  BY DEF Relative
<1>6. y.defined /\ y.constant /\ SymbolValue(symbols, st) = 0
  BY <1>4, <1>5 DEF Vanishes, ValueOf
<1>7. y.ok
  BY <1>6 DEF Lookup
<1>8. IsBase(base)
  BY SourceAssumption DEF IsBase
<1>9. Address(st.name, base) = y.value + Shift(y, base) /\ y.value \in Int
  BY <1>7, <1>8, NameIs
<1>10. Shift(y, base) = 0
  BY <1>6 DEF Shift
<1>11. st.addend \in Int
  BY SourceIs, StatementIs DEF IInv, TypeInv
<1>12. MeaningOfOperand(i, base) = Address(st.name, base) + st.addend - 0
  BY <1>5 DEF MeaningOfOperand
<1>13. MeaningOfOperand(i, base) = y.value + st.addend
  <2> HIDE DEF y, st
  <2> QED
    BY <1>9, <1>10, <1>11, <1>12
<1>14. SymbolValue(symbols, st) = Wrap(y.value + st.addend)
  BY <1>6 DEF SymbolValue
<1> QED
  BY <1>6, <1>13, <1>14

\* Wherever the sections are loaded, every field of the object, and of the data
\* that is read from the hunk file, is read as what the source says of its names,
\* with the sign of the fields of instructions extended, unless the file has no
\* relocation for it or the value is too wide for the field, which then holds its
\* low bits (m68k_source_evaluate_linear_expression, m68k_ir_apply_symbol_refs,
\* m68k_asm_emit_one_extension, should_emit_internal_abs_fixup,
\* write_preserved_internal_relocs_for_section, parse_reloc_block).
THEOREM FieldsLink == Spec => []LinkedAsWritten
<1>1. IInv => LinkedAsWritten
  <2> SUFFICES ASSUME IInv, stage \in {"done", "read"}, WellFormed, NEW base \in Bases
               PROVE  /\ \A f \in Held :
                           \/ \E n \in Readings(f, base) : Wrap(n) = Wrap(Meaning(f, base))
                           \/ TooWide(f, base) /\ (Linked(f, base) - Meaning(f, base)) % Holds[f.width] = 0
                           \/ Inexpressible(f)
                      /\ \A i \in Indices :
                           Statements[i].kind = "instruction" /\ Statements[i].form = "displacement" /\ emitted[i] = 2
                             => Wrap(MeaningOfOperand(i, base)) = 0
    BY DEF LinkedAsWritten
  <2>1. Ready
    BY DEF Ready
  <2> QED
    BY <2>1, FieldReads, VanishedIsZero DEF Held
<1> QED
  BY <1>1, Inductive, PTL

=============================================================================
