--------------------------- MODULE MCReachableCode ---------------------------
(***************************************************************************)
(* Sections for ReachableCode: every way to fill their last words from a   *)
(* menu of instructions, in families that each bring one mechanism, and    *)
(* sections with two runs that may be wrappers of platform calls.          *)
(***************************************************************************)
EXTENDS ReachableCode

CONSTANTS
  Window   \* how many words are filled in every way

I(kind, len, to) ==
  [kind |-> kind, len |-> len, to |-> to, sets |-> Keep, exact |-> TRUE, payload |-> 0, api |-> FALSE]
None == I("none", 1, Nowhere)
Load(len, t) == [I("plain", len, Nowhere) EXCEPT !.sets = [to |-> t, resume |-> FALSE]]
Api == [I("call", 1, Nowhere) EXCEPT !.api = TRUE]
Inexact == [I("plain", 1, Nowhere) EXCEPT !.exact = FALSE]
CallWithPayload(t) == [I("call", 1, t) EXCEPT !.payload = 1]

Plain1 == I("plain", 1, Nowhere)
Plain2 == I("plain", 2, Nowhere)
Plain3 == I("plain", 3, Nowhere)
Stop == I("stop", 1, Nowhere)
If(t) == I("if", 1, t)
Branch(t) == I("branch", 1, t)
Call(t) == I("call", 1, t)
Through == I("through", 1, Nowhere)
LineA == I("linea", 1, Nowhere)
LongJump(t) == I("jump", 3, t)

\* An instruction that does not fit its place does not decode there; a
\* relocated operand of a long jump holds the offset of its target.
Fit(o, i) == IF o + i.len <= Size THEN i ELSE None
Linked(o, i, R) ==
  LET over == {r \in R : r.at > o /\ r.at + 2 <= o + i.len}
  IN  IF i.kind = "jump" /\ over # {} THEN [i EXCEPT !.to = (CHOOSE r \in over : TRUE).to] ELSE i
\* The last Window words are filled from the menu, nothing decodes before.
First == Size - Window
Fill(menu, R) ==
  {[o \in Offsets |-> IF o < First THEN None ELSE Linked(o, Fit(o, c[o]), R)] : c \in [First .. Size - 1 -> menu]}
Filled(menu, entries, relocations, structured) ==
  UNION {[code : Fill(menu, R), entries : entries, relocations : {R}, structured : structured] : R \in relocations}

w(i) == First + i
Reloc(at, to) == [at |-> w(at), to |-> w(to)]

\* Instructions that branch and fall into each other, a second entry, data.
FlowCases ==
  LET menu == {Plain1, Plain2, Plain3, If(w(2)), If(w(4)), Stop}
  IN  Filled(menu, {{w(0)}, {w(0), w(2)}}, {{}}, {{}}) \cup Filled(menu, {{w(0)}}, {{}}, {{w(3)}})
          \cup Filled({Plain2, If(w(1))}, {{w(0), w(4)}}, {{}}, {{}})
\* A register loaded with an address and jumped through.
TraceCases ==
  Filled({Plain1, Load(1, w(3)), Load(1, w(2)), Branch(w(3)), Through, Call(w(3))}, {{w(0)}}, {{}}, {{}})
\* Long jumps whose operand is relocated, labels and relocations in the way,
\* of instructions that overlap as well.
RelocationCases ==
  Filled({Plain1, Plain2, Stop, LongJump(w(1)), If(w(3))}, {{w(0)}},
         {{Reloc(0, 1)}, {Reloc(1, 1)}, {Reloc(1, 2)}, {Reloc(2, 2)}, {Reloc(1, 4), Reloc(3, 2)}}, {{}})
  \cup Filled({Plain2, Plain3, Stop}, {{w(0), w(2)}}, {{Reloc(2, 4)}, {Reloc(3, 3)}}, {{}})
\* Platform calls, inline payloads, unsafe instructions, an entry at the end.
PlatformCases ==
  Filled({Plain2, Stop, LineA, CallWithPayload(Nowhere), If(w(3)), Inexact}, {{w(0), Size}}, {{}}, {{}})
  \cup Filled({Plain1, LineA, Branch(Outside)}, {{w(0), w(1)}}, {{}}, {{}})

\* After a first word, runs that may be wrappers of platform calls.
Run(first, last) == <<[first EXCEPT !.len = 3], None, None, Api, last>>
WrapperCases ==
  {[code |-> [o \in Offsets |-> IF o = 0 THEN head ELSE IF o <= 5 THEN a[o] ELSE IF o <= 10 THEN b[o - 5] ELSE None],
    entries |-> {0}, relocations |-> R, structured |-> D] :
     head \in {Stop, Plain1},
     a \in {Run(Plain1, l) : l \in {Stop, Plain1, Inexact}}, b \in {Run(i, Stop) : i \in {Plain1, Inexact}},
     R \in SUBSET {[at |-> 2, to |-> 0], [at |-> 7, to |-> 0], [at |-> 3, to |-> 6], [at |-> 8, to |-> 1]},
     D \in {{}, {4}}}

\* A start is evicted after its tail has been given to another instruction.
EvictionCase ==
  [code |-> [o \in Offsets |->
               CASE o = 0 -> If(2) [] o = 2 -> I("if", 3, 6) [] o = 6 -> Plain1 [] o = 7 -> If(4)
                 [] o \in {1, 3, 4, 5} -> Plain2 [] OTHER -> Stop],
   entries |-> {0, 7}, relocations |-> {}, structured |-> {}]

\* A start that gave way takes the place of another in its turn.
ReturningCase ==
  [code |-> [o \in Offsets |->
               CASE o = 0 -> If(2) [] o = 1 -> [Stop EXCEPT !.len = 2] [] o = 2 -> Plain3 [] o = 4 -> Plain2
                 [] o = 5 -> [Branch(7) EXCEPT !.len = 2] [] o = 6 -> [Through EXCEPT !.len = 2]
                 [] o = 7 -> [Branch(4) EXCEPT !.sets = [to |-> 9, resume |-> FALSE]] [] o = 8 -> If(4)
                 [] o = 9 -> Branch(6) [] OTHER -> None],
   entries |-> {0, 8, 9}, relocations |-> {}, structured |-> {}]

TheCases == {EvictionCase, ReturningCase} \cup FlowCases \cup TraceCases \cup RelocationCases \cup PlatformCases \cup WrapperCases

=============================================================================
