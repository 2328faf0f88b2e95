-------------------------- MODULE MCSourceAssembly --------------------------
(***************************************************************************)
(* Short sources over two labels and two sections, with fields of 3, 5 and *)
(* 6 bits for those of 1, 2 and 4 bytes: short branches reach 4 bytes and  *)
(* logical offsets wrap around at 64.                                      *)
(***************************************************************************)
EXTENDS SourceAssembly, TLC

CONSTANT Length   \* the number of statements

Number(n) == [number |-> n, terms |-> <<>>]
Plus(n, a) == [number |-> n, terms |-> <<[sign |-> 1, name |-> a]>>]
Minus(a, b) == [number |-> 0, terms |-> <<[sign |-> 1, name |-> a], [sign |-> -1, name |-> b]>>]

Label(s, n) == [kind |-> "label", section |-> s, name |-> n]
Org(v) == [kind |-> "org", section |-> 1, value |-> v]
Even(s) == [kind |-> "even", section |-> s]
Reserve(s, n) == [kind |-> "reserve", section |-> s, size |-> n]
Data(s, w, e) == [kind |-> "data", section |-> s, width |-> w, items |-> <<e, e>>]
Code(s, f, n, a) == [kind |-> "instruction", section |-> s, form |-> f, name |-> n, addend |-> a]

Layouts == {Label(1, "a"), Label(1, "b"), Label(2, "b"), Org(60), Org(3), Even(1), Reserve(1, 2)}
Datas ==
  {Data(1, 1, Number(1)), Data(1, 4, Plus(1, "a")), Data(1, 2, Minus("a", "b")), Data(2, 4, Plus(0, "a")),
   Data(1, 1, Minus("b", "*"))}
Codes ==
  {Code(1, "plain", "", 0), Code(1, "absolute.l", "b", 0), Code(1, "absolute.w", "a", 2),
   Code(1, "displacement", "a", 0), Code(1, "branch.b", "a", 0), Code(1, "relative", "b", 0),
   Code(1, "displacement", "zero", 0), Code(2, "absolute.l", "base", 0)}

Needs(st) ==
  IF st.kind = "data" THEN {st.items[1].terms[t].name : t \in DOMAIN st.items[1].terms}
  ELSE IF st.kind = "instruction" THEN {st.name} ELSE {}
Closed(sts) ==
  UNION {Needs(sts[i]) : i \in DOMAIN sts} \cap {"a", "b"} \subseteq LabelNames(sts)
HasWord(t) ==
  \E i \in DOMAIN t : \/ t[i].kind = "data" /\ t[i].width = 2
                      \/ t[i].kind = "instruction" /\ t[i].form \in {"absolute.w", "displacement"}
Texts == {t \in [1 .. Length -> Layouts \cup Datas \cup Codes] : Closed(t)}

\* Longs and words relative to both sections, in any order: many groups and blocks.
Tables ==
  {<<Label(1, "a"), Label(2, "b"), d1, d2, d3>> :
     d1, d2, d3 \in {Data(1, 4, Plus(0, "a")), Data(1, 4, Plus(0, "b")), Data(1, 2, Plus(0, "a")), Data(2, 4, Plus(0, "a"))}}

\* Data that may not fill its section, a section without data, and a branch out
\* of reach.
Allocation(n) == <<Data(1, 1, Number(1)), Code(1, "absolute.l", n, 0)>>
Space == <<Label(1, "a"), Reserve(1, 12), Data(2, 4, Plus(0, "a"))>>
Far(f) == <<Code(1, f, "a", 0), Code(1, "plain", "", 0), Reserve(1, 18), Label(1, "a")>>

\* Any section may be BSS, also one that gets data.
Source(t, h, b, z) ==
  [statements |-> t, hunkExecutable |-> h, bss |-> b, allocated |-> [x \in {1, 2} |-> z]]

SmallSources ==
  {s \in {Source(t, h, {}, NoSize) : t \in Texts, h \in BOOLEAN} : s.hunkExecutable => HasWord(s.statements)}
  \cup {Source(t, h, b, NoSize) : t \in Tables, h \in BOOLEAN, b \in SUBSET {1, 2}}
  \cup {Source(Allocation(n), h, b, z) : n \in {"a", "zero"}, h \in BOOLEAN, b \in SUBSET {1}, z \in {6, 12}}
  \cup {Source(Space, h, b, 12) : h \in BOOLEAN, b \in SUBSET {1}}
  \cup {Source(Far(f), h, {}, 32) : f \in {"relative", "branch.b"}, h \in BOOLEAN}

SmallEquates == [zero |-> 0]
SmallBaseNames == [base |-> 1]
SmallHolds == (1 :> 8) @@ (2 :> 32) @@ (4 :> 64)
SmallBases == [{1, 2} -> {0, 5}]

=============================================================================
