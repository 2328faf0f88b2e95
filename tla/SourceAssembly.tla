---------------------------- MODULE SourceAssembly ----------------------------
(***************************************************************************)
(* From parsed source to object code (src/src/m68k_source_file_emit.c and  *)
(* what it calls): passes over the statements give every statement its     *)
(* place and every label its value until no instruction changes its size;  *)
(* one more pass writes the sections and their fixups.  The object then    *)
(* goes into an Amiga hunk file, which a loader or the project itself reads.*)
(*                                                                         *)
(* A place has two numbers: the offset in the section and the logical      *)
(* offset, which ORG sets.  A label whose two numbers differ is absolute   *)
(* and behaves like a constant; any other label is relative to its section *)
(* and needs a fixup where its address is stored.                          *)
(*                                                                         *)
(* A source is what the parser hands over: the statements behind a SECTION *)
(* directive, without END, which can only be last.  Of the encoder there   *)
(* is what decides about sizes and fields.                                 *)
(***************************************************************************)
EXTENDS HunkFile, FiniteSets, FiniteSetsExt

CONSTANTS
  Sources,    \* the sources: statements, BSS sections, section sizes, is it an Amiga hunk executable
  Sections,   \* 1 .. the number of sections
  Equates,    \* value of each name defined by EQU
  BaseNames,  \* section of each name of the form __section_n_base
  Holds,      \* what fields of 1, 2 and 4 bytes count modulo: 2^8, 2^16, 2^32
  MaxPasses,  \* the limit of layout passes: 8
  NoSize,     \* a section without an allocation size
  Bases       \* where a loader may put the sections

\* What the parser hands over.
Forms == {"plain", "absolute.l", "absolute.w", "displacement", "branch.b", "relative"}
Expression == [number : Int, terms : Seq([sign : {1, -1}, name : STRING])]
Statement ==
  [kind : {"label"}, section : Sections, name : STRING]
  \cup [kind : {"org"}, section : Sections, value : 0 .. Holds[4] - 1]
  \cup [kind : {"even"}, section : Sections]
  \cup [kind : {"reserve"}, section : Sections, size : Nat]
  \cup [kind : {"data"}, section : Sections, width : {1, 2, 4}, items : Seq(Expression)]
  \cup [kind : {"instruction"}, section : Sections, form : Forms, name : STRING, addend : Int]
SourceType ==
  [statements : Seq(Statement), hunkExecutable : BOOLEAN, bss : SUBSET Sections,
   allocated : [Sections -> Nat \cup {NoSize}]]

ASSUME SourceAssumption ==
  /\ IsFiniteSet(Sections) /\ Sections = 1 .. Cardinality(Sections)
  /\ Holds \in [{1, 2, 4} -> Nat \ {0}]
  /\ \A w \in {1, 2} : Holds[4] % Holds[w] = 0
  /\ Holds[4] % 2 = 0
  /\ NoSize \notin Nat
  /\ MaxPasses \in Nat \ {0}
  /\ \A name \in DOMAIN Equates : Equates[name] \in 0 .. Holds[4] - 1
  /\ \A name \in DOMAIN BaseNames : BaseNames[name] \in Sections
  /\ Bases \subseteq [Sections -> Nat]
  /\ Sources \subseteq SourceType

VARIABLES
  source,     \* the source
  stage,      \* layout, emit, done, written, read or failed
  pass,       \* pass_index + 1
  next,       \* the statement that is looked at
  changed,    \* has the size of an instruction changed in this pass
  offsets,    \* where the next statement of each section goes
  logicals,   \* the same after ORG: logical_offsets
  placed,     \* offset, logical_offset and size of every statement
  symbols,    \* the labels of the symbol table
  writers,    \* bytes written to each section
  emitted,    \* bytes written for each statement
  fields,     \* the fields with a value that were written
  fixups,     \* object->fixups
  sizes,      \* section->size
  file,       \* the hunk file
  loaded      \* the object that was read from it

layoutVars == <<pass, changed, offsets, logicals, placed, symbols>>
fileVars == <<file, loaded>>
objectVars == <<writers, emitted, fields, fixups, sizes, fileVars>>
vars == <<source, stage, next, layoutVars, objectVars>>

Statements == source.statements
Stmt == Statements[next]
S == Stmt.section
ValueMod == Holds[4]
Wrap(n) == n % ValueMod
Zeros == [s \in Sections |-> 0]

\* The sum of a sequence of numbers.
Total(q) ==
  LET sum[n \in 0 .. Len(q)] == IF n = 0 THEN 0 ELSE sum[n - 1] + q[n]
  IN sum[Len(q)]

---------------------------------------------------------------------------
(* Symbols and expressions                                                 *)
LabelNames(statements) ==
  {statements[i].name : i \in {i \in DOMAIN statements : statements[i].kind = "label"}}

\* m68k_source_model_lookup_symbol: the table holds the labels.
Lookup(table, name) ==
  IF name \in DOMAIN Equates
    THEN [ok |-> TRUE, defined |-> TRUE, constant |-> TRUE, value |-> Equates[name], section |-> 0]
  ELSE IF name \in DOMAIN table
    THEN LET y == table[name] IN
         [ok |-> TRUE, defined |-> y.defined, constant |-> y.absolute, value |-> y.value, section |-> y.section]
  ELSE IF name \in DOMAIN BaseNames
    THEN [ok |-> TRUE, defined |-> TRUE, constant |-> FALSE, value |-> 0, section |-> BaseNames[name]]
  ELSE [ok |-> FALSE, defined |-> FALSE, constant |-> FALSE, value |-> 0, section |-> 0]

\* expr_lookup_symbol_with_current: "*" is a number, also where nothing is absolute.
LookupAt(table, name, current) ==
  IF name = "*" THEN [ok |-> TRUE, defined |-> TRUE, constant |-> TRUE, value |-> current, section |-> 0]
  ELSE Lookup(table, name)

\* m68k_source_parse_linear_expression and m68k_source_evaluate_linear_expression:
\* a number and signed names; what remains may be relative to one section.
Evaluate(table, expr, current) ==
  LET term(t) == LookupAt(table, expr.terms[t].name, current)
      relative == {t \in DOMAIN expr.terms : ~term(t).constant}
      moving == {t \in relative : relative = {t} /\ expr.terms[t].sign = 1}
      cancels == \E t, u \in relative :
                   /\ relative = {t, u} /\ t < u /\ expr.terms[t].sign = 1 /\ expr.terms[u].sign = -1
                   /\ term(t).section = term(u).section
  IN [ok |-> /\ \A t \in DOMAIN expr.terms : term(t).ok /\ term(t).defined
             /\ relative = {} \/ moving # {} \/ cancels,
      value |-> Wrap(expr.number + Total([t \in DOMAIN expr.terms |-> expr.terms[t].sign * term(t).value])),
      target |-> IF moving = {} THEN 0 ELSE term(CHOOSE t \in moving : TRUE).section]

---------------------------------------------------------------------------
(* Instructions: at most one operand with a symbol                         *)
Relative == {"branch.b", "relative"}

\* m68k_asm_value_fits_absolute_word
FitsAbsoluteWord(v) == v < Holds[2] \/ v >= ValueMod - Holds[2] \div 2

\* m68k_ir_encode_one: the size, and the place and the width of the field.
\* A short branch whose byte would be zero gets a word behind it.
Encoded(form, value) ==
  CASE form \in {"plain", "indirect"} -> [size |-> 2, at |-> 0, width |-> 0]
    [] form = "branch.b" /\ value % Holds[1] # 0 -> [size |-> 2, at |-> 1, width |-> 1]
    [] form = "absolute.l" -> [size |-> 6, at |-> 2, width |-> 4]
    [] OTHER -> [size |-> 4, at |-> 2, width |-> 2]

\* m68k_source_resolve_instruction_operands and m68k_ir_apply_symbol_refs; a
\* displacement that is the constant zero disappears.
Resolved(table, stmt, logical, allowUndefined) ==
  LET y == Lookup(table, stmt.name)
      symbol == Wrap((IF y.defined THEN y.value ELSE 0) + stmt.addend)
      value == IF stmt.form \in Relative THEN Wrap(symbol - (logical + 2)) ELSE symbol
      vanishes == stmt.form = "displacement" /\ y.defined /\ y.constant /\ value = 0
      encoded == Encoded(IF vanishes THEN "indirect" ELSE stmt.form, value)
  IN IF stmt.form = "plain" THEN [ok |-> TRUE, value |-> 0, target |-> 0, code |-> Encoded("plain", 0)]
     ELSE [ok |-> y.ok /\ (y.defined \/ allowUndefined) /\ (stmt.form = "absolute.w" => FitsAbsoluteWord(value)),
           value |-> value,
           target |-> IF y.defined /\ ~y.constant /\ stmt.form \notin Relative THEN y.section ELSE 0,
           code |-> encoded]

---------------------------------------------------------------------------
(* m68k_source_file_layout                                                 *)
Laying(kind) == stage = "layout" /\ next <= Len(Statements) /\ Stmt.kind = kind
Put(size) == placed' = [placed EXCEPT ![next] = [offset |-> offsets[S], logical |-> logicals[S], size |-> size]]
Advance(size) ==
  /\ Put(size)
  /\ offsets' = [offsets EXCEPT ![S] = Wrap(@ + size)]
  /\ logicals' = [logicals EXCEPT ![S] = Wrap(@ + size)]
  /\ next' = next + 1
  /\ UNCHANGED <<source, stage, pass, symbols, objectVars>>

NeverAbsolute == FALSE
IsAbsolute == logicals[S] # offsets[S]
LayoutLabel ==
  /\ Laying("label")
  /\ symbols' = [symbols EXCEPT ![Stmt.name] =
                   [defined |-> TRUE, absolute |-> IsAbsolute, section |-> S, value |-> logicals[S]]]
  /\ Put(0)
  /\ next' = next + 1
  /\ UNCHANGED <<source, stage, pass, changed, offsets, logicals, objectVars>>

LayoutOrg ==
  /\ Laying("org")
  /\ placed' = [placed EXCEPT ![next] = [offset |-> offsets[S], logical |-> Stmt.value, size |-> 0]]
  /\ logicals' = [logicals EXCEPT ![S] = Stmt.value]
  /\ next' = next + 1
  /\ UNCHANGED <<source, stage, pass, changed, offsets, symbols, objectVars>>

\* The parity that counts is the one of the logical offset.
LayoutEven == Laying("even") /\ Advance(logicals[S] % 2) /\ UNCHANGED changed
LayoutData == Laying("data") /\ Advance(Stmt.width * Len(Stmt.items)) /\ UNCHANGED changed
LayoutReserve == Laying("reserve") /\ Advance(Stmt.size) /\ UNCHANGED changed

LayoutResolved == Resolved(symbols, Stmt, logicals[S], TRUE)
KeepsFirstSize(size) == changed
HasChanged(size) == changed \/ placed[next].size # size
LayoutInstruction ==
  /\ Laying("instruction") /\ LayoutResolved.ok
  /\ changed' = HasChanged(LayoutResolved.code.size)
  /\ Advance(LayoutResolved.code.size)
Fail == stage' = "failed" /\ UNCHANGED <<source, next, layoutVars, objectVars>>
LayoutFails == Laying("instruction") /\ ~LayoutResolved.ok /\ Fail

EndOfPass == stage = "layout" /\ next > Len(Statements)
NextPass ==
  /\ EndOfPass /\ changed /\ pass < MaxPasses
  /\ pass' = pass + 1 /\ next' = 1 /\ changed' = FALSE
  /\ offsets' = Zeros /\ logicals' = Zeros
  /\ UNCHANGED <<source, stage, placed, symbols, objectVars>>
DidNotStabilize == EndOfPass /\ changed /\ pass = MaxPasses /\ Fail
LayoutDone ==
  /\ EndOfPass /\ ~changed
  /\ stage' = "emit" /\ next' = 1
  /\ UNCHANGED <<source, layoutVars, objectVars>>

---------------------------------------------------------------------------
(* m68k_source_file_emit_object                                            *)
Emitting(kinds) == stage = "emit" /\ next <= Len(Statements) /\ Stmt.kind \in kinds
InPlace == writers[S] = placed[next].offset

Write(size, newFields, newFixups) ==
  /\ writers' = [writers EXCEPT ![S] = @ + size]
  /\ emitted' = [emitted EXCEPT ![next] = size]
  /\ fields' = fields \cup newFields
  /\ fixups' = fixups \o newFixups
  /\ next' = next + 1
  /\ UNCHANGED <<source, stage, layoutVars, sizes, fileVars>>

\* should_emit_internal_abs_fixup
KeepsFixup(width) == ~(source.hunkExecutable /\ width = 2)
Field(item, at, width, value) ==
  [section |-> S, statement |-> next, item |-> item, at |-> at, width |-> width, value |-> value % Holds[width]]
\* The addend is the value of the field.
Fixup(at, width, target) ==
  [section |-> S, offset |-> at, width |-> width, target |-> target, block |-> 0, group |-> 0]
Kept(new) == Filtered(new, {i \in DOMAIN new : new[i].target # 0 /\ KeepsFixup(new[i].width)})

EmitNothing == Emitting({"label", "org", "reserve"}) /\ Write(0, {}, <<>>)
EmitGap == Emitting({"even", "data", "instruction"}) /\ ~InPlace /\ Fail
EmitEven == Emitting({"even"}) /\ InPlace /\ Write(writers[S] % 2, {}, <<>>)

\* emit_data_statement
ItemAt(k) == writers[S] + (k - 1) * Stmt.width
Item(k) == Evaluate(symbols, Stmt.items[k], Wrap(placed[next].logical + (k - 1) * Stmt.width))
ItemsOk == \A k \in DOMAIN Stmt.items : Item(k).ok
EmitData ==
  /\ Emitting({"data"}) /\ InPlace /\ ItemsOk
  /\ Write(Stmt.width * Len(Stmt.items),
            {Field(k, ItemAt(k), Stmt.width, Item(k).value) : k \in DOMAIN Stmt.items},
            Kept([k \in DOMAIN Stmt.items |-> Fixup(ItemAt(k), Stmt.width, Item(k).target)]))
EmitDataFails == Emitting({"data"}) /\ InPlace /\ ~ItemsOk /\ Fail

\* emit_instruction_statement: the target of a fixup is looked up among the
\* labels, where the base of a section is not found.
EmitResolved == Resolved(symbols, Stmt, placed[next].logical, FALSE)
InstructionOk == EmitResolved.ok /\ (EmitResolved.target # 0 => Stmt.name \in DOMAIN symbols)
EmitInstruction ==
  /\ Emitting({"instruction"}) /\ InPlace /\ InstructionOk
  /\ LET code == EmitResolved.code
         at == placed[next].offset + code.at
     IN Write(code.size,
               IF code.width = 0 THEN {} ELSE {Field(1, at, code.width, EmitResolved.value)},
               Kept(<<Fixup(at, code.width, EmitResolved.target)>>))
EmitInstructionFails == Emitting({"instruction"}) /\ InPlace /\ ~InstructionOk /\ Fail

\* The end: the sizes of the sections.
EmitEnded == stage = "emit" /\ next > Len(Statements)
TooSmall == \E s \in Sections : source.allocated[s] # NoSize /\ source.allocated[s] < writers[s]
Finish ==
  /\ EmitEnded /\ ~TooSmall
  /\ sizes' = [s \in Sections |-> IF source.allocated[s] = NoSize THEN writers[s] ELSE source.allocated[s]]
  /\ stage' = "done"
  /\ UNCHANGED <<source, next, layoutVars, writers, emitted, fields, fixups, fileVars>>
AllocationTooSmall == EmitEnded /\ TooSmall /\ Fail

\* m68k_source_file_build_ir: data_size of a section
EndsOfData(s) ==
  {placed[i].offset + placed[i].size :
     i \in {i \in DOMAIN Statements : Statements[i].section = s /\ Statements[i].kind \in {"even", "data", "instruction"}}}
IrDataSize(s) == Max(EndsOfData(s) \cup {0})

---------------------------------------------------------------------------
(* The file, written as soon as the object is there                        *)
Object ==
  [executable |-> source.hunkExecutable,
   sections |-> [s \in Sections |-> [size |-> sizes[s], data |-> writers[s], bss |-> s \in source.bss]],
   fixups |-> fixups]
WriteFile ==
  /\ stage = "done" /\ Writable(Object)
  /\ file' = <<Written(Object)>>
  /\ stage' = "written"
  /\ UNCHANGED <<source, next, layoutVars, writers, emitted, fields, fixups, sizes, loaded>>
NotWritable == stage = "done" /\ ~Writable(Object) /\ Fail
ReadFile ==
  /\ stage = "written"
  /\ loaded' = <<Parsed(file[1])>>
  /\ stage' = "read"
  /\ UNCHANGED <<source, next, layoutVars, writers, emitted, fields, fixups, sizes, file>>

---------------------------------------------------------------------------
Init ==
  /\ source \in Sources
  /\ stage = "layout" /\ pass = 1 /\ next = 1 /\ changed = FALSE
  /\ offsets = Zeros /\ logicals = Zeros
  /\ placed = [i \in DOMAIN Statements |-> [offset |-> 0, logical |-> 0, size |-> 0]]
  /\ symbols = [n \in LabelNames(Statements) |-> [defined |-> FALSE, absolute |-> FALSE, section |-> 0, value |-> 0]]
  /\ writers = Zeros /\ emitted = [i \in DOMAIN Statements |-> 0]
  /\ fields = {} /\ fixups = <<>> /\ sizes = Zeros
  /\ file = <<>> /\ loaded = <<>>

Ended == stage \in {"read", "failed"} /\ UNCHANGED vars
Next ==
  \/ LayoutLabel \/ LayoutOrg \/ LayoutEven \/ LayoutData \/ LayoutReserve
  \/ LayoutInstruction \/ LayoutFails \/ NextPass \/ DidNotStabilize \/ LayoutDone
  \/ EmitNothing \/ EmitGap \/ EmitEven \/ EmitData \/ EmitDataFails
  \/ EmitInstruction \/ EmitInstructionFails \/ Finish \/ AllocationTooSmall
  \/ WriteFile \/ NotWritable \/ ReadFile \/ Ended
Spec == Init /\ [][Next]_vars

---------------------------------------------------------------------------
(* Properties                                                              *)
Indices == DOMAIN Statements
Place == [offset : Nat, logical : Nat, size : Nat]
TypeOK ==
  /\ source \in Sources /\ stage \in {"layout", "emit", "done", "written", "read", "failed"}
  /\ pass \in 1 .. MaxPasses /\ next \in 1 .. Len(Statements) + 1 /\ changed \in BOOLEAN
  /\ offsets \in [Sections -> Nat] /\ logicals \in [Sections -> 0 .. ValueMod - 1]
  /\ placed \in [Indices -> Place]
  /\ writers \in [Sections -> Nat] /\ emitted \in [Indices -> Nat] /\ sizes \in [Sections -> Nat]

\* Where everything came to lie, from what was written and not from the layout.
Extent(i) == IF Statements[i].kind = "reserve" THEN Statements[i].size ELSE emitted[i]
Alike(i, j) == Statements[i].section = Statements[j].section
Physical(i) == Total([j \in 1 .. i - 1 |-> IF Alike(i, j) THEN Extent(j) ELSE 0])
Orgs(i) == {j \in 1 .. i - 1 : Alike(i, j) /\ Statements[j].kind = "org"}
Logical(i) ==
  IF Orgs(i) = {} THEN Physical(i)
  ELSE LET o == Max(Orgs(i)) IN Wrap(Statements[o].value + Physical(i) - Physical(o))

\* What the code leaves to the author: a label has one definition, ORG does
\* not turn odd into even, as EVEN counts logical offsets in the layout and
\* bytes in the emission, and a section ends within the 32 bits of an offset.
Definitions(name) == {i \in Indices : Statements[i].kind = "label" /\ Statements[i].name = name}
WellFormed ==
  /\ \A n \in LabelNames(Statements) : Cardinality(Definitions(n)) = 1
  /\ \A i \in Indices : Statements[i].kind = "even" => placed[i].logical % 2 = placed[i].offset % 2
  /\ \A i \in Indices : Physical(i) + Extent(i) < ValueMod

\* The object has every statement where the last pass of the layout put it,
\* with the size it had there, although sizes are guessed from symbols that
\* are not known yet and every instruction is resolved anew when it is
\* written.  The size of the data is the one the source IR reports.
LaidOut ==
  /\ \A i \in Indices :
       /\ placed[i].size = Extent(i)
       /\ Statements[i].kind # "org" => placed[i].offset = Physical(i) /\ placed[i].logical = Logical(i)
  /\ \A s \in Sections : IrDataSize(s) = writers[s]
EmittedAsLaidOut == stage = "done" /\ WellFormed => LaidOut

\* The file gives the object back: its data, except what was written to BSS
\* sections, which is dropped without a word, and the sizes of its sections,
\* although an object file has no room for an allocation beyond the data; and
\* what was read is written as the same file again.
ReadAsWritten ==
  stage = "read" =>
    /\ \A s \in Sections : loaded[1].sections[s].data = IF s \in source.bss THEN 0 ELSE writers[s]
    /\ \A s \in Sections :
         source.hunkExecutable \/ s \in source.bss => loaded[1].sections[s].size = sizes[s]
    /\ Writable(loaded[1]) /\ Written(loaded[1]) = file[1]

\* Addresses when the loader has put section s at base[s].
AddressAt(i, base) ==
  IF Logical(i) # Physical(i) THEN Logical(i) ELSE base[Statements[i].section] + Physical(i)
Address(name, base) ==
  IF name \in DOMAIN Equates THEN Equates[name]
  ELSE IF Definitions(name) # {} THEN AddressAt(Max(Definitions(name)), base)
  ELSE base[BaseNames[name]]

\* What the source says a field holds then.
MeaningOfItem(i, k, base) ==
  LET expr == Statements[i].items[k] IN
  expr.number + Total(
    [t \in DOMAIN expr.terms |-> expr.terms[t].sign *
      (IF expr.terms[t].name = "*" THEN Logical(i) + (k - 1) * Statements[i].width
       ELSE Address(expr.terms[t].name, base))])
MeaningOfOperand(i, base) ==
  LET s == Statements[i] IN
  Address(s.name, base) + s.addend - (IF s.form \in Relative THEN AddressAt(i, base) + 2 ELSE 0)
Meaning(f, base) ==
  IF Statements[f.statement].kind = "data" THEN MeaningOfItem(f.statement, f.item, base)
  ELSE MeaningOfOperand(f.statement, base)

\* What it does hold when the loader has applied the relocations: those of the
\* object, and, once it is read, those of the file.  One that is applied twice
\* counts twice.
Relocations == IF stage = "read" THEN loaded[1].fixups ELSE fixups
Relocates(x, f) == x.section = f.section /\ x.offset = f.at /\ x.width = f.width
Linked(f, base) ==
  f.value + Total([i \in DOMAIN Relocations |->
                     IF Relocates(Relocations[i], f) THEN base[Relocations[i].target] ELSE 0])

\* What is read from it: the CPU extends the sign of a field of an instruction,
\* data may be meant either way.
IsData(f) == Statements[f.statement].kind = "data"
Stored(f, base) == Linked(f, base) % Holds[f.width]
Signed(n, h) == IF n < h \div 2 THEN n ELSE n - h
Readings(f, base) ==
  {Signed(Stored(f, base), Holds[f.width])} \cup IF IsData(f) THEN {Stored(f, base)} ELSE {}

\* What does not fit into its field and is not refused, but cut: branches and
\* displacements out of reach, data, and words from half of Holds[2] on, which
\* FitsAbsoluteWord lets pass.
TooWide(f, base) ==
  LET h == Holds[f.width]
      value == Wrap(Meaning(f, base))
  IN value >= (IF IsData(f) THEN h ELSE h \div 2) /\ value < ValueMod - h \div 2

\* What cannot be expressed and is not refused either: words relative to a section in
\* an Amiga hunk executable, and distances to another section or between what
\* is absolute and what is not.
Moves(f) == \E base \in Bases : Meaning(f, base) # Meaning(f, Zeros)
Inexpressible(f) ==
  /\ Moves(f)
  /\ \/ source.hunkExecutable /\ f.width = 2
     \/ Statements[f.statement].kind = "instruction" /\ Statements[f.statement].form \in Relative

\* Only data that the file has can be relocated once it is read.
Held == {f \in fields : stage = "read" => f.at < loaded[1].sections[f.section].data}

\* Wherever the sections are loaded, every field that names a symbol is read as
\* what the source says, in absolute, relative and mixed terms, before and
\* after ORG: labels are relocated exactly where the address moves.  Of a value
\* too wide for its field it holds the low bits.  An operand that vanished stood
\* for zero.  It is so for the object and for what is read from the file, where
\* the relocations are grouped by kind and target.
LinkedAsWritten ==
  stage \in {"done", "read"} /\ WellFormed =>
    \A base \in Bases :
      /\ \A f \in Held :
           \/ \E n \in Readings(f, base) : Wrap(n) = Wrap(Meaning(f, base))
           \/ TooWide(f, base) /\ (Linked(f, base) - Meaning(f, base)) % Holds[f.width] = 0
           \/ Inexpressible(f)
      /\ \A i \in Indices : Statements[i].kind = "instruction" /\ Statements[i].form = "displacement" /\ emitted[i] = 2
                              => Wrap(MeaningOfOperand(i, base)) = 0

=============================================================================
