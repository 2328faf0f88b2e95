-------------------------------- MODULE HunkFile --------------------------------
(***************************************************************************)
(* Amiga hunk files as src/src/platform_amiga_hunk.c writes and reads them *)
(* for objects that the assembler has made: for every section its size,    *)
(* its data and blocks of relocations.  A block has one kind of record and *)
(* holds groups, a group one target and its offsets.  A BSS section has    *)
(* its size and no data in the file.                                       *)
(*                                                                         *)
(* An object has for each of its sections the size, the size of the data   *)
(* and whether it is BSS, and its fixups in order.  Every fixup is         *)
(* absolute and has a target section; block and group are 0 unless it was  *)
(* read from a file.                                                       *)
(***************************************************************************)
EXTENDS Integers, Sequences, SequencesExt

\* canonical_internal_reloc_record_kind_for_fixup
RecordKind(f) ==
  CASE f.width = 4 -> "RELOC32" [] f.width = 2 -> "ABSRELOC16" [] OTHER -> "none"

\* validate_writable_object: data in a BSS section is not refused.
Writable(object) ==
  /\ \A s \in DOMAIN object.sections : object.sections[s].size % 4 = 0 /\ object.sections[s].data % 4 = 0
  /\ \A i \in DOMAIN object.fixups : RecordKind(object.fixups[i]) # "none"

---------------------------------------------------------------------------
(* Writing                                                                 *)
SameBlock(f, g) == RecordKind(f) = RecordKind(g) /\ f.block = g.block
SameGroup(f, g) ==
  /\ SameBlock(f, g)
  /\ IF f.group # 0 \/ g.group # 0 THEN f.group = g.group ELSE f.target = g.target

\* The elements of q at the positions in set, in their order.
Filtered(q, set) ==
  LET kept[n \in 0 .. Len(q)] ==
        IF n = 0 THEN <<>> ELSE IF n \in set THEN Append(kept[n - 1], q[n]) ELSE kept[n - 1]
  IN kept[Len(q)]

\* A sequence cut before every position in cuts, among them the first; and cut
\* wherever two neighbours do not belong together.
Pieces(q, cuts) ==
  LET starts == Filtered([i \in 1 .. Len(q) |-> i], cuts)
      last(k) == IF k = Len(starts) THEN Len(q) ELSE starts[k + 1] - 1
  IN [k \in 1 .. Len(starts) |-> SubSeq(q, starts[k], last(k))]
Runs(q, Together(_, _)) == Pieces(q, {i \in 1 .. Len(q) : i = 1 \/ ~Together(q[i - 1], q[i])})

\* write_preserved_internal_relocs_for_section
Group(fixups) == [target |-> fixups[1].target, offsets |-> [i \in DOMAIN fixups |-> fixups[i].offset]]
Block(fixups) ==
  LET groups == Runs(fixups, SameGroup)
  IN [kind |-> RecordKind(fixups[1]), groups |-> [k \in DOMAIN groups |-> Group(groups[k])]]
Blocks(fixups) ==
  LET blocks == Runs(fixups, SameBlock) IN [k \in DOMAIN blocks |-> Block(blocks[k])]

\* find_next_internal_reloc_for_section
OfSection(fixups, s) == Filtered(fixups, {i \in DOMAIN fixups : fixups[i].section = s})

\* write_section_payload: of a BSS section the size, and none of its data.
Payload(section) == IF section.bss THEN section.size ELSE section.data

\* amiga_hunk_write_buffer: an object file has no header and no sizes beyond
\* those of the data.
Written(object) ==
  [executable |-> object.executable,
   header |-> IF object.executable THEN [s \in DOMAIN object.sections |-> object.sections[s].size \div 4] ELSE <<>>,
   hunks |-> [s \in DOMAIN object.sections |->
                [bss |-> object.sections[s].bss,
                 longs |-> Payload(object.sections[s]) \div 4,
                 blocks |-> Blocks(OfSection(object.fixups, s))]]]

---------------------------------------------------------------------------
(* Reading                                                                 *)
\* map_relocation_kind
AlwaysLong(kind) == 4
WidthOf(kind) == IF kind = "RELOC32" THEN 4 ELSE 2

\* parse_reloc_block
ParsedGroup(s, b, g, block) ==
  LET group == block.groups[g]
  IN [i \in DOMAIN group.offsets |->
        [section |-> s, offset |-> group.offsets[i], width |-> WidthOf(block.kind),
         target |-> group.target, block |-> b, group |-> g]]
ParsedBlock(s, b, block) == FlattenSeq([g \in DOMAIN block.groups |-> ParsedGroup(s, b, g, block)])
ParsedBlocks(s, blocks) == FlattenSeq([b \in DOMAIN blocks |-> ParsedBlock(s, b, blocks[b])])

\* add_section_from_hunk
ParsedSection(file, s) ==
  LET hunk == file.hunks[s]
      payload == hunk.longs * 4
      allocated == IF file.executable THEN file.header[s] * 4 ELSE 0
  IN [bss |-> hunk.bss,
      size |-> IF allocated # 0 THEN allocated ELSE payload,
      data |-> IF hunk.bss THEN 0 ELSE payload]

\* amiga_hunk_read_buffer
Parsed(file) ==
  [executable |-> file.executable,
   sections |-> [s \in DOMAIN file.hunks |-> ParsedSection(file, s)],
   fixups |-> FlattenSeq([s \in DOMAIN file.hunks |-> ParsedBlocks(s, file.hunks[s].blocks)])]

=============================================================================
