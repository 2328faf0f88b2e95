-------------------------- MODULE DecisionJournal --------------------------
(***************************************************************************)
(* The Decision Journal of a target as a value: what makes a sequence of   *)
(* records a valid journal, and which decisions it makes effective         *)
(* (disasm/decision_journal.py).                                           *)
(*                                                                         *)
(* A record stands at a position of an append-only file, and the position  *)
(* names it: prev, the hash of the record before, is that record's         *)
(* position, and a supersession names the position it supersedes.  A       *)
(* decision id (field id) is a fresh uuid, or a name that can come twice:  *)
(* one the cascade tool derives from a fact, or one the caller gives, of   *)
(* his own or that of a record in the journal.                             *)
(***************************************************************************)
EXTENDS Naturals, Sequences

CONSTANTS
    ToolFacts,  \* facts the analysis tools decide on
    NoPrev,     \* JSON null: prev of the first record
    Nothing     \* a field the record does not have, or a fresh uuid

\* A position is no fact and no missing field.
ASSUME NamesAssumption == Nothing \notin Nat /\ \A fact \in ToolFacts : fact \notin Nat

Verdicts == {"accept", "defer", "reject"}

Superseded(J) == {J[i].supersedes : i \in {k \in DOMAIN J : J[k].action = "supersede"}}

\* Non-superseded decisions; supersessions themselves decide nothing.
Live(J) == {i \in DOMAIN J : J[i].action \in Verdicts /\ i \notin Superseded(J)}

DecisionsOn(J, subject) == {i \in Live(J) : J[i].subject = subject}

\* mutated: the first record is not told from the others
LastPosition(J) == Len(J)

\* decision_journal_next_prev: what the next record's prev has to be.
NextPrev(J) == IF J = <<>> THEN NoPrev ELSE Len(J)

\* One of the records before position i has this id: by name, or as the uuid of
\* the record at position id.
Taken(J, i, id) == id # Nothing /\ \E k \in 1..(i - 1) : id \in {k, J[k].id}

\* The record at i links to the one before it, repeats no decision id, and
\* supersedes only an id seen so far (the code adds its own id first).
ValidRecord(J, i) ==
    /\ J[i].prev = IF i = 1 THEN NoPrev ELSE i - 1
    /\ ~Taken(J, i, J[i].id)
    /\ J[i].action = "supersede" => J[i].supersedes \in 1..i

ValidChain(J) == \A i \in DOMAIN J : ValidRecord(J, i)

\* Accepted tool facts reach the effective metadata, and through it the analysis.
AcceptedFacts(J) ==
    {J[i].subject : i \in {k \in Live(J) : J[k].action = "accept" /\ J[k].subject \in ToolFacts}}
=============================================================================
