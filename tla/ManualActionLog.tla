-------------------------- MODULE ManualActionLog --------------------------
(***************************************************************************)
(* Undo and redo in the Manual Action Log (disasm/manual_actions.py,       *)
(* _project_actions, first pass).  Actions are never removed: an undo      *)
(* record switches the effect of an earlier action off, a redo record      *)
(* switches it on again.  An action is identified by its position.         *)
(***************************************************************************)
EXTENDS Naturals, Sequences

Switches == {"undo", "redo"}

\* The switches that count for action i: those that follow it.
SwitchesOf(L, i) ==
    {k \in DOMAIN L : k > i /\ L[k].kind \in Switches /\ L[k].target = i}

\* The last word on i is an undo.
Undone(L, i) ==
    \E u \in SwitchesOf(L, i) :
        /\ L[u].kind = "undo"
        /\ \A r \in SwitchesOf(L, i) : r > u => L[r].kind = "undo"

Active(L) == {i \in DOMAIN L : ~Undone(L, i)}

\* Source actions: what a rollback may name.
SourceActions(L) == {i \in DOMAIN L : L[i].kind = "edit"}
=============================================================================
