--------------------------- MODULE HistoryPromise ---------------------------
(***************************************************************************)
(* What the two histories of a target promise to whoever reads them: they  *)
(* only grow, one of them at a time, every byte already written stays, and *)
(* a reader that comes without any lock never sees an invalid journal.     *)
(***************************************************************************)
EXTENDS DecisionJournal, SequencesExt

VARIABLES manual, journal

Init == manual = <<>> /\ journal = <<>>

AppendActions ==
    /\ IsStrictPrefix(manual, manual')
    /\ UNCHANGED journal

AppendDecisions ==
    /\ IsStrictPrefix(journal, journal')
    /\ ValidChain(journal')
    /\ UNCHANGED manual

Next == AppendActions \/ AppendDecisions

Spec == Init /\ [][Next]_<<manual, journal>>
=============================================================================
