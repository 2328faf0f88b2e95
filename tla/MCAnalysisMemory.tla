-------------------------- MODULE MCAnalysisMemory ---------------------------
(***************************************************************************)
(* A workflow arena that is large enough for what the analysis asks of it. *)
(***************************************************************************)
EXTENDS AnalysisMemory

CONSTANTS b1, b2

=============================================================================
