--------------------------- MODULE MCRestoration ---------------------------
(* Small instances of Restoration. *)
EXTENDS Restoration

CONSTANTS c1, c2, t1, t2, f1
=============================================================================
