------------------------------- MODULE Mutex -------------------------------
(***************************************************************************)
(* What target_lock promises to the code that runs under it: at any time   *)
(* at most one client owns the target, and it changes hands only through   *)
(* being free.                                                             *)
(***************************************************************************)
CONSTANTS Clients, Nobody
VARIABLE owner

Init == owner = Nobody

Acquire(c) == owner = Nobody /\ owner' = c

\* Leaving the outermost block, or the death of the owner's process.
Release == owner # Nobody /\ owner' = Nobody

Next == (\E c \in Clients : Acquire(c)) \/ Release

Spec == Init /\ [][Next]_owner
=============================================================================
