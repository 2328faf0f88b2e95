--------------------------- MODULE MCListingJobs ---------------------------
(* Small instances of ListingJobs. *)
EXTENDS ListingJobs, TLC

CONSTANTS c1, c2

MCClients == {c1, c2}

\* For safety properties only.
ClientsAlike == Permutations(MCClients)
=============================================================================
