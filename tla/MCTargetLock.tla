---------------------------- MODULE MCTargetLock ----------------------------
(* Two processes, one of them with two threads, nesting up to two levels. *)
EXTENDS TargetLock, TLC

CONSTANTS t1, t2, t3, server, cli

MCThreads == {t1, t2, t3}
MCProcesses == {server, cli}
MCProcessOf == (t1 :> server) @@ (t2 :> server) @@ (t3 :> cli)
=============================================================================
