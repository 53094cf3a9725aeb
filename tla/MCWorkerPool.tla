----------------------------- MODULE MCWorkerPool -----------------------------
(* Small instances of WorkerPool for TLC. *)
EXTENDS WorkerPool

\* Two users with several candidates each, in candidate order.
MCUsers == {"root", "admin"}
MCUserOf == [i \in Creds |-> IF i <= (NumCreds + 1) \div 2 THEN "root" ELSE "admin"]
=============================================================================
