------------------------------- MODULE MCSync -------------------------------
(* Sync with each kind of object alone and with a mutex and a semaphore.   *)
EXTENDS Sync

MCPrograms == {{k} : k \in Kinds} \cup {{"mutex", "semaphore"}}
=============================================================================
