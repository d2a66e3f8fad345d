----------------------------- MODULE WriterLock -----------------------------
(***************************************************************************)
(* What the claim over a cassette promises its callers                     *)
(* (docs/guide/operations/OP-06-parallel-test-runs.md): the path belongs   *)
(* to one owner at a time, only the owner writes, and ownership passes on  *)
(* only while nobody writes.  ClaimFile is the protocol that is meant to   *)
(* implement it over a file.                                               *)
(***************************************************************************)
CONSTANTS Proc, NoOwner

VARIABLES
    owner,      \* the process the path belongs to, or NoOwner
    writers     \* the processes that are recording

vars == <<owner, writers>>

Init == owner = NoOwner /\ writers = {}

\* p becomes the owner of a path that has none.
Take(p) ==
    /\ owner = NoOwner
    /\ owner' = p
    /\ UNCHANGED writers

\* The owner starts recording, and stops (or dies).
Start(p) ==
    /\ owner = p /\ writers = {}
    /\ writers' = {p}
    /\ UNCHANGED owner

Stop(p) ==
    /\ writers = {p}
    /\ writers' = {}
    /\ UNCHANGED owner

\* The owner releases the path, or another process reclaims it from a dead one.
Free ==
    /\ owner # NoOwner /\ writers = {}
    /\ owner' = NoOwner
    /\ UNCHANGED writers

Next == Free \/ \E p \in Proc : Take(p) \/ Start(p) \/ Stop(p)

Spec == Init /\ [][Next]_vars
=============================================================================
