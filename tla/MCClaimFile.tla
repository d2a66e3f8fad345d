---------------------------- MODULE MCClaimFile -----------------------------
(* Small instances of ClaimFile for TLC. *)
EXTENDS ClaimFile

CONSTANTS p1, p2, p3

OneHost == [p \in Proc |-> "here"]
TwoHosts == [p \in Proc |-> IF p = p1 THEN "there" ELSE "here"]
FailFast == [p \in Proc |-> 0]
\* One process fails fast (all, new_episodes), the others wait (once).
SomeWait == [p \in Proc |-> IF p = p1 THEN 0 ELSE 1]
=============================================================================
