-------------------------- MODULE ClaimFileProofs ---------------------------
(***************************************************************************)
(* Theorems about ClaimFile, for every set of processes, hosts, waits and  *)
(* bounds.                                                                 *)
(*                                                                         *)
(* Control and Backed hold whatever can break a claim.  Quiet needs        *)
(* NoLiveBreak: then a process that is about to unlink a stale claim is    *)
(* the only one left, so no unlink ever hits the claim of a live process.  *)
(***************************************************************************)
EXTENDS ClaimFile, TLAPS

Looping == {"create", "read", "stat", "judge", "unlink"}
Owning == {"write", "held", "remove"}

\* The loop counters, the tokens and the snapshot agree with the control state.
Control ==
    \A p \in Proc :
        /\ pc[p] \in Looping => round[p] < Rounds
        /\ pc[p] \in Owning \cup {"idle"} => round[p] = 0
        /\ pc[p] \in Looping \cup {"deadline"} => claims[p] < MaxClaims
        /\ pc[p] \in Owning => claims[p] > 0
        /\ pc[p] = "judge" => seen[p] \in Seen

\* A process that created the claim still has its file at the path, unless some
\* other process unlinked it.
Backed ==
    \A p \in Proc :
        pc[p] \in Owning /\ Mine(p) \notin lost => file = Mine(p)

\* Without live breaks: an owner is always backed by its file, and whoever is
\* about to unlink a stale claim has no live competitor left.
Quiet ==
    /\ \A p \in Proc :
        /\ pc[p] \in Owning => file = Mine(p)
        /\ pc[p] # "dead" => p \in running
        /\ pc[p] = "dead" => p \in Mortal
        /\ pc[p] = "unlink" => \A q \in Proc \ {p} : pc[q] = "dead"

TypeInv == TypeOK /\ Control
BackedInv == TypeInv /\ Backed
QuietInv == TypeInv /\ Quiet

-----------------------------------------------------------------------------
(* The records of two processes differ, and none is the absent file. *)
LEMMA MineDistinct ==
    ASSUME TypeInv, NEW p \in Proc, NEW q \in Proc
    PROVE  /\ Mine(p) = Mine(q) => p = q
           /\ pc[p] \in Owning => Mine(p) \in Record /\ Mine(p) # NoFile
<1>1. Mine(p) = Mine(q) => p = q
  <2>1. Mine(p).pid = p /\ Mine(q).pid = q
    BY DEF Mine
  <2> QED BY <2>1
<1>2. pc[p] \in Owning => Mine(p) \in Record
  BY ConstantsAssumption DEF TypeInv, TypeOK, Control, Mine, Record
<1>3. QED BY <1>1, <1>2, ConstantsAssumption

LEMMA TypeInit == Init => TypeInv
<1> SUFFICES ASSUME Init PROVE TypeInv
  OBVIOUS
<1>1. readable \in BOOLEAN
  BY DEF Init
<1>2. Control
  BY DEF Init, Control, Rounds, Looping, Owning
<1>3. QED
  BY <1>1, <1>2, ConstantsAssumption DEF Init, TypeInv, TypeOK, PC, Age, Rounds

(* Every action keeps the types and the loop counters in order. *)
LEMMA TypeStep == TypeInv /\ [Next]_vars => TypeInv'
<1> SUFFICES ASSUME TypeInv, [Next]_vars PROVE TypeInv'
  OBVIOUS
<1> USE ConstantsAssumption
    DEF TypeInv, TypeOK, Control, PC, Age, Rounds, Looping, Owning, Goto, fileVars
<1>1. ASSUME NEW p \in Proc, Begin(p) PROVE TypeInv'
  BY <1>1 DEF Begin
<1>2. ASSUME NEW p \in Proc, CreateNew(p) PROVE TypeInv'
  <2>1. [pid |-> p, token |-> claims[p] + 1] \in Record
    BY <1>2 DEF CreateNew, Record
  <2>2. readable' \in BOOLEAN
    BY <1>2 DEF CreateNew
  <2>3. QED BY <1>2, <2>1, <2>2 DEF CreateNew, LeaveLoop
<1>3. ASSUME NEW p \in Proc, CreateRefused(p) PROVE TypeInv'
  BY <1>3 DEF CreateRefused
<1>4. ASSUME NEW p \in Proc, WriteRecord(p) PROVE TypeInv'
  <2>1. readable' \in BOOLEAN
    BY <1>4 DEF WriteRecord
  <2>2. QED BY <1>4, <2>1 DEF WriteRecord
<1>5. ASSUME NEW p \in Proc, ReadHolder(p) PROVE TypeInv'
  <2>1. [record |-> file, readable |-> TRUE, age |-> age] \in Seen
    BY <1>5 DEF ReadHolder, Seen
  <2>2. QED BY <1>5, <2>1 DEF ReadHolder
<1>6. ASSUME NEW p \in Proc, ReadNothing(p) PROVE TypeInv'
  BY <1>6 DEF ReadNothing
<1>7. ASSUME NEW p \in Proc, StatPlaceholder(p) PROVE TypeInv'
  <2>1. [record |-> file, readable |-> FALSE, age |-> age] \in Seen
    BY <1>7 DEF StatPlaceholder, Seen
  <2>2. QED BY <1>7, <2>1 DEF StatPlaceholder
<1>8. ASSUME NEW p \in Proc, StatNothing(p) PROVE TypeInv'
  BY <1>8 DEF StatNothing, NextRound
<1>9. ASSUME NEW p \in Proc, JudgeStale(p) PROVE TypeInv'
  BY <1>9 DEF JudgeStale, Judged
<1>10. ASSUME NEW p \in Proc, JudgeLive(p) PROVE TypeInv'
  BY <1>10 DEF JudgeLive, Judged
<1>11. ASSUME NEW p \in Proc, Reclaim(p) PROVE TypeInv'
  <2>1. readable' \in BOOLEAN
    BY <1>11 DEF Reclaim, NoLongerThere
  <2>2. QED BY <1>11, <2>1 DEF Reclaim, NextRound, NoLongerThere
<1>12. ASSUME NEW p \in Proc, GiveUp(p) PROVE TypeInv'
  BY <1>12 DEF GiveUp, LeaveLoop
<1>13. ASSUME NEW p \in Proc, Poll(p) PROVE TypeInv'
  BY <1>13 DEF Poll
<1>14. ASSUME NEW p \in Proc, ReleaseOwned(p) PROVE TypeInv'
  BY <1>14 DEF ReleaseOwned
<1>15. ASSUME NEW p \in Proc, ReleaseLost(p) PROVE TypeInv'
  BY <1>15 DEF ReleaseLost
<1>16. ASSUME NEW p \in Proc, Remove(p) PROVE TypeInv'
  <2>1. readable' \in BOOLEAN
    BY <1>16 DEF Remove, NoLongerThere
  <2>2. QED BY <1>16, <2>1 DEF Remove, NoLongerThere
<1>17. ASSUME NEW p \in Proc, Die(p) PROVE TypeInv'
  BY <1>17 DEF Die
<1>18. ASSUME NEW p \in Proc, ReusePid(p) PROVE TypeInv'
  BY <1>18 DEF ReusePid
<1>19. ASSUME NEW r \in Record, GrowOld(r) PROVE TypeInv'
  <2>1. age' \in Age
    BY <1>19 DEF GrowOld
  <2>2. ASSUME NEW p \in Proc
        PROVE  /\ seen'[p] \in Seen \cup {NoFile}
               /\ pc[p] = "judge" => seen'[p] \in Seen
    <3>1. CASE pc[p] = "judge" /\ seen[p].record = r /\ seen[p].age < MaxAge
      <4>1. seen'[p] = [seen[p] EXCEPT !.age = @ + 1]
        BY <1>19, <3>1 DEF GrowOld
      <4>2. seen[p] \in Seen
        BY <3>1
      <4>3. QED BY <3>1, <4>1, <4>2 DEF Seen
    <3>2. CASE ~(pc[p] = "judge" /\ seen[p].record = r /\ seen[p].age < MaxAge)
      BY <1>19, <3>2 DEF GrowOld
    <3>3. QED BY <3>1, <3>2
  <2>3. seen' \in [Proc -> Seen \cup {NoFile}]
    BY <1>19, <2>2 DEF GrowOld
  <2>4. QED BY <1>19, <2>1, <2>2, <2>3 DEF GrowOld
<1>20. ASSUME UNCHANGED vars PROVE TypeInv'
  BY <1>20 DEF vars
<1>21. QED
  BY <1>1, <1>2, <1>3, <1>4, <1>5, <1>6, <1>7, <1>8, <1>9, <1>10, <1>11, <1>12, <1>13,
     <1>14, <1>15, <1>16, <1>17, <1>18, <1>19, <1>20
  DEF Next, Attempt, Release

\* The variables of the protocol keep their types in every run.
THEOREM TypeCorrect == Spec => []TypeOK
<1>1. TypeInv => TypeOK
  BY DEF TypeInv
<1>2. QED BY TypeInit, TypeStep, <1>1, PTL DEF Spec

-----------------------------------------------------------------------------
LEMMA BackedInit == Init => Backed
BY DEF Init, Backed, Owning

(* Only an unlink can part a process from its file, and an unlink by another     *)
(* process is on record in lost.                                                 *)
LEMMA BackedStep == BackedInv /\ [Next]_vars => Backed'
<1> SUFFICES ASSUME BackedInv, [Next]_vars, NEW q \in Proc,
                    (pc[q] \in Owning /\ Mine(q) \notin lost)'
             PROVE  (file = Mine(q))'
  BY DEF Backed
<1> USE DEF BackedInv, Goto, fileVars
<1>types. TypeInv /\ pc \in [Proc -> PC] /\ claims \in [Proc -> 0..MaxClaims]
  BY DEF TypeInv, TypeOK
<1>mine. ASSUME claims' = claims PROVE Mine(q)' = Mine(q)
  BY <1>mine DEF Mine
<1>still. ASSUME file' = file, lost' = lost, claims' = claims,
                 pc'[q] = pc[q] \/ pc[q] \in Owning
          PROVE  (file = Mine(q))'
  BY <1>still, <1>mine DEF Backed
<1>1. ASSUME NEW p \in Proc, Begin(p) PROVE (file = Mine(q))'
  BY <1>1, <1>types, <1>still DEF Begin, Owning
<1>2. ASSUME NEW p \in Proc, CreateNew(p) PROVE (file = Mine(q))'
  <2>1. CASE p = q
    BY <1>2, <2>1, <1>types DEF CreateNew, Mine
  <2>2. CASE p # q
    <3>1. Mine(q)' = Mine(q) /\ pc'[q] = pc[q] /\ lost' = lost /\ file = NoFile
      BY <1>2, <2>2, <1>types DEF CreateNew, Mine
    <3>2. file = Mine(q)
      BY <3>1 DEF Backed
    <3>3. QED BY <3>1, <3>2, <1>types, MineDistinct
  <2>3. QED BY <2>1, <2>2
<1>3. ASSUME NEW p \in Proc, CreateRefused(p) PROVE (file = Mine(q))'
  BY <1>3, <1>types, <1>still DEF CreateRefused, Owning
<1>4. ASSUME NEW p \in Proc, WriteRecord(p) PROVE (file = Mine(q))'
  BY <1>4, <1>types, <1>still DEF WriteRecord, Owning
<1>5. ASSUME NEW p \in Proc, ReadHolder(p) PROVE (file = Mine(q))'
  BY <1>5, <1>types, <1>still DEF ReadHolder, Owning
<1>6. ASSUME NEW p \in Proc, ReadNothing(p) PROVE (file = Mine(q))'
  BY <1>6, <1>types, <1>still DEF ReadNothing, Owning
<1>7. ASSUME NEW p \in Proc, StatPlaceholder(p) PROVE (file = Mine(q))'
  BY <1>7, <1>types, <1>still DEF StatPlaceholder, Owning
<1>8. ASSUME NEW p \in Proc, StatNothing(p) PROVE (file = Mine(q))'
  BY <1>8, <1>types, <1>still DEF StatNothing, NextRound, Owning
<1>9. ASSUME NEW p \in Proc, JudgeStale(p) PROVE (file = Mine(q))'
  BY <1>9, <1>types, <1>still DEF JudgeStale, Owning
<1>10. ASSUME NEW p \in Proc, JudgeLive(p) PROVE (file = Mine(q))'
  BY <1>10, <1>types, <1>still DEF JudgeLive, Owning
<1>11. ASSUME NEW p \in Proc, Reclaim(p) PROVE (file = Mine(q))'
  <2>1. claims' = claims /\ (pc'[q] = pc[q] \/ pc'[q] \notin Owning)
    BY <1>11, <1>types DEF Reclaim, NextRound, Owning
  <2>2. CASE lost' = lost \cup ({file} \ {NoFile})
    <3>1. Mine(q) \notin lost /\ (Mine(q) # file \/ Mine(q) = NoFile)
      BY <2>1, <2>2, <1>mine
    <3>2. file = Mine(q)
      BY <2>1, <3>1 DEF Backed
    <3>3. QED BY <2>1, <3>1, <3>2, <1>types, MineDistinct
  <2>3. CASE file' = file /\ lost' = lost
    BY <2>1, <2>3, <1>still
  <2>4. QED BY <1>11, <2>2, <2>3 DEF Reclaim
<1>12. ASSUME NEW p \in Proc, GiveUp(p) PROVE (file = Mine(q))'
  BY <1>12, <1>types, <1>still DEF GiveUp, Owning
<1>13. ASSUME NEW p \in Proc, Poll(p) PROVE (file = Mine(q))'
  BY <1>13, <1>types, <1>still DEF Poll, Owning
<1>14. ASSUME NEW p \in Proc, ReleaseOwned(p) PROVE (file = Mine(q))'
  BY <1>14, <1>types, <1>still DEF ReleaseOwned, Owning
<1>15. ASSUME NEW p \in Proc, ReleaseLost(p) PROVE (file = Mine(q))'
  BY <1>15, <1>types, <1>still DEF ReleaseLost, Owning
<1>16. ASSUME NEW p \in Proc, Remove(p) PROVE (file = Mine(q))'
  <2>1. p # q /\ pc'[q] = pc[q] /\ claims' = claims
    BY <1>16, <1>types DEF Remove, Owning
  <2>2. CASE lost' = lost \cup ({file} \ {NoFile, Mine(p)})
    <3>1. Mine(q) # Mine(p) /\ Mine(q) # NoFile /\ Mine(q) \in Record
      BY <2>1, <1>types, MineDistinct
    <3>2. Mine(q) \notin lost /\ Mine(q) # file
      BY <2>1, <2>2, <3>1, <1>mine
    <3>3. QED BY <2>1, <3>2 DEF Backed
  <2>3. CASE file' = file /\ lost' = lost
    BY <2>1, <2>3, <1>still
  <2>4. QED BY <1>16, <2>2, <2>3 DEF Remove
<1>17. ASSUME NEW p \in Proc, Die(p) PROVE (file = Mine(q))'
  BY <1>17, <1>types, <1>still DEF Die, Owning
<1>18. ASSUME NEW p \in Proc, ReusePid(p) PROVE (file = Mine(q))'
  BY <1>18, <1>still DEF ReusePid
<1>19. ASSUME NEW r \in Record, GrowOld(r) PROVE (file = Mine(q))'
  BY <1>19, <1>still DEF GrowOld
<1>20. ASSUME UNCHANGED vars PROVE (file = Mine(q))'
  BY <1>20, <1>still DEF vars
<1>21. QED
  BY <1>1, <1>2, <1>3, <1>4, <1>5, <1>6, <1>7, <1>8, <1>9, <1>10, <1>11, <1>12, <1>13,
     <1>14, <1>15, <1>16, <1>17, <1>18, <1>19, <1>20
  DEF Next, Attempt, Release

\* Two processes hold the claim at once only after one of their records was
\* unlinked by another process: whatever breaks claims, creation is exclusive.
THEOREM SharingNeedsABreak == Spec => []SharedOnlyIfBroken
<1>1. BackedInv => SharedOnlyIfBroken
  <2> SUFFICES ASSUME BackedInv, NEW p \in Proc, NEW q \in Proc,
                      Holds(p), Holds(q), p # q,
                      Mine(p) \notin lost, Mine(q) \notin lost
               PROVE  FALSE
    BY DEF SharedOnlyIfBroken
  <2>1. file = Mine(p) /\ file = Mine(q)
    BY DEF BackedInv, Backed, Holds, Owning
  <2>2. QED BY <2>1, MineDistinct DEF BackedInv
<1>2. Init => BackedInv
  BY TypeInit, BackedInit DEF BackedInv
<1>3. BackedInv /\ [Next]_vars => BackedInv'
  BY TypeStep, BackedStep DEF BackedInv
<1>4. QED BY <1>1, <1>2, <1>3, PTL DEF Spec

-----------------------------------------------------------------------------
LEMMA QuietInit == Init => Quiet
BY DEF Init, Quiet, Owning

(* A process that walks on without touching the file keeps Quiet.               *)
LEMMA QuietMove ==
    ASSUME QuietInv, NEW p \in Proc, NEW a \in PC \ {"dead"},
           NEW b \in PC \ {"dead", "unlink"},
           Goto(p, a, b), b \in Owning => a \in Owning,
           file' = file, claims' = claims, running' = running
    PROVE  Quiet'
<1>1. pc \in [Proc -> PC] /\ pc[p] = a /\ pc' = [pc EXCEPT ![p] = b]
  BY DEF QuietInv, TypeInv, TypeOK, Goto
<1>2. \A q \in Proc : pc'[q] = IF q = p THEN b ELSE pc[q]
  BY <1>1
<1>3. SUFFICES ASSUME NEW q \in Proc
               PROVE  /\ pc'[q] \in Owning => file' = Mine(q)'
                      /\ pc'[q] # "dead" => q \in running'
                      /\ pc'[q] = "dead" => q \in Mortal
                      /\ pc'[q] = "unlink" => \A r \in Proc \ {q} : pc'[r] = "dead"
  BY DEF Quiet
<1>4. pc'[q] \in Owning => file' = Mine(q)'
  BY <1>1, <1>2 DEF QuietInv, Quiet, Mine
<1>5. /\ pc'[q] # "dead" => q \in running'
      /\ pc'[q] = "dead" => q \in Mortal
  BY <1>1, <1>2 DEF QuietInv, Quiet
<1>6. pc'[q] = "unlink" => \A r \in Proc \ {q} : pc'[r] = "dead"
  BY <1>1, <1>2 DEF QuietInv, Quiet
<1>7. QED BY <1>4, <1>5, <1>6

(* A claim judged stale belongs to the one other process there is, and that one  *)
(* is dead: the age, --force and a pid of another host are never the reason.     *)
LEMMA StaleMeansAlone ==
    ASSUME NoLiveBreak, QuietInv, NEW p \in Proc, pc[p] = "judge", Stale(p)
    PROVE  \A q \in Proc \ {p} : pc[q] = "dead"
<1> DEFINE r == seen[p].record.pid
<1>1. seen[p] \in Seen /\ seen[p].age = 0 /\ r \in Proc
  BY ConstantsAssumption
  DEF NoLiveBreak, QuietInv, TypeInv, Control, Seen, Age, Record, Looping
<1>2. Host[r] = Host[p] /\ r \notin running
  BY <1>1 DEF Stale, NoLiveBreak
<1>3. pc[r] = "dead" /\ r \in Mortal /\ p # r
  BY <1>1, <1>2 DEF QuietInv, Quiet
<1>4. Proc = {r, p}
  BY <1>1, <1>2, <1>3 DEF NoLiveBreak
<1>5. QED BY <1>3, <1>4

LEMMA QuietStep ==
    ASSUME NoLiveBreak, QuietInv, [Next]_vars PROVE Quiet'
<1> USE DEF fileVars
<1>types. TypeInv /\ pc \in [Proc -> PC] /\ claims \in [Proc -> 0..MaxClaims]
  BY DEF QuietInv, TypeInv, TypeOK
<1>1. ASSUME NEW p \in Proc, Begin(p) PROVE Quiet'
  BY <1>1, QuietMove DEF Begin, PC, Owning
<1>2. ASSUME NEW p \in Proc, CreateNew(p) PROVE Quiet'
  <2>1. \A q \in Proc : pc[q] \notin Owning
    BY <1>2, <1>types, MineDistinct DEF CreateNew, QuietInv, Quiet
  <2>2. /\ pc[p] = "create" /\ running' = running
        /\ \A q \in Proc : pc'[q] = IF q = p THEN "write" ELSE pc[q]
    BY <1>2, <1>types DEF CreateNew, Goto
  <2>3. ASSUME NEW q \in Proc PROVE pc'[q] \in Owning => file' = Mine(q)'
    BY <1>2, <1>types, <2>1, <2>2 DEF CreateNew, Mine
  <2>4. ASSUME NEW q \in Proc
        PROVE  /\ pc'[q] # "dead" => q \in running'
               /\ pc'[q] = "dead" => q \in Mortal
               /\ pc'[q] = "unlink" => \A r \in Proc \ {q} : pc'[r] = "dead"
    BY <2>2 DEF QuietInv, Quiet
  <2>5. QED BY <2>3, <2>4 DEF Quiet
<1>3. ASSUME NEW p \in Proc, CreateRefused(p) PROVE Quiet'
  BY <1>3, QuietMove DEF CreateRefused, PC, Owning
<1>4. ASSUME NEW p \in Proc, WriteRecord(p) PROVE Quiet'
  BY <1>4, QuietMove DEF WriteRecord, PC, Owning
<1>5. ASSUME NEW p \in Proc, ReadHolder(p) PROVE Quiet'
  BY <1>5, QuietMove DEF ReadHolder, PC, Owning
<1>6. ASSUME NEW p \in Proc, ReadNothing(p) PROVE Quiet'
  BY <1>6, QuietMove DEF ReadNothing, PC, Owning
<1>7. ASSUME NEW p \in Proc, StatPlaceholder(p) PROVE Quiet'
  BY <1>7, QuietMove DEF StatPlaceholder, PC, Owning
<1>8. ASSUME NEW p \in Proc, StatNothing(p) PROVE Quiet'
  <2>1. PICK b \in {"create", "deadline"} : Goto(p, "stat", b)
    BY <1>8 DEF StatNothing, NextRound
  <2>2. QED BY <1>8, <2>1, QuietMove DEF StatNothing, PC, Owning
<1>9. ASSUME NEW p \in Proc, JudgeStale(p) PROVE Quiet'
  <2>1. /\ pc[p] = "judge" /\ Stale(p)
        /\ file' = file /\ claims' = claims /\ running' = running
        /\ \A q \in Proc : pc'[q] = IF q = p THEN "unlink" ELSE pc[q]
    BY <1>9, <1>types DEF JudgeStale, Goto
  <2>2. \A q \in Proc \ {p} : pc[q] = "dead"
    BY <2>1, StaleMeansAlone
  <2>3. QED BY <2>1, <2>2 DEF QuietInv, Quiet, Owning
<1>10. ASSUME NEW p \in Proc, JudgeLive(p) PROVE Quiet'
  BY <1>10, QuietMove DEF JudgeLive, PC, Owning
<1>11. ASSUME NEW p \in Proc, Reclaim(p) PROVE Quiet'
  <2>1. PICK b \in {"create", "deadline"} : Goto(p, "unlink", b)
    BY <1>11 DEF Reclaim, NextRound
  <2>2. /\ pc[p] = "unlink" /\ running' = running
        /\ \A q \in Proc : pc'[q] = IF q = p THEN b ELSE pc[q]
    BY <1>11, <2>1, <1>types DEF Reclaim, Goto
  <2>3. \A q \in Proc \ {p} : pc[q] = "dead"
    BY <2>2 DEF QuietInv, Quiet
  <2>4. QED BY <2>2, <2>3 DEF QuietInv, Quiet, Owning
<1>12. ASSUME NEW p \in Proc, GiveUp(p) PROVE Quiet'
  BY <1>12, QuietMove DEF GiveUp, PC, Owning
<1>13. ASSUME NEW p \in Proc, Poll(p) PROVE Quiet'
  BY <1>13, QuietMove DEF Poll, PC, Owning
<1>14. ASSUME NEW p \in Proc, ReleaseOwned(p) PROVE Quiet'
  BY <1>14, QuietMove DEF ReleaseOwned, PC, Owning
<1>15. ASSUME NEW p \in Proc, ReleaseLost(p) PROVE Quiet'
  BY <1>15, QuietMove DEF ReleaseLost, PC, Owning
<1>16. ASSUME NEW p \in Proc, Remove(p) PROVE Quiet'
  <2>1. /\ pc[p] = "remove" /\ running' = running /\ claims' = claims
        /\ \A q \in Proc : pc'[q] = IF q = p THEN "idle" ELSE pc[q]
    BY <1>16, <1>types DEF Remove, Goto
  <2>2. \A q \in Proc \ {p} : pc[q] \notin Owning
    BY <2>1, <1>types, MineDistinct DEF QuietInv, Quiet, Owning
  <2>3. QED BY <2>1, <2>2 DEF QuietInv, Quiet, Owning
<1>17. ASSUME NEW p \in Proc, Die(p) PROVE Quiet'
  <2>1. /\ p \in Mortal /\ running' = running \ {p}
        /\ file' = file /\ claims' = claims
        /\ \A q \in Proc : pc'[q] = IF q = p THEN "dead" ELSE pc[q]
    BY <1>17, <1>types DEF Die
  <2>2. QED BY <2>1 DEF QuietInv, Quiet, Owning, Mine
<1>18. ASSUME NEW p \in Proc, ReusePid(p) PROVE Quiet'
  BY <1>18 DEF ReusePid, QuietInv, Quiet, Mine
<1>19. ASSUME NEW r \in Record, GrowOld(r) PROVE Quiet'
  BY <1>19 DEF GrowOld, QuietInv, Quiet, Mine
<1>20. ASSUME UNCHANGED vars PROVE Quiet'
  BY <1>20 DEF vars, QuietInv, Quiet, Mine
<1>21. QED
  BY <1>1, <1>2, <1>3, <1>4, <1>5, <1>6, <1>7, <1>8, <1>9, <1>10, <1>11, <1>12, <1>13,
     <1>14, <1>15, <1>16, <1>17, <1>18, <1>19, <1>20
  DEF Next, Attempt, Release

LEMMA QuietAlways == ASSUME NoLiveBreak PROVE Spec => []QuietInv
<1>1. Init => QuietInv
  BY TypeInit, QuietInit DEF QuietInv
<1>2. QuietInv /\ [Next]_vars => QuietInv'
  BY TypeStep, QuietStep DEF QuietInv
<1>3. QED BY <1>1, <1>2, PTL DEF Spec

\* Where no live claim can be broken, two processes never write one cassette at
\* once, whatever they interleave and whenever the mortal ones die.
THEOREM ExclusionWithoutLiveBreaks ==
    ASSUME NoLiveBreak PROVE Spec => []MutualExclusion
<1>1. QuietInv => MutualExclusion
  <2> SUFFICES ASSUME QuietInv, NEW p \in Proc, NEW q \in Proc, Holds(p), Holds(q)
               PROVE  p = q
    BY DEF MutualExclusion
  <2>1. file = Mine(p) /\ file = Mine(q)
    BY DEF QuietInv, Quiet, Holds, Owning
  <2>2. QED BY <2>1, MineDistinct DEF QuietInv
<1>2. QED BY <1>1, QuietAlways, PTL

-----------------------------------------------------------------------------
(* The mapping of the claim file to the lock. *)
Owner == IF file = NoFile THEN NoFile ELSE file.pid
Writers == {p \in Proc : Holds(p)}

LEMMA OneOwner ==
    ASSUME QuietInv, NEW p \in Proc, pc[p] \in Owning
    PROVE  /\ file = Mine(p) /\ file # NoFile /\ Owner = p
           /\ \A q \in Proc : pc[q] \in Owning => q = p
           /\ Writers = IF pc[p] = "held" THEN {p} ELSE {}
<1>1. file = Mine(p) /\ file # NoFile
  BY MineDistinct DEF QuietInv, Quiet
<1>2. Owner = p
  BY <1>1 DEF Owner, Mine
<1>3. \A q \in Proc : pc[q] \in Owning => q = p
  BY <1>1, MineDistinct DEF QuietInv, Quiet
<1>4. Writers = IF pc[p] = "held" THEN {p} ELSE {}
  BY <1>3 DEF Writers, Holds, Owning
<1>5. QED BY <1>1, <1>2, <1>3, <1>4

(* A step that leaves the file alone and moves no process in or out of "held".   *)
LEMMA LockStutter ==
    ASSUME file' = file, \A p \in Proc : pc'[p] = "held" <=> pc[p] = "held"
    PROVE  Owner' = Owner /\ Writers' = Writers
BY DEF Owner, Writers, Holds

LEMMA LockStep ==
    ASSUME NoLiveBreak, QuietInv, QuietInv', [Next]_vars
    PROVE  [Lock!Next]_<<Owner, Writers>>
<1> DEFINE Goal == [Lock!Next]_<<Owner, Writers>>
<1> USE DEF fileVars, Goto
<1>types. pc \in [Proc -> PC] /\ pc' \in [Proc -> PC] /\ file \in Record \cup {NoFile}
  BY DEF QuietInv, TypeInv, TypeOK
<1>1. ASSUME NEW p \in Proc, Begin(p) PROVE Goal
  BY <1>1, <1>types, LockStutter DEF Begin
<1>2. ASSUME NEW p \in Proc, CreateNew(p) PROVE Goal
  <2>1. pc'[p] = "write" /\ file = NoFile
    BY <1>2, <1>types DEF CreateNew
  <2>2. Owner = NoFile /\ Owner' = p
    <3>1. file' = [pid |-> p, token |-> claims[p] + 1] /\ claims[p] < MaxClaims
      BY <1>2 DEF CreateNew, QuietInv, TypeInv, Control, Looping
    <3>2. file' \in Record
      BY <3>1, ConstantsAssumption DEF QuietInv, TypeInv, TypeOK, Record
    <3>3. QED BY <2>1, <3>1, <3>2, ConstantsAssumption DEF Owner
  <2>3. Writers' = Writers
    BY <1>2, <1>types DEF CreateNew, Writers, Holds
  <2>4. Lock!Take(p)
    BY <2>2, <2>3 DEF Lock!Take, Owner, Writers
  <2>5. QED BY <2>4 DEF Lock!Next
<1>3. ASSUME NEW p \in Proc, CreateRefused(p) PROVE Goal
  BY <1>3, <1>types, LockStutter DEF CreateRefused
<1>4. ASSUME NEW p \in Proc, WriteRecord(p) PROVE Goal
  <2>1. pc[p] = "write" /\ pc'[p] = "held"
    BY <1>4, <1>types DEF WriteRecord
  <2>2. Owner = p /\ Writers = {}
    BY <2>1, OneOwner DEF Owning
  <2>3. Owner' = Owner
    BY <1>4 DEF WriteRecord, Owner
  <2>4. Writers' = {p}
    BY <1>4, <1>types, <2>1, <2>2 DEF WriteRecord, Writers, Holds
  <2>5. Lock!Start(p)
    BY <2>2, <2>3, <2>4 DEF Lock!Start, Owner, Writers
  <2>6. QED BY <2>5 DEF Lock!Next
<1>5. ASSUME NEW p \in Proc, ReadHolder(p) PROVE Goal
  BY <1>5, <1>types, LockStutter DEF ReadHolder
<1>6. ASSUME NEW p \in Proc, ReadNothing(p) PROVE Goal
  BY <1>6, <1>types, LockStutter DEF ReadNothing
<1>7. ASSUME NEW p \in Proc, StatPlaceholder(p) PROVE Goal
  BY <1>7, <1>types, LockStutter DEF StatPlaceholder
<1>8. ASSUME NEW p \in Proc, StatNothing(p) PROVE Goal
  BY <1>8, <1>types, LockStutter DEF StatNothing, NextRound
<1>9. ASSUME NEW p \in Proc, JudgeStale(p) PROVE Goal
  BY <1>9, <1>types, LockStutter DEF JudgeStale
<1>10. ASSUME NEW p \in Proc, JudgeLive(p) PROVE Goal
  BY <1>10, <1>types, LockStutter DEF JudgeLive
<1>11. ASSUME NEW p \in Proc, Reclaim(p) PROVE Goal
  <2>1. /\ pc[p] = "unlink"
        /\ \A q \in Proc : pc'[q] = "held" <=> pc[q] = "held"
    BY <1>11, <1>types DEF Reclaim, NextRound
  <2>2. Writers = {} /\ Writers' = {}
    BY <2>1 DEF Writers, Holds, QuietInv, Quiet
  <2>3. CASE file' = file
    BY <2>1, <2>3, LockStutter
  <2>4. CASE file # NoFile /\ file' = NoFile
    <3>1. Owner # NoFile /\ Owner' = NoFile
      BY <2>4, <1>types, ConstantsAssumption DEF Owner, Record
    <3>2. Lock!Free
      BY <2>2, <3>1 DEF Lock!Free, Owner, Writers
    <3>3. QED BY <3>2 DEF Lock!Next
  <2>5. QED BY <1>11, <2>3, <2>4 DEF Reclaim, NoLongerThere
<1>12. ASSUME NEW p \in Proc, GiveUp(p) PROVE Goal
  BY <1>12, <1>types, LockStutter DEF GiveUp
<1>13. ASSUME NEW p \in Proc, Poll(p) PROVE Goal
  BY <1>13, <1>types, LockStutter DEF Poll
<1>stop. ASSUME NEW p \in Proc, pc[p] = "held", file' = file,
                \A q \in Proc : pc'[q] = IF q = p THEN pc'[p] ELSE pc[q],
                pc'[p] # "held"
         PROVE  Goal
  <2>1. Writers = {p} /\ Owner' = Owner
    BY <1>stop, OneOwner DEF Owner, Owning
  <2>2. Writers' = {}
    BY <1>stop, <2>1 DEF Writers, Holds
  <2>3. Lock!Stop(p)
    BY <2>1, <2>2 DEF Lock!Stop, Owner, Writers
  <2>4. QED BY <2>3 DEF Lock!Next
<1>14. ASSUME NEW p \in Proc, ReleaseOwned(p) PROVE Goal
  BY <1>14, <1>types, <1>stop DEF ReleaseOwned
<1>15. ASSUME NEW p \in Proc, ReleaseLost(p) PROVE Goal
  BY <1>15, <1>types, <1>stop DEF ReleaseLost
<1>16. ASSUME NEW p \in Proc, Remove(p) PROVE Goal
  <2>1. /\ pc[p] = "remove"
        /\ \A q \in Proc : pc'[q] = "held" <=> pc[q] = "held"
    BY <1>16, <1>types DEF Remove
  <2>2. file # NoFile /\ Owner = p /\ Writers = {} /\ Writers' = {}
    BY <2>1, OneOwner DEF Owning, Writers, Holds
  <2>3. CASE file' = file
    BY <2>1, <2>3, LockStutter
  <2>4. CASE file' = NoFile
    <3>1. Lock!Free
      BY <2>2, <2>4, ConstantsAssumption DEF Lock!Free, Owner, Writers
    <3>2. QED BY <3>1 DEF Lock!Next
  <2>5. QED BY <1>16, <2>3, <2>4 DEF Remove, NoLongerThere
<1>17. ASSUME NEW p \in Proc, Die(p) PROVE Goal
  <2>1. CASE pc[p] = "held"
    BY <1>17, <2>1, <1>types, <1>stop DEF Die
  <2>2. CASE pc[p] # "held"
    BY <1>17, <2>2, <1>types, LockStutter DEF Die
  <2>3. QED BY <2>1, <2>2
<1>18. ASSUME NEW p \in Proc, ReusePid(p) PROVE Goal
  BY <1>18, LockStutter DEF ReusePid
<1>19. ASSUME NEW r \in Record, GrowOld(r) PROVE Goal
  BY <1>19, LockStutter DEF GrowOld
<1>20. ASSUME UNCHANGED vars PROVE Goal
  BY <1>20, LockStutter DEF vars
<1>21. QED
  BY <1>1, <1>2, <1>3, <1>4, <1>5, <1>6, <1>7, <1>8, <1>9, <1>10, <1>11, <1>12, <1>13,
     <1>14, <1>15, <1>16, <1>17, <1>18, <1>19, <1>20
  DEF Next, Attempt, Release

\* Under the same assumption the file protocol implements the lock it stands for:
\* every step is one of WriterLock's, or leaves owner and writers alone.
THEOREM ClaimImplementsLock ==
    ASSUME NoLiveBreak PROVE Spec => ImplementsLock
<1>1. Init => Lock!Init
  BY DEF Init, Lock!Init, Holds
<1>2. QuietInv /\ QuietInv' /\ [Next]_vars => [Lock!Next]_Lock!vars
  BY LockStep DEF Lock!vars, Owner, Writers
<1>3. QED BY <1>1, <1>2, QuietAlways, PTL DEF Spec, ImplementsLock, Lock!Spec

=============================================================================
