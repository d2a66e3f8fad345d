------------------------- MODULE SessionDoorsProofs -------------------------
(***************************************************************************)
(* Proofs about SessionDoors: its types, that the claim is given back, and *)
(* for careful doors that no recording is lost, that one session records   *)
(* and the rest replays, that a bad run fails its session, and that the    *)
(* doors implement the writer lock; and for doors that agree, that the     *)
(* cassette keeps its transport.                                           *)
(***************************************************************************)
EXTENDS SessionDoors, TLAPS

Planned == \E s \in Setups : plan = s.doors

\* Before it has handed a program out, a session has none that could have heard anything.
Quiet ==
    \A d \in Door : session[d] \in {"new", "enter", "entered", "open", "claim", "settle"} =>
        program[d] = "none" /\ heard[d] = {}

TypeInv == TypeOK /\ Planned /\ Quiet

Writing(d) == action[d] \in {"record", "append"}
May(d) == program[d] = "run" /\ Writing(d)

\* The door has set out from the cassette as it is, and is going to replace it.
Committed(d) ==
    \/ May(d)
    \/ /\ IsSession(d) /\ action[d] = "record"
       /\ program[d] \in {"ready", "start"} /\ session[d] \in {"out", "closing"}
    \/ IsSession(d) /\ action[d] = "append" /\ program[d] = "start"
    \/ plan[d].kind = "serve" /\ program[d] \in {"start", "acquire", "begin"}

\* Where a session is, its program can be.
Places ==
    \A d \in Door :
        /\ IsSession(d) <=> session[d] # "cli"
        /\ session[d] \in {"new", "enter", "entered", "open", "claim", "settle"} =>
               action[d] = "none"
        /\ IsSession(d) /\ program[d] \in Active => session[d] \in {"out", "closing"}
        /\ IsSession(d) => program[d] \notin {"acquire", "begin"}
        /\ program[d] = "start" => Writing(d)
        /\ ~IsSession(d) => action[d] = CommandAction(plan[d].kind)
        /\ plan[d].kind = "check" =>
               program[d] \notin {"start", "acquire", "begin", "report", "release"}
        /\ InProcess(d) => program[d] # "ready"
        /\ IsSession(d) /\ program[d] # "none" => action[d] # "none"
        /\ program[d] = "load" =>
               IF IsSession(d) THEN action[d] # "record" ELSE plan[d].kind \in {"serve", "check"}

\* Who holds the claim, and who does not.
Holders ==
    \A d \in Door :
        /\ session[d] \in {"entered", "settle"} => Holds(d, "session")
        /\ IsSession(d) /\ Writing(d) /\ session[d] \in {"out", "closing"} =>
               Holds(d, "session")
        /\ session[d] \in {"cli", "new", "enter", "claim", "closed", "ended"} =>
               ~Holds(d, "session")
        /\ session[d] = "out" /\ ~Writing(d) => ~Holds(d, "session")
        /\ ~IsSession(d) /\ plan[d].kind # "check"
           /\ program[d] \in {"begin", "run", "report", "release", "abort"} =>
               Holds(d, "program")
        /\ Holds(d, "program") =>
               /\ ~IsSession(d) /\ plan[d].kind # "check"
               /\ program[d] \in {"begin", "run", "report", "release", "abort", "killed"}

\* A reader never gets to where it could write.
Readers ==
    \A d \in Door : Reader(plan[d]) =>
        /\ session[d] \notin {"enter", "entered", "claim", "settle"}
        /\ ~Holds(d, "session")
        /\ IsSession(d) => ~Writing(d)
        /\ program[d] = "run" => IsSession(d)

\* The cassette is the one that those who are going to replace it have set out from.
Fresh == \A d \in Door : Committed(d) => base[d] = file

\* A session in mode once never holds the claim over a cassette that exists.
OnceRecords ==
    \A d \in Door : IsSession(d) /\ plan[d].mode = "once" =>
        /\ Holds(d, "session") /\ session[d] = "open" => ~Exists
        /\ action[d] = "record" /\ Committed(d) => base[d] = Missing
        /\ Recorded(d) => Exists

Inv == TypeInv /\ Places /\ Holders /\ Readers /\ Fresh /\ OnceRecords
-----------------------------------------------------------------------------
\* The doors that were chosen have their types, and a derived one an outermost session.
LEMMA PlanTypes ==
    ASSUME Planned
    PROVE  /\ plan \in [Door -> DoorPlan]
           /\ \A d \in Door :
                 /\ plan[d].parent # NoDoor =>
                        /\ plan[d].kind = "session" /\ plan[d].faults
                        /\ plan[plan[d].parent].parent = NoDoor
                 /\ plan[d].kind = "record" => plan[d].mode = "all"
                 /\ plan[d].kind = "serve" => plan[d].mode = "new_episodes"
                 /\ Root(d) \in Door
    BY DoorsAssumption DEF Planned, Root, DoorPlan

\* Initially every door is where it starts.
LEMMA TypeInit == Init => TypeInv
  <1> SUFFICES ASSUME Init PROVE TypeInv
      OBVIOUS
  <1>1. Planned
      BY DEF Init, Planned
  <1>2. file \in Cassettes
      BY DoorsAssumption DEF Init
  <1>3. TypeOK
      BY <1>1, <1>2, PlanTypes
      DEF Init, TypeOK, Cassettes, NoClaim, Missing, IsSession, CommandAction, Transport
  <1>4. Quiet
      BY DEF Init, Quiet, IsSession
  <1> QED
      BY <1>1, <1>3, <1>4 DEF TypeInv

\* Of a session's step: the places, the claim and the outcome stay in their sets.
LEMMA TypeSession ==
    ASSUME TypeInv, NEW d \in Door, Session(d)
    PROVE  TypeInv'
  <1> USE PlanTypes DEF TypeInv, TypeOK, Quiet, doors, programs
  <1>0. Planned'
      BY DEF Planned, Session, Open, Enter, EnterClaim, EnterRefused, EnterSettle,
             CallToReplay, CallToWrite, CallRefused, Claim, ClaimRefused, Settle, Settled,
             SettleFails, End, CloseDerived, Close, ClosingDone, Check
  <1>1. CASE Open(d)
      BY <1>0, <1>1 DEF Open, Move
  <1>2. CASE Enter(d)
      BY <1>0, <1>2 DEF Enter, Move
  <1>3. CASE EnterClaim(d)
      BY <1>0, <1>3 DEF EnterClaim, Move, Take
  <1>4. CASE EnterRefused(d)
      BY <1>0, <1>4 DEF EnterRefused, Move
  <1>5. CASE EnterSettle(d)
      BY <1>0, <1>5 DEF EnterSettle, Move, GiveBack
  <1>6. CASE CallToReplay(d)
      BY <1>0, <1>6 DEF CallToReplay, Move, HandedOut, Active
  <1>7. CASE CallToWrite(d)
      BY <1>0, <1>7 DEF CallToWrite, Move
  <1>8. CASE CallRefused(d)
      BY <1>0, <1>8 DEF CallRefused, Fail
  <1>9. CASE Claim(d)
      BY <1>0, <1>9 DEF Claim, Move, Take
  <1>10. CASE ClaimRefused(d)
      BY <1>0, <1>10 DEF ClaimRefused, Fail
  <1>11. CASE Settle(d)
      BY <1>0, <1>11 DEF Settle, Settled, Move, GiveBack, HandedOut, Resolved, Active
  <1>12. CASE SettleFails(d)
      BY <1>0, <1>12 DEF SettleFails, Fail
  <1>13. CASE \E how \in {"ok", "error"} : End(d, how)
      BY <1>0, <1>13 DEF End
  <1>14. CASE CloseDerived(d)
      BY <1>0, <1>14 DEF CloseDerived
  <1>15. CASE Close(d)
      BY <1>0, <1>15 DEF Close, ClosingDone, Move, GiveBack
  <1>16. CASE Check(d)
      BY <1>0, <1>16 DEF Check, Move
  <1> QED
      BY <1>1, <1>2, <1>3, <1>4, <1>5, <1>6, <1>7, <1>8, <1>9, <1>10, <1>11, <1>12, <1>13,
         <1>14, <1>15, <1>16
      DEF Session

\* What a save leaves is a cassette.
LEMMA SavedType ==
    ASSUME TypeInv, NEW d \in Door
    PROVE  Saved(d) \in Cassettes
  BY PlanTypes DEF TypeInv, TypeOK, Saved, Cassettes, Recordings, DoorPlan

\* Of a program's step.
LEMMA TypeProgram ==
    ASSUME TypeInv, NEW d \in Door, Program(d)
    PROVE  TypeInv'
  <1> USE PlanTypes, SavedType DEF TypeInv, TypeOK, Quiet, doors, programs
  <1>0. Planned'
      BY DEF Planned, Program, Launch, Load, Start, Acquire, AcquireRefused, Begin, Hear,
             Abort, Save, SaveBaseline, WriteReport, Release, Kill
  <1>1. CASE Launch(d)
      BY <1>0, <1>1 DEF Launch, Go, Active
  <1>2. CASE Load(d)
      BY <1>0, <1>2 DEF Load, Go, Active, Over
  <1>3. CASE Start(d)
      BY <1>0, <1>3 DEF Start, Go, Active
  <1>4. CASE Acquire(d)
      BY <1>0, <1>4 DEF Acquire, Go, Take, Active
  <1>5. CASE AcquireRefused(d)
      BY <1>0, <1>5 DEF AcquireRefused, Go, Over
  <1>6. CASE Begin(d)
      BY <1>0, <1>6 DEF Begin, Go, Active
  <1>7. CASE Hear(d)
      BY <1>0, <1>7 DEF Hear
  <1>8. CASE Abort(d)
      BY <1>0, <1>8 DEF Abort, Go, Active
  <1>9. CASE Save(d)
      BY <1>0, <1>9 DEF Save, Go, Active
  <1>10. CASE SaveBaseline(d)
      BY <1>0, <1>10 DEF SaveBaseline, Go, Over
  <1>11. CASE WriteReport(d)
      BY <1>0, <1>11 DEF WriteReport, Go, Active
  <1>12. CASE Release(d)
      BY <1>0, <1>12 DEF Release, Go, GiveBack, Over
  <1>13. CASE Kill(d)
      BY <1>0, <1>13 DEF Kill, Over
  <1> QED
      BY <1>1, <1>2, <1>3, <1>4, <1>5, <1>6, <1>7, <1>8, <1>9, <1>10, <1>11, <1>12, <1>13
      DEF Program

\* A step of any actor keeps the types.
LEMMA TypeStep == TypeInv /\ [Next]_vars => TypeInv'
  <1> SUFFICES ASSUME TypeInv, [Next]_vars PROVE TypeInv'
      OBVIOUS
  <1>1. ASSUME NEW d \in Door, Session(d) \/ Program(d) PROVE TypeInv'
      BY <1>1, TypeSession, TypeProgram
  <1>2. ASSUME NEW d \in Door, Crash(plan[d].pid) PROVE TypeInv'
      BY <1>2 DEF TypeInv, TypeOK, Quiet, Planned, Crash, Over
  <1>3. CASE Break
      BY <1>3 DEF TypeInv, TypeOK, Quiet, Planned, Break, doors, programs
  <1>4. CASE UNCHANGED vars
      BY <1>4 DEF TypeInv, TypeOK, Quiet, Planned, vars, doors, programs
  <1> QED
      BY <1>1, <1>2, <1>3, <1>4 DEF Next

\* Every reachable state of the doors is well typed, whatever the doors are.
THEOREM TypeCorrect == Spec => []TypeOK
  <1>1. TypeInv => TypeOK
      BY DEF TypeInv
  <1> QED
      BY TypeInit, TypeStep, <1>1, PTL DEF Spec

\* The claim of nobody is the claim of no door.
LEMMA NobodyHolds == NoDoor \notin Door
  BY DoorsAssumption

\* Whoever takes the claim is the only one to hold it.
LEMMA TakeHolds ==
    ASSUME NEW d \in Door, NEW part, Take(d, part)
    PROVE  \A e \in Door, p \in {"session", "program"} :
              ~Holds(e, p) /\ (Holds(e, p)' <=> e = d /\ p = part)
  BY NobodyHolds DEF Take, Holds, NoClaim

\* What Careful says of the doors of the setup that was chosen.
LEMMA CarefulPlan ==
    ASSUME Careful, Planned
    PROVE  \A d \in Door :
              /\ IsSession(d) => plan[d].via = "http" \/ plan[d].patient
              /\ plan[d].mortal => \A e \in Door : plan[e].pid = plan[d].pid => plan[e].via = "http"
              /\ plan[d].kind \in {"serve", "check"} =>
                     Reader(plan[d]) \/ \A e \in Door \ {d} : Reader(plan[e])
  BY DEF Careful, Planned, IsSession

\* A program runs only where its session has handed it out; uses that clients are patient.
LEMMA PlacesStep ==
    ASSUME Careful, Inv, Next
    PROVE  Places'
  <1> USE PlanTypes, CarefulPlan, NobodyHolds
     DEF Inv, TypeInv, TypeOK, doors, programs, IsSession, InProcess, Root, Holds, Writing,
      Active, Over, Planned, Quiet, NoClaim, CommandAction, Places, Holders
  <1>1. CASE Break
      BY <1>1 DEF Break, HolderDead
  <1>2. ASSUME NEW d \in Door, Crash(plan[d].pid) PROVE Places'
      BY <1>2 DEF Crash
  <1>3. ASSUME NEW d \in Door, Session(d) PROVE Places'
    <2>1. CASE Open(d)
      BY <2>1 DEF Open, Move
    <2>2. CASE Enter(d)
      BY <2>2 DEF Enter, Move, Resolved
    <2>3. CASE EnterClaim(d)
      BY <2>3, TakeHolds DEF EnterClaim, Move
    <2>4. CASE EnterRefused(d)
      BY <2>4 DEF EnterRefused, Move
    <2>5. CASE EnterSettle(d)
      BY <2>5 DEF EnterSettle, Move, GiveBack, Resolved
    <2>6. CASE CallToReplay(d)
      BY <2>6 DEF CallToReplay, Calling, Inside, Move, HandedOut, Resolved, Allowed
    <2>7. CASE CallToWrite(d)
      BY <2>7 DEF CallToWrite, Calling, Inside, Move, Allowed, Resolved
    <2>8. CASE CallRefused(d)
      BY <2>8 DEF CallRefused, Calling, Inside, Fail
    <2>9. CASE Claim(d)
      BY <2>9, TakeHolds DEF Claim, Move
    <2>10. CASE ClaimRefused(d)
      BY <2>10 DEF ClaimRefused, Fail, Readers, Reader
    <2>11. CASE Settle(d)
      BY <2>11 DEF Settle, Settled, Move, HandedOut, GiveBack, Resolved
    <2>12. CASE SettleFails(d)
      BY <2>12 DEF SettleFails, Fail, Readers, Reader
    <2>13. CASE \E how \in {"ok", "error"} : End(d, how)
      BY <2>13 DEF End, Inside
    <2>14. CASE CloseDerived(d)
      BY <2>14 DEF CloseDerived, Inside
    <2>15. CASE Close(d)
      BY <2>15 DEF Close, ClosingDone, Stopped, Move, GiveBack
    <2>16. CASE Check(d)
      BY <2>16 DEF Check, Move
    <2> QED
      BY <1>3, <2>1, <2>2, <2>3, <2>4, <2>5, <2>6, <2>7, <2>8, <2>9, <2>10, <2>11, <2>12,
         <2>13, <2>14, <2>15, <2>16
      DEF Session
  <1>4. ASSUME NEW d \in Door, Program(d) PROVE Places'
    <2>1. CASE Launch(d)
      BY <2>1 DEF Launch, Go
    <2>2. CASE Load(d)
      BY <2>2 DEF Load, Go, Refuses
    <2>3. CASE Start(d)
      BY <2>3 DEF Start, Go
    <2>4. CASE Acquire(d)
      BY <2>4, TakeHolds DEF Acquire, Go
    <2>5. CASE AcquireRefused(d)
      BY <2>5 DEF AcquireRefused, Go
    <2>6. CASE Begin(d)
      BY <2>6 DEF Begin, Go
    <2>7. CASE Hear(d)
      BY <2>7 DEF Hear
    <2>8. CASE Abort(d)
      BY <2>8 DEF Abort, Go
    <2>9. CASE Save(d)
      BY <2>9 DEF Save, Go
    <2>10. CASE SaveBaseline(d)
      BY <2>10 DEF SaveBaseline, Go
    <2>11. CASE WriteReport(d)
      BY <2>11 DEF WriteReport, Go
    <2>12. CASE Release(d)
      BY <2>12 DEF Release, Go, GiveBack
    <2>13. CASE Kill(d)
      BY <2>13 DEF Kill
    <2> QED
      BY <1>4, <2>1, <2>2, <2>3, <2>4, <2>5, <2>6, <2>7, <2>8, <2>9, <2>10, <2>11, <2>12,
         <2>13
      DEF Program
  <1> QED
      BY <1>1, <1>2, <1>3, <1>4 DEF Next

\* Every step keeps the claim with the door that needs it.
LEMMA HoldersStep ==
    ASSUME Careful, Inv, Next
    PROVE  Holders'
  <1> USE PlanTypes, CarefulPlan, NobodyHolds
     DEF Inv, TypeInv, TypeOK, doors, programs, IsSession, InProcess, Root, Holds, Writing,
      Active, Over, Planned, Quiet, NoClaim, CommandAction, Places, Holders
  <1>1. CASE Break
      BY <1>1 DEF Break, HolderDead
  <1>2. ASSUME NEW d \in Door, Crash(plan[d].pid) PROVE Holders'
      BY <1>2 DEF Crash
  <1>3. ASSUME NEW d \in Door, Session(d) PROVE Holders'
    <2>1. CASE Open(d)
      BY <2>1 DEF Open, Move
    <2>2. CASE Enter(d)
      BY <2>2 DEF Enter, Move, Resolved
    <2>3. CASE EnterClaim(d)
      BY <2>3, TakeHolds DEF EnterClaim, Move
    <2>4. CASE EnterRefused(d)
      BY <2>4 DEF EnterRefused, Move
    <2>5. CASE EnterSettle(d)
      BY <2>5 DEF EnterSettle, Move, GiveBack, Resolved
    <2>6. CASE CallToReplay(d)
      BY <2>6
      DEF CallToReplay, Calling, Inside, Move, HandedOut, Resolved, Allowed, Readers, Reader,
          OnceRecords, DoorPlan, Mode, Forbidden
    <2>7. CASE CallToWrite(d)
      BY <2>7 DEF CallToWrite, Calling, Inside, Move, Allowed, Resolved
    <2>8. CASE CallRefused(d)
      BY <2>8 DEF CallRefused, Calling, Inside, Fail
    <2>9. CASE Claim(d)
      BY <2>9, TakeHolds DEF Claim, Move
    <2>10. CASE ClaimRefused(d)
      BY <2>10 DEF ClaimRefused, Fail, Readers, Reader
    <2>11. CASE Settle(d)
      BY <2>11 DEF Settle, Settled, Move, HandedOut, GiveBack, Resolved
    <2>12. CASE SettleFails(d)
      BY <2>12 DEF SettleFails, Fail, Readers, Reader
    <2>13. CASE \E how \in {"ok", "error"} : End(d, how)
      BY <2>13 DEF End, Inside
    <2>14. CASE CloseDerived(d)
      BY <2>14 DEF CloseDerived, Inside
    <2>15. CASE Close(d)
      BY <2>15 DEF Close, ClosingDone, Stopped, Move, GiveBack
    <2>16. CASE Check(d)
      BY <2>16 DEF Check, Move
    <2> QED
      BY <1>3, <2>1, <2>2, <2>3, <2>4, <2>5, <2>6, <2>7, <2>8, <2>9, <2>10, <2>11, <2>12,
         <2>13, <2>14, <2>15, <2>16
      DEF Session
  <1>4. ASSUME NEW d \in Door, Program(d) PROVE Holders'
    <2>1. CASE Launch(d)
      BY <2>1 DEF Launch, Go
    <2>2. CASE Load(d)
      BY <2>2 DEF Load, Go, Refuses
    <2>3. CASE Start(d)
      BY <2>3 DEF Start, Go
    <2>4. CASE Acquire(d)
      BY <2>4, TakeHolds DEF Acquire, Go
    <2>5. CASE AcquireRefused(d)
      BY <2>5 DEF AcquireRefused, Go
    <2>6. CASE Begin(d)
      BY <2>6 DEF Begin, Go
    <2>7. CASE Hear(d)
      BY <2>7 DEF Hear
    <2>8. CASE Abort(d)
      BY <2>8 DEF Abort, Go
    <2>9. CASE Save(d)
      BY <2>9 DEF Save, Go
    <2>10. CASE SaveBaseline(d)
      BY <2>10 DEF SaveBaseline, Go
    <2>11. CASE WriteReport(d)
      BY <2>11 DEF WriteReport, Go
    <2>12. CASE Release(d)
      BY <2>12 DEF Release, Go, GiveBack
    <2>13. CASE Kill(d)
      BY <2>13 DEF Kill
    <2> QED
      BY <1>4, <2>1, <2>2, <2>3, <2>4, <2>5, <2>6, <2>7, <2>8, <2>9, <2>10, <2>11, <2>12,
         <2>13
      DEF Program
  <1> QED
      BY <1>1, <1>2, <1>3, <1>4 DEF Next

\* No step takes a reader to where it could write.
LEMMA ReadersStep ==
    ASSUME Careful, Inv, Next
    PROVE  Readers'
  <1> USE PlanTypes, CarefulPlan, NobodyHolds
     DEF Inv, TypeInv, TypeOK, doors, programs, IsSession, InProcess, Root, Holds, Writing,
      Active, Over, Planned, Quiet, NoClaim, CommandAction, Places, Readers, Reader, Holders,
      DoorPlan, Mode, Kind
  <1>1. CASE Break
      BY <1>1 DEF Break, HolderDead
  <1>2. ASSUME NEW d \in Door, Crash(plan[d].pid) PROVE Readers'
      BY <1>2 DEF Crash
  <1>3. ASSUME NEW d \in Door, Session(d) PROVE Readers'
    <2>1. CASE Open(d)
      BY <2>1 DEF Open, Move
    <2>2. CASE Enter(d)
      BY <2>2 DEF Enter, Move, Resolved
    <2>3. CASE EnterClaim(d)
      BY <2>3, TakeHolds DEF EnterClaim, Move
    <2>4. CASE EnterRefused(d)
      BY <2>4 DEF EnterRefused, Move
    <2>5. CASE EnterSettle(d)
      BY <2>5 DEF EnterSettle, Move, GiveBack, Resolved
    <2>6. CASE CallToReplay(d)
      BY <2>6 DEF CallToReplay, Calling, Inside, Move, HandedOut, Resolved, Allowed
    <2>7. CASE CallToWrite(d)
      BY <2>7 DEF CallToWrite, Calling, Inside, Move, Allowed, Resolved
    <2>8. CASE CallRefused(d)
      BY <2>8 DEF CallRefused, Calling, Inside, Fail
    <2>9. CASE Claim(d)
      BY <2>9, TakeHolds DEF Claim, Move
    <2>10. CASE ClaimRefused(d)
      BY <2>10 DEF ClaimRefused, Fail
    <2>11. CASE Settle(d)
      BY <2>11 DEF Settle, Settled, Move, HandedOut, GiveBack, Resolved
    <2>12. CASE SettleFails(d)
      BY <2>12 DEF SettleFails, Fail
    <2>13. CASE \E how \in {"ok", "error"} : End(d, how)
      BY <2>13 DEF End, Inside
    <2>14. CASE CloseDerived(d)
      BY <2>14 DEF CloseDerived, Inside
    <2>15. CASE Close(d)
      BY <2>15 DEF Close, ClosingDone, Stopped, Move, GiveBack
    <2>16. CASE Check(d)
      BY <2>16 DEF Check, Move
    <2> QED
      BY <1>3, <2>1, <2>2, <2>3, <2>4, <2>5, <2>6, <2>7, <2>8, <2>9, <2>10, <2>11, <2>12,
         <2>13, <2>14, <2>15, <2>16
      DEF Session
  <1>4. ASSUME NEW d \in Door, Program(d) PROVE Readers'
    <2>1. CASE Launch(d)
      BY <2>1 DEF Launch, Go
    <2>2. CASE Load(d)
      BY <2>2 DEF Load, Go, Refuses
    <2>3. CASE Start(d)
      BY <2>3 DEF Start, Go
    <2>4. CASE Acquire(d)
      BY <2>4, TakeHolds DEF Acquire, Go
    <2>5. CASE AcquireRefused(d)
      BY <2>5 DEF AcquireRefused, Go
    <2>6. CASE Begin(d)
      BY <2>6 DEF Begin, Go
    <2>7. CASE Hear(d)
      BY <2>7 DEF Hear
    <2>8. CASE Abort(d)
      BY <2>8 DEF Abort, Go
    <2>9. CASE Save(d)
      BY <2>9 DEF Save, Go
    <2>10. CASE SaveBaseline(d)
      BY <2>10 DEF SaveBaseline, Go
    <2>11. CASE WriteReport(d)
      BY <2>11 DEF WriteReport, Go
    <2>12. CASE Release(d)
      BY <2>12 DEF Release, Go, GiveBack
    <2>13. CASE Kill(d)
      BY <2>13 DEF Kill
    <2> QED
      BY <1>4, <2>1, <2>2, <2>3, <2>4, <2>5, <2>6, <2>7, <2>8, <2>9, <2>10, <2>11, <2>12,
         <2>13
      DEF Program
  <1> QED
      BY <1>1, <1>2, <1>3, <1>4 DEF Next

\* Whoever is committed to a cassette holds the claim, or is a command that has to be
\* the only writer.
LEMMA CommittedOwns ==
    ASSUME Careful, Inv, NEW d \in Door, Committed(d)
    PROVE  /\ ~Reader(plan[d])
           /\ claim.door = d \/ plan[d].kind \in {"serve", "check"}
  BY PlanTypes
  DEF Inv, TypeInv, TypeOK, Committed, May, Writing, Places, Holders, Readers, Reader,
     Holds, IsSession, Active, DoorPlan, Kind

\* Whoever is committed, or holds the claim for its session, is the only one to write.
LEMMA OneWriter ==
    ASSUME Careful, Inv, NEW d \in Door, NEW e \in Door, May(e),
           Committed(d) \/ Holds(d, "session")
    PROVE  d = e
  <1>1. Committed(e)
      BY DEF Committed
  <1>2. ~Reader(plan[d])
      BY CommittedOwns DEF Inv, Readers
  <1>3. claim.door = d \/ plan[d].kind \in {"serve", "check"}
      BY CommittedOwns DEF Holds
  <1> QED
      BY <1>1, <1>2, <1>3, CommittedOwns, CarefulPlan DEF Inv, TypeInv

\* Only a program that may write, and saves, changes the cassette.
LEMMA FileChange ==
    ASSUME Careful, Inv, Next, file' # file
    PROVE  \E e \in Door :
              /\ May(e) /\ program'[e] # "run" /\ file' = Saved(e)
              /\ \A d \in Door \ {e} : program'[d] = program[d]
              /\ UNCHANGED <<doors, claim, base, heard, report>>
  <1>1. PICK e \in Door : Save(e) \/ SaveBaseline(e)
      BY DEF Next, Session, Program, Break, Crash, doors, programs, Open, Enter, EnterClaim,
         EnterRefused, EnterSettle, CallToReplay, CallToWrite, CallRefused, Claim,
         ClaimRefused, Settle, Settled, SettleFails, End, CloseDerived, Close, ClosingDone, Check,
         Launch, Load, Start, Acquire, AcquireRefused, Begin, Hear, Abort, WriteReport,
         Release, Kill
  <1>2. file' = Saved(e) /\ Go(e, "run", program'[e]) /\ program'[e] # "run"
        /\ UNCHANGED <<doors, claim, base, heard, report>>
      BY <1>1 DEF Save, SaveBaseline, Go, Inv, TypeInv, TypeOK
  <1>3. Writing(e)
      BY <1>2 DEF Saved, Writing
  <1> QED
      BY <1>2, <1>3 DEF May, Go, Inv, TypeInv, TypeOK

\* A save that sets out from a cassette leaves one.
LEMMA SavedKept ==
    ASSUME Inv, NEW d \in Door, Exists, base[d] = file
    PROVE  Saved(d) # Missing
  BY DEF Inv, TypeInv, TypeOK, Saved, Exists, Missing, Cassettes

\* While a door is committed nobody else saves: the cassette stays the one it set out from.
LEMMA FreshStep ==
    ASSUME Careful, Inv, Next
    PROVE  Fresh'
  <1> USE PlanTypes, CarefulPlan, NobodyHolds
     DEF Inv, TypeInv, TypeOK, doors, programs, IsSession, InProcess, Root, Holds, Writing,
      Active, Over, Planned, Quiet, NoClaim, CommandAction, Places, Fresh, Committed, May,
      Holders
  <1>1. CASE Break
      BY <1>1 DEF Break, HolderDead
  <1>2. ASSUME NEW d \in Door, Crash(plan[d].pid) PROVE Fresh'
      BY <1>2 DEF Crash
  <1>3. ASSUME NEW d \in Door, Session(d) PROVE Fresh'
    <2>1. CASE Open(d)
      BY <2>1 DEF Open, Move
    <2>2. CASE Enter(d)
      BY <2>2 DEF Enter, Move, Resolved
    <2>3. CASE EnterClaim(d)
      BY <2>3, TakeHolds DEF EnterClaim, Move
    <2>4. CASE EnterRefused(d)
      BY <2>4 DEF EnterRefused, Move
    <2>5. CASE EnterSettle(d)
      BY <2>5 DEF EnterSettle, Move, GiveBack, Resolved
    <2>6. CASE CallToReplay(d)
      BY <2>6 DEF CallToReplay, Calling, Inside, Move, HandedOut, Resolved, Allowed
    <2>7. CASE CallToWrite(d)
      BY <2>7 DEF CallToWrite, Calling, Inside, Move, Allowed, Resolved
    <2>8. CASE CallRefused(d)
      BY <2>8 DEF CallRefused, Calling, Inside, Fail
    <2>9. CASE Claim(d)
      BY <2>9, TakeHolds DEF Claim, Move
    <2>10. CASE ClaimRefused(d)
      BY <2>10 DEF ClaimRefused, Fail, Readers, Reader
    <2>11. CASE Settle(d)
      BY <2>11 DEF Settle, Settled, Move, HandedOut, GiveBack, Resolved
    <2>12. CASE SettleFails(d)
      BY <2>12 DEF SettleFails, Fail, Readers, Reader
    <2>13. CASE \E how \in {"ok", "error"} : End(d, how)
      BY <2>13 DEF End, Inside
    <2>14. CASE CloseDerived(d)
      BY <2>14 DEF CloseDerived, Inside
    <2>15. CASE Close(d)
      BY <2>15 DEF Close, ClosingDone, Stopped, Move, GiveBack
    <2>16. CASE Check(d)
      BY <2>16 DEF Check, Move
    <2> QED
      BY <1>3, <2>1, <2>2, <2>3, <2>4, <2>5, <2>6, <2>7, <2>8, <2>9, <2>10, <2>11, <2>12,
         <2>13, <2>14, <2>15, <2>16
      DEF Session
  <1>4. ASSUME NEW d \in Door, Program(d) PROVE Fresh'
    <2>1. CASE Launch(d)
      BY <2>1 DEF Launch, Go
    <2>2. CASE Load(d)
      BY <2>2 DEF Load, Go, Refuses
    <2>3. CASE Start(d)
      BY <2>3 DEF Start, Go
    <2>4. CASE Acquire(d)
      BY <2>4, TakeHolds DEF Acquire, Go
    <2>5. CASE AcquireRefused(d)
      BY <2>5 DEF AcquireRefused, Go
    <2>6. CASE Begin(d)
      BY <2>6 DEF Begin, Go
    <2>7. CASE Hear(d)
      BY <2>7 DEF Hear
    <2>8. CASE Abort(d)
      BY <2>8 DEF Abort, Go
    <2>9. CASE Save(d)
      BY <2>9, OneWriter, FileChange DEF Save, Go
    <2>10. CASE SaveBaseline(d)
      BY <2>10, OneWriter, FileChange DEF SaveBaseline, Go
    <2>11. CASE WriteReport(d)
      BY <2>11 DEF WriteReport, Go
    <2>12. CASE Release(d)
      BY <2>12 DEF Release, Go, GiveBack
    <2>13. CASE Kill(d)
      BY <2>13 DEF Kill
    <2> QED
      BY <1>4, <2>1, <2>2, <2>3, <2>4, <2>5, <2>6, <2>7, <2>8, <2>9, <2>10, <2>11, <2>12,
         <2>13
      DEF Program
  <1> QED
      BY <1>1, <1>2, <1>3, <1>4 DEF Next

\* What mode once resolved to under the claim stays true until the recording is saved.
LEMMA OnceStep ==
    ASSUME Careful, Inv, Next
    PROVE  OnceRecords'
  <1> USE PlanTypes, CarefulPlan, NobodyHolds
     DEF Inv, TypeInv, TypeOK, doors, programs, IsSession, InProcess, Root, Holds, Writing,
      Active, Over, Planned, Quiet, NoClaim, CommandAction, Places, Holders, Fresh,
      OnceRecords, Committed, May, Recorded, Exists
  <1>1. CASE Break
      BY <1>1 DEF Break, HolderDead
  <1>2. ASSUME NEW d \in Door, Crash(plan[d].pid) PROVE OnceRecords'
      BY <1>2 DEF Crash
  <1>3. ASSUME NEW d \in Door, Session(d) PROVE OnceRecords'
    <2>1. CASE Open(d)
      BY <2>1 DEF Open, Move
    <2>2. CASE Enter(d)
      BY <2>2 DEF Enter, Move, Resolved
    <2>3. CASE EnterClaim(d)
      BY <2>3, TakeHolds DEF EnterClaim, Move
    <2>4. CASE EnterRefused(d)
      BY <2>4 DEF EnterRefused, Move
    <2>5. CASE EnterSettle(d)
      BY <2>5 DEF EnterSettle, Move, GiveBack, Resolved
    <2>6. CASE CallToReplay(d)
      BY <2>6 DEF CallToReplay, Calling, Inside, Move, HandedOut, Resolved, Allowed
    <2>7. CASE CallToWrite(d)
      BY <2>7 DEF CallToWrite, Calling, Inside, Move, Allowed, Resolved
    <2>8. CASE CallRefused(d)
      BY <2>8 DEF CallRefused, Calling, Inside, Fail
    <2>9. CASE Claim(d)
      BY <2>9, TakeHolds DEF Claim, Move
    <2>10. CASE ClaimRefused(d)
      BY <2>10 DEF ClaimRefused, Fail, Readers, Reader
    <2>11. CASE Settle(d)
      BY <2>11 DEF Settle, Settled, Move, HandedOut, GiveBack, Resolved
    <2>12. CASE SettleFails(d)
      BY <2>12 DEF SettleFails, Fail, Readers, Reader
    <2>13. CASE \E how \in {"ok", "error"} : End(d, how)
      BY <2>13 DEF End, Inside
    <2>14. CASE CloseDerived(d)
      BY <2>14 DEF CloseDerived, Inside
    <2>15. CASE Close(d)
      BY <2>15 DEF Close, ClosingDone, Stopped, Move, GiveBack
    <2>16. CASE Check(d)
      BY <2>16 DEF Check, Move
    <2> QED
      BY <1>3, <2>1, <2>2, <2>3, <2>4, <2>5, <2>6, <2>7, <2>8, <2>9, <2>10, <2>11, <2>12,
         <2>13, <2>14, <2>15, <2>16
      DEF Session
  <1>4. ASSUME NEW d \in Door, Program(d) PROVE OnceRecords'
    <2>1. CASE Launch(d)
      BY <2>1 DEF Launch, Go
    <2>2. CASE Load(d)
      BY <2>2 DEF Load, Go, Refuses
    <2>3. CASE Start(d)
      BY <2>3 DEF Start, Go
    <2>4. CASE Acquire(d)
      BY <2>4, TakeHolds DEF Acquire, Go
    <2>5. CASE AcquireRefused(d)
      BY <2>5 DEF AcquireRefused, Go
    <2>6. CASE Begin(d)
      BY <2>6 DEF Begin, Go
    <2>7. CASE Hear(d)
      BY <2>7 DEF Hear
    <2>8. CASE Abort(d)
      BY <2>8 DEF Abort, Go
    <2>9. CASE Save(d)
      <3>1. file' = Saved(d) /\ program[d] = "run" /\ program' = [program EXCEPT ![d] = "report"]
            /\ UNCHANGED <<doors, claim, base, heard>>
          BY <2>9 DEF Save, Go
      <3>2. CASE ~May(d)
          BY <3>1, <3>2 DEF Saved
      <3>3. CASE May(d)
        <4>1. base[d] = file
            BY <3>3
        <4>2. Exists => Exists'
            BY <3>1, <4>1, SavedKept
        <4>3. action[d] = "record" /\ "message" \in heard[d] => Exists'
            BY <3>1 DEF Saved, Missing
        <4>4. \A e \in Door \ {d} : ~Committed(e) /\ ~Holds(e, "session")
            BY <3>3, OneWriter
        <4>5. session[d] # "open"
            BY <3>1
        <4> QED
            BY <3>1, <4>2, <4>3, <4>4, <4>5
      <3> QED
          BY <3>2, <3>3
    <2>10. CASE SaveBaseline(d)
      BY <2>10, OneWriter, SavedKept, FileChange DEF SaveBaseline, Go
    <2>11. CASE WriteReport(d)
      BY <2>11 DEF WriteReport, Go
    <2>12. CASE Release(d)
      BY <2>12 DEF Release, Go, GiveBack
    <2>13. CASE Kill(d)
      BY <2>13 DEF Kill
    <2> QED
      BY <1>4, <2>1, <2>2, <2>3, <2>4, <2>5, <2>6, <2>7, <2>8, <2>9, <2>10, <2>11, <2>12,
         <2>13
      DEF Program
  <1> QED
      BY <1>1, <1>2, <1>3, <1>4 DEF Next
\* A second recording in mode once would have set out from a cassette that is there.
LEMMA OneRecordsStep ==
    ASSUME Careful, Inv, OneRecords, Next
    PROVE  OneRecords'
  <1> USE PlanTypes, CarefulPlan, NobodyHolds
     DEF Inv, TypeInv, TypeOK, doors, programs, IsSession, Places, OneRecords, Recorded,
      Active, Over, Quiet
  <1>1. CASE Break
      BY <1>1 DEF Break, HolderDead
  <1>2. ASSUME NEW d \in Door, Crash(plan[d].pid) PROVE OneRecords'
      BY <1>2 DEF Crash
  <1>3. ASSUME NEW d \in Door, Session(d) PROVE OneRecords'
    <2>1. CASE Open(d)
      BY <2>1 DEF Open, Move
    <2>2. CASE Enter(d)
      BY <2>2 DEF Enter, Move, Resolved
    <2>3. CASE EnterClaim(d)
      BY <2>3, TakeHolds DEF EnterClaim, Move
    <2>4. CASE EnterRefused(d)
      BY <2>4 DEF EnterRefused, Move
    <2>5. CASE EnterSettle(d)
      BY <2>5 DEF EnterSettle, Move, GiveBack, Resolved
    <2>6. CASE CallToReplay(d)
      BY <2>6 DEF CallToReplay, Calling, Inside, Move, HandedOut, Resolved, Allowed
    <2>7. CASE CallToWrite(d)
      BY <2>7 DEF CallToWrite, Calling, Inside, Move, Allowed, Resolved
    <2>8. CASE CallRefused(d)
      BY <2>8 DEF CallRefused, Calling, Inside, Fail
    <2>9. CASE Claim(d)
      BY <2>9, TakeHolds DEF Claim, Move
    <2>10. CASE ClaimRefused(d)
      BY <2>10 DEF ClaimRefused, Fail
    <2>11. CASE Settle(d)
      BY <2>11 DEF Settle, Settled, Move, HandedOut, GiveBack, Resolved
    <2>12. CASE SettleFails(d)
      BY <2>12 DEF SettleFails, Fail
    <2>13. CASE \E how \in {"ok", "error"} : End(d, how)
      BY <2>13 DEF End, Inside
    <2>14. CASE CloseDerived(d)
      BY <2>14 DEF CloseDerived, Inside
    <2>15. CASE Close(d)
      BY <2>15 DEF Close, ClosingDone, Stopped, Move, GiveBack
    <2>16. CASE Check(d)
      BY <2>16 DEF Check, Move
    <2> QED
      BY <1>3, <2>1, <2>2, <2>3, <2>4, <2>5, <2>6, <2>7, <2>8, <2>9, <2>10, <2>11, <2>12,
         <2>13, <2>14, <2>15, <2>16
      DEF Session
  <1>4. ASSUME NEW d \in Door, Program(d) PROVE OneRecords'
    <2>1. CASE Launch(d)
      BY <2>1 DEF Launch, Go
    <2>2. CASE Load(d)
      BY <2>2 DEF Load, Go, Refuses
    <2>3. CASE Start(d)
      BY <2>3 DEF Start, Go
    <2>4. CASE Acquire(d)
      BY <2>4, TakeHolds DEF Acquire, Go
    <2>5. CASE AcquireRefused(d)
      BY <2>5 DEF AcquireRefused, Go
    <2>6. CASE Begin(d)
      BY <2>6 DEF Begin, Go
    <2>7. CASE Hear(d)
      BY <2>7 DEF Hear
    <2>8. CASE Abort(d)
      BY <2>8 DEF Abort, Go
    <2>9. CASE Save(d)
      <3>1. \A e \in Door \ {d} : Recorded(e)' => Recorded(e)
          BY <2>9 DEF Save, Go
      <3>2. CASE IsSession(d) /\ plan[d].mode = "once" /\ action[d] = "record"
        <4>1. program[d] = "run" /\ Committed(d)
            BY <2>9, <3>2 DEF Save, Go, Committed, May, Writing
        <4>2. ~Exists
            BY <3>2, <4>1 DEF OnceRecords, Fresh, Exists
        <4>3. \A e \in Door : IsSession(e) /\ plan[e].mode = "once" => ~Recorded(e)
            BY <4>2 DEF OnceRecords
        <4> QED
            BY <2>9, <3>1, <4>3 DEF Save
      <3>3. CASE ~(IsSession(d) /\ plan[d].mode = "once" /\ action[d] = "record")
          BY <2>9, <3>1, <3>3 DEF Save
      <3> QED
          BY <3>2, <3>3
    <2>10. CASE SaveBaseline(d)
      BY <2>10, OneWriter, SavedKept, FileChange DEF SaveBaseline, Go
    <2>11. CASE WriteReport(d)
      BY <2>11 DEF WriteReport, Go
    <2>12. CASE Release(d)
      BY <2>12 DEF Release, Go, GiveBack
    <2>13. CASE Kill(d)
      BY <2>13 DEF Kill
    <2> QED
      BY <1>4, <2>1, <2>2, <2>3, <2>4, <2>5, <2>6, <2>7, <2>8, <2>9, <2>10, <2>11, <2>12,
         <2>13
      DEF Program
  <1> QED
      BY <1>1, <1>2, <1>3, <1>4 DEF Next

\* The invariant holds initially.
LEMMA InvInit == Careful /\ Init => Inv
  BY TypeInit DEF Init, Inv, TypeInv, TypeOK, Places, Holders, Readers, Fresh, OnceRecords,
     Committed, May, Writing, Recorded, Holds, NoClaim, IsSession, InProcess, CommandAction,
     Active, Over

\* Every step keeps the invariant.
LEMMA InvStep ==
    ASSUME Careful, Inv, [Next]_vars
    PROVE  Inv'
  <1>1. CASE Next
      BY <1>1, TypeStep, PlacesStep, HoldersStep, ReadersStep, FreshStep, OnceStep DEF Inv
  <1>2. CASE UNCHANGED vars
      BY <1>2 DEF vars, doors, programs, Inv, TypeInv, TypeOK, Planned, Quiet, Places, Holders,
         Readers, Fresh, OnceRecords, Committed, May, Writing, Recorded, Holds, Exists,
         IsSession, InProcess
  <1> QED
      BY <1>1, <1>2

\* The invariant of careful doors: places, holders, readers, and what they set out from.
THEOREM Invariance == ASSUME Careful PROVE Spec => []Inv
  BY InvInit, InvStep, PTL DEF Spec

\* For careful doors no recording is lost: a save replaces the cassette it set out from.
THEOREM NothingLost == ASSUME Careful PROVE Spec => NoLostRecording
  <1>1. ASSUME Inv, [Next]_vars
        PROVE  [\A d \in Door : program[d] = "run" /\ program'[d] # "run" /\ file' # file
                    => file = base[d]]_vars
    <2> SUFFICES ASSUME Next, file' # file, NEW d \in Door, program'[d] # program[d]
                 PROVE  file = base[d]
        BY <1>1
    <2> QED
        BY <1>1, FileChange DEF Inv, Fresh, Committed
  <1> QED
      BY <1>1, Invariance, PTL DEF Spec, NoLostRecording

\* A session that has been closed does not hold the claim.
GivenBack ==
    \A d \in Door : Holds(d, "session") =>
        session[d] \in {"entered", "open", "settle", "out", "closing", "dead"}

\* For any doors, careful or not, and on whatever way it ends: a session has given the claim
\* back by the end.
THEOREM ClaimEndsWithSession ==
    Spec => [](\A d \in Door : Holds(d, "session") => session[d] # "ended")
  <1> USE DEF GivenBack, Holds
  <1>1. Init => GivenBack
    BY NobodyHolds DEF Init, NoClaim
  <1>2. ASSUME TypeInv, GivenBack, [Next]_vars PROVE GivenBack'
    <2> USE DEF TypeInv, TypeOK
    <2>1. ASSUME NEW d \in Door, Session(d) PROVE GivenBack'
      <3> USE NobodyHolds DEF NoClaim, Take, GiveBack, Move
      <3>1. CASE Open(d) \/ Enter(d) \/ EnterClaim(d) \/ EnterRefused(d) \/ EnterSettle(d)
        BY <1>2, <3>1 DEF Open, Enter, EnterClaim, EnterRefused, EnterSettle
      <3>2. CASE CallToReplay(d) \/ CallToWrite(d) \/ CallRefused(d) \/ SettleFails(d)
        BY <1>2, <3>2 DEF CallToReplay, CallToWrite, CallRefused, SettleFails, Fail
      <3>3. CASE Claim(d) \/ ClaimRefused(d)
        BY <1>2, <3>3 DEF Claim, ClaimRefused, Fail
      <3>4. CASE Settle(d)
        BY <1>2, <3>4 DEF Settle, Settled
      <3>5. CASE (\E how \in {"ok", "error"} : End(d, how)) \/ CloseDerived(d)
        BY <1>2, <3>5 DEF End, CloseDerived
      <3>6. CASE Close(d) \/ Check(d)
        BY <1>2, <3>6 DEF Close, ClosingDone, Check
      <3> QED
        BY <2>1, <3>1, <3>2, <3>3, <3>4, <3>5, <3>6 DEF Session
    <2>2. ASSUME NEW d \in Door, Program(d) PROVE GivenBack'
      BY <1>2, <2>2, NobodyHolds DEF Program, Launch, Load, Start, Acquire, AcquireRefused, Begin, Hear,
         Abort, Save, SaveBaseline, WriteReport, Release, Kill, Take, GiveBack, NoClaim, doors
    <2>3. ASSUME NEW d \in Door, Crash(plan[d].pid) PROVE GivenBack'
      BY <1>2, <2>3 DEF Crash
    <2>4. CASE Break
      BY <1>2, <2>4, NobodyHolds DEF Break, NoClaim, doors
    <2>5. CASE UNCHANGED vars
      BY <1>2, <2>5 DEF vars, doors
    <2> QED
      BY <1>2, <2>1, <2>2, <2>3, <2>4, <2>5 DEF Next
  <1>3. GivenBack => \A d \in Door : Holds(d, "session") => session[d] # "ended"
    OBVIOUS
  <1> QED
    BY <1>1, <1>2, <1>3, TypeInit, TypeStep, PTL DEF Spec

\* For careful doors a session holds the claim no longer than it may write.  The doors have
\* to be careful for the half about replaying: where check --record, which takes no claim,
\* leaves a cassette under an async session, that session keeps the claim and replays.
THEOREM ClaimFollows == ASSUME Careful PROVE Spec => []ClaimFollowsUse
  <1>1. Inv => ClaimFollowsUse
      BY DEF Inv, Holders, ClaimFollowsUse, Writing
  <1> QED
      BY <1>1, Invariance, PTL

\* For careful doors a single session in mode once records, and the rest replay.
THEOREM OnlyOneRecords == ASSUME Careful PROVE Spec => []OneRecords
  <1>1. Init => OneRecords
      BY DEF Init, OneRecords, Recorded
  <1>2. ASSUME Inv, OneRecords, [Next]_vars
        PROVE  OneRecords'
    <2>1. CASE Next
        BY <1>2, <2>1, OneRecordsStep
    <2>2. CASE UNCHANGED vars
        BY <2>2, <1>2 DEF vars, doors, programs, OneRecords, Recorded, IsSession
    <2> QED
        BY <1>2, <2>1, <2>2
  <1> QED
      BY <1>1, <1>2, Invariance, PTL DEF Spec

\* The claim stays, or is taken while nobody writes, or given back while nobody writes.
LEMMA ClaimStep ==
    ASSUME Careful, Inv, Next, claim' # claim
    PROVE  \/ /\ claim = NoClaim /\ claim'.door \in Door
              /\ Writers' = Writers
           \/ claim.door \in Door /\ claim' = NoClaim /\ claim.door \notin Writers
  <1> DEFINE Taken == claim = NoClaim /\ claim'.door \in Door /\ Writers' = Writers
             Freed == claim.door \in Door /\ claim' = NoClaim /\ claim.door \notin Writers
  <1> SUFFICES Taken \/ Freed
      OBVIOUS
  <1> USE DEF Inv, TypeInv, TypeOK, doors, programs
  <1>1. CASE Break
      BY <1>1 DEF Break, HolderDead, Writers, Places, IsSession, Active, NoClaim
  <1>2. ASSUME NEW d \in Door, EnterClaim(d) \/ Claim(d) PROVE Taken
      BY <1>2 DEF EnterClaim, Claim, Take, Writers
  <1>3. ASSUME NEW d \in Door, Acquire(d) PROVE Taken
      BY <1>3 DEF Acquire, Go, Take, Writers
  <1>4. ASSUME NEW d \in Door, EnterSettle(d) \/ Settle(d) PROVE Freed
      BY <1>4 DEF EnterSettle, Settle, Settled, Move, GiveBack, Holds, Writers, Quiet
  <1>5. ASSUME NEW d \in Door, Close(d) PROVE Freed
      BY <1>5, CarefulPlan
      DEF Close, ClosingDone, Stopped, Move, GiveBack, Holds, Writers, Over, Places, InProcess
  <1>6. ASSUME NEW d \in Door, Release(d) PROVE Freed
      BY <1>6 DEF Release, Go, GiveBack, Holds, Writers
  <1> QED
      BY <1>1, <1>2, <1>3, <1>4, <1>5, <1>6
      DEF Next, Session, Program, Crash, Open, Enter, EnterRefused, CallToReplay, CallToWrite,
          CallRefused, ClaimRefused, SettleFails, End, CloseDerived, Check, Launch, Load, Start,
          AcquireRefused, Begin, Hear, Abort, Save, SaveBaseline, WriteReport, Kill

\* A step of the doors is a step of the lock, or leaves it alone.
LEMMA LockStep ==
    ASSUME Careful, Inv, Inv', [Next]_vars
    PROVE  [Lock!Next]_Lock!vars
  <1>1. Writers \subseteq {claim.door} /\ Writers' \subseteq {claim'.door}
      BY DEF Writers, Inv, TypeInv, TypeOK, Places, Holders, Holds, IsSession, Active, Writing
  <1>2. CASE claim' = claim
    <2>1. claim.door \in Door \/ Writers \cup Writers' = {}
        BY <1>1, <1>2 DEF Writers
    <2>2. Writers' = Writers \/ (Writers = {} /\ Writers' = {claim.door})
              \/ (Writers = {claim.door} /\ Writers' = {})
        BY <1>1, <1>2
    <2> QED
        BY <1>2, <2>1, <2>2 DEF Lock!Next, Lock!Start, Lock!Stop, Lock!vars
  <1>3. CASE claim' # claim
    <2>1. Next
        BY <1>3 DEF vars
    <2>2. CASE claim = NoClaim /\ claim'.door \in Door /\ Writers' = Writers
        BY <2>2 DEF Lock!Next, Lock!Take, NoClaim
    <2>3. CASE claim.door \in Door /\ claim' = NoClaim /\ claim.door \notin Writers
        BY <1>1, <2>3, NobodyHolds DEF Lock!Next, Lock!Free, NoClaim, Writers
    <2> QED
        BY <1>3, <2>1, <2>2, <2>3, ClaimStep
  <1> QED
      BY <1>2, <1>3

\* For careful doors the claim is the lock of WriterLock, whoever holds it for whom.
THEOREM DoorsImplementLock == ASSUME Careful PROVE Spec => ImplementsLock
  <1>1. Init => Lock!Init
    <2> SUFFICES ASSUME Init PROVE Lock!Init
        OBVIOUS
    <2>1. \A d \in Door : program[d] # "run"
        BY DEF Init, IsSession
    <2> QED
        BY <2>1 DEF Init, Lock!Init, Writers, NoClaim
  <1>2. ASSUME Inv, Inv', [Next]_vars PROVE [Lock!Next]_Lock!vars
      BY <1>2, LockStep
  <1> QED
      BY <1>1, <1>2, Invariance, PTL DEF Spec, ImplementsLock, Lock!Spec

-----------------------------------------------------------------------------
(* How a session ends *)

\* A program that is not going to do anything.
Rest == Over \cup {"none", "ready"}

\* While a derived session goes on, the one it came from has not ended; a session that has
\* ended, or died, has nothing running.
Enclosed ==
    \A e \in Door :
        plan[e].parent # NoDoor /\ session[e] \notin {"new", "ended", "dead"} =>
            session[plan[e].parent] \in {"open", "claim", "settle", "out", "closing", "dead"}
Rested == \A d \in Door : session[d] \in {"closed", "ended", "dead"} => program[d] \in Rest

\* Only the outermost session ends well by itself.
Outermost == \A d \in Door : outcome[d] = "ok" => Root(d) = d

\* What the program of a session reported is in its report, if that is its own.
Report(d) ==
    [messages |-> action[d] = "append" \/ "message" \in heard[d],
     misses |-> "miss" \in heard[d], written |-> TRUE]
Told ==
    /\ DOMAIN report = {plan[d].report : d \in Door}
    /\ \A d \in Door :
          IsSession(d) /\ program[d] \in {"release", "done"} /\ Alone(d) =>
              report[plan[d].report] = Report(d)

EndInv == Enclosed /\ Rested /\ Outermost /\ Told /\ BadRunsFail

\* A program's step is no step of a session, and most of a session's steps none of a program.
LEMMA ProgramsLeaveSessions ==
    ASSUME NEW d \in Door, Program(d)
    PROVE  UNCHANGED doors
  BY DEF Program, Launch, Load, Start, Acquire, AcquireRefused, Begin, Hear, Abort, Save,
     SaveBaseline, WriteReport, Release, Kill

LEMMA SessionsLeavePrograms ==
    ASSUME NEW d \in Door, Session(d)
    PROVE  \/ CallToReplay(d) \/ Settle(d)
           \/ UNCHANGED <<plan, action, program, base, heard, report>>
  BY DEF Session, Open, Enter, EnterClaim, EnterRefused, EnterSettle, CallToWrite, CallRefused,
     Claim, ClaimRefused, SettleFails, End, CloseDerived, Close, ClosingDone, Check, programs

\* A program is handed out where there was none, by a session that goes out with it.
LEMMA HandingOut ==
    ASSUME Inv, NEW d \in Door, CallToReplay(d) \/ Settle(d)
    PROVE  /\ session[d] \in {"open", "settle"} /\ program[d] = "none"
           /\ session' = [session EXCEPT ![d] = "out"]
           /\ \E to \in {"ready", "run", "load"} : program' = [program EXCEPT ![d] = to]
           /\ \E act \in {"record", "replay", "append"} : action' = [action EXCEPT ![d] = act]
           /\ UNCHANGED <<plan, outcome, heard, report>>
  BY DEF CallToReplay, Calling, Settle, Settled, Move, HandedOut, Resolved, Inv, TypeInv, Quiet

\* An action stays chosen, so that a session that is alone now has always been.
LEMMA StaysAlone ==
    ASSUME Inv, Next, NEW d \in Door, Alone(d)'
    PROVE  Alone(d)
  <1>1. plan' = plan /\ \A e \in Door : action'[e] = "none" => action[e] = "none"
    <2>1. CASE Break \/ \E e \in Door : Crash(plan[e].pid)
      BY <2>1 DEF Break, Crash, doors
    <2>2. ASSUME NEW e \in Door, Program(e) PROVE UNCHANGED <<plan, action>>
      BY <2>2, ProgramsLeaveSessions DEF doors
    <2>3. ASSUME NEW e \in Door, Session(e), ~UNCHANGED <<plan, action>>
          PROVE  plan' = plan /\ \E act : act # "none" /\ action' = [action EXCEPT ![e] = act]
      <3>1. CallToReplay(e) \/ Settle(e)
        BY <2>3, SessionsLeavePrograms
      <3> QED
        BY <3>1, HandingOut
    <2> QED
      BY <2>1, <2>2, <2>3 DEF Next, Inv, TypeInv, TypeOK
  <1> QED
    BY <1>1 DEF Alone

\* A derived session opens inside the one it comes from, which then waits for its end.
LEMMA EnclosedStep ==
    ASSUME Careful, Inv, Enclosed, Next
    PROVE  Enclosed'
  <1> USE PlanTypes, NobodyHolds DEF Inv, TypeInv, TypeOK, Enclosed, Root, Inside
  <1>1. CASE Break
    BY <1>1 DEF Break, doors
  <1>2. ASSUME NEW d \in Door, Crash(plan[d].pid) PROVE Enclosed'
    BY <1>2 DEF Crash, IsSession, Places
  <1>3. ASSUME NEW d \in Door, Program(d) PROVE Enclosed'
    BY <1>3, ProgramsLeaveSessions DEF doors
  <1>4. ASSUME NEW d \in Door, Session(d) PROVE Enclosed'
    <2>1. CASE Open(d)
      BY <2>1 DEF Open, Move
    <2>2. CASE Enter(d) \/ EnterClaim(d) \/ EnterRefused(d) \/ EnterSettle(d)
      BY <2>2 DEF Enter, EnterClaim, EnterRefused, EnterSettle, Move
    <2>3. CASE CallToReplay(d) \/ CallToWrite(d) \/ Claim(d) \/ Settle(d)
      BY <2>3 DEF CallToReplay, CallToWrite, Claim, Settle, Settled, Calling, Move
    <2>4. CASE CallRefused(d) \/ ClaimRefused(d) \/ SettleFails(d)
      BY <2>4 DEF CallRefused, ClaimRefused, SettleFails, Calling, Fail
    <2>5. CASE (\E how \in {"ok", "error"} : End(d, how)) \/ CloseDerived(d)
      BY <2>5 DEF End, CloseDerived
    <2>6. CASE Close(d)
      BY <2>6 DEF Close, ClosingDone, Move, Derived
    <2>7. CASE Check(d)
      BY <2>7 DEF Check, Move
    <2> QED
      BY <1>4, <2>1, <2>2, <2>3, <2>4, <2>5, <2>6, <2>7 DEF Session
  <1> QED
    BY <1>1, <1>2, <1>3, <1>4 DEF Next

\* A session ends when its program has; a command that was never launched stays so, for
\* its client is patient.
LEMMA RestedStep ==
    ASSUME Careful, Inv, Rested, Next
    PROVE  Rested'
  <1> USE PlanTypes, CarefulPlan
      DEF Inv, TypeInv, TypeOK, Rested, Rest, Over, Active, Places, IsSession, InProcess
  <1>1. CASE Break
    BY <1>1 DEF Break, doors, programs
  <1>2. ASSUME NEW d \in Door, Crash(plan[d].pid) PROVE Rested'
    BY <1>2 DEF Crash
  <1>3. ASSUME NEW d \in Door, Program(d) PROVE Rested'
    <2>1. UNCHANGED doors
      BY <1>3, ProgramsLeaveSessions
    <2>2. \A e \in Door \ {d} : program'[e] = program[e]
      BY <1>3 DEF Program, Go, Launch, Load, Start, Acquire, AcquireRefused, Begin, Hear, Abort,
         Save, SaveBaseline, WriteReport, Release, Kill
    <2>3. \/ program[d] \in Active \/ program'[d] = program[d]
          \/ program[d] = "ready" /\ (plan[d].patient => session[d] \in {"out", "cli"})
      BY <1>3 DEF Program, Go, Launch, Load, Start, Acquire, AcquireRefused, Begin, Hear, Abort,
         Save, SaveBaseline, WriteReport, Release, Kill
    <2> QED
      BY <2>1, <2>2, <2>3 DEF doors
  <1>4. ASSUME NEW d \in Door, Session(d) PROVE Rested'
    <2>1. CASE Open(d) \/ Enter(d) \/ EnterClaim(d) \/ EnterRefused(d) \/ EnterSettle(d)
      BY <2>1 DEF Open, Enter, EnterClaim, EnterRefused, EnterSettle, Move, programs, Quiet
    <2>2. CASE CallToReplay(d) \/ Settle(d)
      BY <2>2, HandingOut
    <2>3. CASE CallToWrite(d) \/ Claim(d)
      BY <2>3 DEF CallToWrite, Claim, Move, programs
    <2>4. CASE CallRefused(d) \/ ClaimRefused(d) \/ SettleFails(d)
      BY <2>4 DEF CallRefused, ClaimRefused, SettleFails, Fail, programs
    <2>5. CASE (\E how \in {"ok", "error"} : End(d, how)) \/ CloseDerived(d)
      BY <2>5 DEF End, CloseDerived, programs
    <2>6. CASE Close(d)
      BY <2>6 DEF Close, ClosingDone, Move, Stopped, programs
    <2>7. CASE Check(d)
      BY <2>7 DEF Check, Move, programs
    <2> QED
      BY <1>4, <2>1, <2>2, <2>3, <2>4, <2>5, <2>6, <2>7 DEF Session
  <1> QED
    BY <1>1, <1>2, <1>3, <1>4 DEF Next

\* Only the end of its body makes a session end well.
LEMMA OutermostStep ==
    ASSUME Inv, Outermost, Next
    PROVE  Outermost'
  <1> USE PlanTypes DEF Inv, TypeInv, TypeOK, Outermost, Root
  <1>1. CASE Break \/ \E d \in Door : Crash(plan[d].pid)
    BY <1>1 DEF Break, Crash, doors
  <1>2. ASSUME NEW d \in Door, Program(d) PROVE Outermost'
    BY <1>2, ProgramsLeaveSessions DEF doors
  <1>3. ASSUME NEW d \in Door, Session(d) PROVE Outermost'
    <2>1. \/ plan' = plan /\ outcome' = outcome
          \/ plan' = plan /\ \E e \in Door : outcome' = [outcome EXCEPT ![e] = "error"]
          \/ plan' = plan /\ Root(d) = d /\ \E how : outcome' = [outcome EXCEPT ![d] = how]
      BY <1>3 DEF Session, Open, Enter, EnterClaim, EnterRefused, EnterSettle, CallToReplay,
         CallToWrite, CallRefused, Claim, ClaimRefused, Settle, Settled, SettleFails, Fail, End,
         CloseDerived, Close, ClosingDone, Check
    <2> QED
      BY <2>1
  <1> QED
    BY <1>1, <1>2, <1>3 DEF Next

\* What is heard is reported, and what was reported stays while nobody else has the path.
LEMMA ToldStep ==
    ASSUME Inv, Told, Next
    PROVE  Told'
  <1> USE PlanTypes DEF Inv, TypeInv, TypeOK, Told, Report, IsSession
  <1>0. plan' = plan
    BY DEF Next, Session, Program, Break, Crash, doors, Open, Enter, EnterClaim,
       EnterRefused, EnterSettle, CallToReplay, CallToWrite, CallRefused, Claim,
       ClaimRefused, Settle, Settled, SettleFails, End, CloseDerived, Close, ClosingDone, Check,
       Launch, Load, Start, Acquire, AcquireRefused, Begin, Hear, Abort, Save, SaveBaseline,
       WriteReport, Release, Kill
  <1>1. DOMAIN report' = DOMAIN report
    <2>1. ASSUME NEW e \in Door, Program(e)
          PROVE  report' = report \/ \E r, v : report' = [report EXCEPT ![r] = v]
      BY <2>1 DEF Program, Launch, Load, Start, Acquire, AcquireRefused, Begin, Hear, Abort,
         Save, SaveBaseline, WriteReport, Release, Kill
    <2>2. ASSUME NEW e \in Door, Session(e) PROVE report' = report
      BY <2>2, SessionsLeavePrograms, HandingOut
    <2>3. CASE Break \/ \E e \in Door : Crash(plan[e].pid)
      BY <2>3 DEF Break, Crash, programs
    <2> QED
      BY <2>1, <2>2, <2>3 DEF Next
  <1>2. SUFFICES ASSUME NEW d \in Door, IsSession(d), program'[d] \in {"release", "done"}, Alone(d)
                 PROVE  report'[plan[d].report] = Report(d)'
    BY <1>0, <1>1, StaysAlone
  <1>3. CASE Break \/ \E e \in Door : Crash(plan[e].pid)
    BY <1>2, <1>3 DEF Break, Crash, doors, programs
  <1>4. ASSUME NEW e \in Door, Session(e) PROVE report'[plan[d].report] = Report(d)'
    <2>1. CASE CallToReplay(e) \/ Settle(e)
      BY <1>2, <2>1, HandingOut
    <2>2. CASE UNCHANGED <<plan, action, program, base, heard, report>>
      BY <1>2, <2>2
    <2> QED
      BY <1>4, <2>1, <2>2, SessionsLeavePrograms
  <1>5. ASSUME NEW e \in Door, Program(e) PROVE report'[plan[d].report] = Report(d)'
    <2>1. UNCHANGED doors
      BY <1>5, ProgramsLeaveSessions
    <2>2. CASE WriteReport(e)
      <3>1. program[e] = "report" /\ heard' = heard
            /\ program' = [program EXCEPT ![e] = "release"]
            /\ report' = [report EXCEPT ![plan[e].report] = Report(e)]
        BY <2>2 DEF WriteReport, Go
      <3>2. CASE e = d
        BY <2>1, <3>1, <3>2 DEF doors
      <3>3. CASE e # d
        <4>1. action[e] # "none"
          BY <3>1 DEF Places, CommandAction
        <4>2. plan[e].report # plan[d].report
          BY <1>2, <3>3, <4>1 DEF Alone
        <4> QED
          BY <1>2, <2>1, <3>1, <3>3, <4>2 DEF doors
      <3> QED
        BY <3>2, <3>3
    <2>3. CASE Release(e)
      BY <1>2, <2>1, <2>3 DEF Release, Go, doors
    <2>4. CASE SaveBaseline(e)
      BY <1>2, <2>1, <2>4 DEF SaveBaseline, Go, doors
    <2>5. CASE Hear(e)
      BY <1>2, <2>1, <2>5 DEF Hear, doors
    <2>6. CASE \/ Launch(e) \/ Load(e) \/ Start(e) \/ Acquire(e) \/ AcquireRefused(e) \/ Begin(e)
               \/ Abort(e) \/ Save(e) \/ Kill(e)
      <3>1. heard' = heard /\ report' = report /\ \E to \in Active \cup {"refused", "killed"} :
                to \notin {"release", "done"} /\ program' = [program EXCEPT ![e] = to]
        BY <2>6 DEF Launch, Load, Start, Acquire, AcquireRefused, Begin, Abort, Save, Kill, Go,
           Active
      <3> QED
        BY <1>2, <2>1, <3>1 DEF doors
    <2> QED
      BY <1>5, <2>2, <2>3, <2>4, <2>5, <2>6 DEF Program
  <1> QED
    BY <1>3, <1>4, <1>5 DEF Next

\* A run that was bad is complained of by whoever reads its report.
LEMMA BadRunsAreReported ==
    ASSUME Inv, Told, NEW d \in Door, IsSession(d), Alone(d), BadRun(d)
    PROVE  Complains(d)
  <1>1. CASE program[d] = "aborted" /\ InProcess(d)
    BY <1>1 DEF Complains
  <1>2. CASE program[d] = "done" /\ ("miss" \in heard[d] \/ (action[d] = "record" /\ heard[d] = {}))
    <2>1. report[plan[d].report] = Report(d)
      BY <1>2 DEF Told
    <2>2. action[d] # "none"
      BY <1>2 DEF Inv, Places
    <2>3. /\ Report(d).misses <=> "miss" \in heard[d]
          /\ Report(d).messages <=> action[d] = "append" \/ "message" \in heard[d]
          /\ Report(d).written
      BY Zenon DEF Report
    <2>4. CASE "miss" \in heard[d]
      BY <2>1, <2>2, <2>3, <2>4, Zenon DEF Complains
    <2>5. CASE action[d] = "record" /\ heard[d] = {}
      <3>1. action[d] # "append" /\ "message" \notin heard[d]
        BY <2>5
      <3>2. ~Report(d).messages /\ Report(d).written
        BY <2>3, <3>1, Zenon
      <3> QED
        BY <2>1, <2>2, <2>5, <3>2, Zenon DEF Complains
    <2> QED
      BY <1>2, <2>4, <2>5
  <1> QED
    BY <1>1, <1>2 DEF BadRun

\* A session that is over runs nothing that could still go wrong.
LEMMA OverAndDone ==
    ASSUME Careful, Inv, Rested, Next,
           NEW d \in Door, session[d] \in {"new", "closed", "ended", "dead"}, BadRun(d)'
    PROVE  BadRun(d)
  <1> USE PlanTypes, CarefulPlan
      DEF Inv, TypeInv, TypeOK, Rested, Rest, Over, Active, Places, IsSession, InProcess, BadRun
  <1>1. IsSession(d) /\ program[d] \in Rest
    BY DEF Quiet
  <1>2. CASE Break
    BY <1>2 DEF Break, doors, programs
  <1>3. ASSUME NEW e \in Door, Crash(plan[e].pid) PROVE BadRun(d)
    BY <1>1, <1>3 DEF Crash
  <1>4. ASSUME NEW e \in Door, Session(e) PROVE BadRun(d)
    <2>1. CASE CallToReplay(e) \/ Settle(e)
      BY <1>1, <2>1, HandingOut
    <2>2. CASE UNCHANGED <<plan, action, program, base, heard, report>>
      BY <2>2
    <2> QED
      BY <1>4, <2>1, <2>2, SessionsLeavePrograms
  <1>5. ASSUME NEW e \in Door, Program(e) PROVE BadRun(d)
    <2>1. UNCHANGED doors
      BY <1>5, ProgramsLeaveSessions
    <2>2. program[e] = "ready" /\ plan[e].patient => session[e] \in {"out", "cli"}
      BY <1>5 DEF Program, Go, Launch, Load, Start, Acquire, AcquireRefused, Begin, Hear, Abort,
         Save, SaveBaseline, WriteReport, Release, Kill
    <2>3. program[e] \in Active \cup {"ready"}
      BY <1>5 DEF Program, Go, Launch, Load, Start, Acquire, AcquireRefused, Begin, Hear, Abort,
         Save, SaveBaseline, WriteReport, Release, Kill
    <2>4. e # d
      <3>1. CASE program[e] \in Active
        BY <1>1, <3>1
      <3>2. CASE program[e] = "ready"
        BY <1>1, <2>2, <3>2
      <3> QED
        BY <2>3, <3>1, <3>2
    <2>5. program'[d] = program[d] /\ heard'[d] = heard[d]
      BY <1>5, <2>4 DEF Program, Go, Launch, Load, Start, Acquire, AcquireRefused, Begin, Hear,
         Abort, Save, SaveBaseline, WriteReport, Release, Kill
    <2> QED
      BY <2>1, <2>5 DEF doors
  <1> QED
    BY <1>2, <1>3, <1>4, <1>5 DEF Next

\* The verdict of a session is over programs that have ended, each with its own report.
LEMMA VerdictStep ==
    ASSUME Careful, Inv, EndInv, Next
    PROVE  BadRunsFail'
  <1> SUFFICES ASSUME NEW d \in Door, session'[d] = "ended", outcome'[d] = "ok",
                      NEW e \in Judged(d)', Alone(e)', BadRun(e)'
               PROVE  FALSE
    BY DEF BadRunsFail
  <1> USE PlanTypes DEF Inv, TypeInv, TypeOK
  <1>1. plan' = plan
    BY DEF Next, Session, Program, Break, Crash, doors, Open, Enter, EnterClaim,
       EnterRefused, EnterSettle, CallToReplay, CallToWrite, CallRefused, Claim,
       ClaimRefused, Settle, Settled, SettleFails, End, CloseDerived, Close, ClosingDone, Check,
       Launch, Load, Start, Acquire, AcquireRefused, Begin, Hear, Abort, Save, SaveBaseline,
       WriteReport, Release, Kill
  <1>2. \/ session[d] = "ended" /\ outcome[d] = "ok"
        \/ /\ session[d] = "closed" /\ outcome[d] = "ok"
           /\ \A x \in Judged(d) : ~Complains(x)
    <2>1. CASE Break \/ \E x \in Door : Crash(plan[x].pid)
      BY <2>1 DEF Break, Crash, doors
    <2>2. ASSUME NEW x \in Door, Program(x) PROVE UNCHANGED doors
      BY <2>2, ProgramsLeaveSessions
    <2>3. ASSUME NEW x \in Door, Session(x), session'[d] # session[d] \/ outcome'[d] # outcome[d]
          PROVE  /\ session[d] = "closed" /\ outcome[d] = "ok"
                 /\ \A y \in Judged(d) : ~Complains(y)
      <3>1. CASE Check(x)
        BY <2>3, <3>1 DEF Check, Move
      <3>2. CASE Close(x)
        BY <2>3, <3>2, <1>1 DEF Close, ClosingDone, Move, EndInv, Outermost, Root
      <3>3. CASE EnterRefused(x)
        BY <2>3, <3>3 DEF EnterRefused, Move
      <3>4. CASE \/ Open(x) \/ Enter(x) \/ EnterClaim(x) \/ EnterSettle(x) \/ CallToWrite(x)
                 \/ Claim(x) \/ CallToReplay(x) \/ Settle(x)
        BY <2>3, <3>4 DEF Open, Enter, EnterClaim, EnterSettle, CallToWrite, Claim, CallToReplay,
           Settle, Settled, Move
      <3>5. CASE CallRefused(x) \/ ClaimRefused(x) \/ SettleFails(x)
        BY <2>3, <3>5 DEF CallRefused, ClaimRefused, SettleFails, Fail
      <3>6. CASE (\E how \in {"ok", "error"} : End(x, how)) \/ CloseDerived(x)
        BY <2>3, <3>6 DEF End, CloseDerived
      <3> QED
        BY <2>3, <3>1, <3>2, <3>3, <3>4, <3>5, <3>6 DEF Session
    <2> QED
      BY <2>1, <2>2, <2>3 DEF Next, doors
  <1>3. ASSUME NEW x \in Door, session[x] # "new" PROVE session'[x] # "new"
    <2>1. CASE Break \/ \E y \in Door : Program(y)
      BY <1>3, <2>1, ProgramsLeaveSessions DEF Break, doors
    <2>2. ASSUME NEW y \in Door, Crash(plan[y].pid) PROVE session'[x] # "new"
      BY <1>3, <2>2 DEF Crash
    <2>3. ASSUME NEW y \in Door, Session(y) PROVE session'[x] # "new"
      <3>1. CASE Open(y) \/ Enter(y) \/ EnterClaim(y) \/ EnterRefused(y) \/ EnterSettle(y)
        BY <1>3, <3>1 DEF Open, Enter, EnterClaim, EnterRefused, EnterSettle, Move
      <3>2. CASE CallToReplay(y) \/ CallToWrite(y) \/ Claim(y) \/ Settle(y)
        BY <1>3, <3>2 DEF CallToReplay, CallToWrite, Claim, Settle, Settled, Move
      <3>3. CASE CallRefused(y) \/ ClaimRefused(y) \/ SettleFails(y)
        BY <1>3, <3>3 DEF CallRefused, ClaimRefused, SettleFails, Fail
      <3>4. CASE \/ \E how \in {"ok", "error"} : End(y, how)
                 \/ CloseDerived(y) \/ Close(y) \/ Check(y)
        BY <1>3, <3>4 DEF End, CloseDerived, Close, ClosingDone, Check, Move
      <3> QED
        BY <2>3, <3>1, <3>2, <3>3, <3>4 DEF Session
    <2> QED
      BY <2>1, <2>2, <2>3 DEF Next
  <1>4. Derived(d) \subseteq Derived(d)' /\ Derived(d)' \subseteq {x \in Door : plan[x].parent = d}
    BY <1>1, <1>3 DEF Derived
  <1>5. e \in Door /\ IsSession(e) /\ session[e] \in {"new", "closed", "ended", "dead"}
    <2>1. CASE Derived(d)' = {}
      BY <1>2, <2>1 DEF Judged, Places
    <2>2. CASE Derived(d)' # {}
      BY <1>2, <1>4, <2>2, NobodyHolds DEF Judged, EndInv, Enclosed, IsSession
    <2> QED
      BY <2>1, <2>2
  <1>6. Alone(e) /\ BadRun(e)
    BY <1>5, StaysAlone, OverAndDone DEF EndInv
  <1>7. session[e] # "new"
    BY <1>5, <1>6 DEF Quiet, BadRun
  <1>8. e \in Judged(d)
    BY <1>1, <1>4, <1>5, <1>7 DEF Judged, Derived
  <1>9. ~\A x \in Judged(d) : ~Complains(x)
    BY <1>5, <1>6, <1>8, BadRunsAreReported DEF EndInv
  <1> QED
    BY <1>2, <1>6, <1>8, <1>9 DEF EndInv, BadRunsFail

\* Initially no session has ended, and no report is written.
LEMMA EndInit == Init => EndInv
  <1> SUFFICES ASSUME Init PROVE EndInv
    OBVIOUS
  <1>1. \A d \in Door : session[d] \in {"new", "cli"} /\ program[d] \in {"none", "ready"}
    BY DEF Init
  <1>2. \A d \in Door : plan[d].parent # NoDoor => session[d] = "new"
    BY PlanTypes, TypeInit DEF Init, IsSession, TypeInv
  <1>3. Enclosed /\ Rested
    BY <1>1, <1>2 DEF Enclosed, Rested
  <1>4. \A d \in Door : outcome[d] = "none"
    BY DEF Init
  <1>5. Outermost /\ BadRunsFail
    BY <1>4 DEF Outermost, BadRunsFail
  <1>6. DOMAIN report = {plan[d].report : d \in Door}
    BY DEF Init
  <1>7. Told
    BY <1>1, <1>6 DEF Told
  <1> QED
    BY <1>3, <1>5, <1>7 DEF EndInv

\* For careful doors a session whose run was bad fails.
THEOREM BadRunsAreFailures == ASSUME Careful PROVE Spec => []BadRunsFail
  <1>1. ASSUME Inv, EndInv, [Next]_vars
        PROVE  EndInv'
    <2>1. CASE Next
      BY <1>1, <2>1, EnclosedStep, RestedStep, OutermostStep, ToldStep, VerdictStep DEF EndInv
    <2>2. CASE UNCHANGED vars
      BY <1>1, <2>2 DEF vars, doors, programs, EndInv, Enclosed, Rested, Rest, Outermost, Told,
         Report, BadRunsFail, Judged, Derived, Alone, BadRun, Root, IsSession, InProcess
    <2> QED
      BY <1>1, <2>1, <2>2
  <1>2. EndInv => BadRunsFail
    BY DEF EndInv
  <1> QED
    BY EndInit, <1>1, <1>2, Invariance, PTL DEF Spec

-----------------------------------------------------------------------------
(* The transport of the cassette *)

\* Whoever may come to replace the cassette is of the one transport v, as it is itself.
OfTransport(v) ==
    /\ Exists => file.via = v
    /\ \A d \in Door :
          /\ ~Exists \/ ~IsSession(d) \/ session[d] \in {"claim", "settle"}
             \/ action[d] # "none" => plan[d].via = v
          /\ action[d] = "append" /\ program[d] \in {"start", "acquire", "begin", "run"} =>
                 base[d].via = v
          /\ plan[d].kind = "check" =>
                 /\ action[d] # "append"
                 /\ session[d] \notin {"new", "enter", "entered", "open", "claim", "settle"}

\* At first no program has loaded anything, and the doors agree.
LEMMA AgreeingInit ==
    ASSUME Agreeing, Init
    PROVE  \E v \in Transport : OfTransport(v)
  <1>1. PICK s \in Setups : plan = s.doors /\ file = s.file
    BY DEF Init
  <1>2. PICK v \in Transport :
            /\ s.file # Missing => s.file.via = v
            /\ \A d \in Door :
                  s.file = Missing \/ s.doors[d].kind \notin {"session", "async"} =>
                      s.doors[d].via = v
    BY DEF Agreeing
  <1>3. \A d \in Door : program[d] \in {"none", "ready"}
    BY DEF Init
  <1>4. ASSUME NEW d \in Door
        PROVE  ~Exists \/ ~IsSession(d) \/ session[d] \in {"claim", "settle"}
               \/ action[d] # "none" => plan[d].via = v
    BY <1>1, <1>2 DEF Init, Exists, IsSession
  <1>5. \A d \in Door : plan[d].kind = "check" => action[d] = "record" /\ session[d] = "cli"
    BY DEF Init, IsSession, CommandAction
  <1> QED
    BY <1>1, <1>2, <1>3, <1>4, <1>5 DEF OfTransport, Exists

\* What a program saves is of that transport.
LEMMA SavesOfTransport ==
    ASSUME TypeInv, NEW v \in Transport, OfTransport(v), NEW d \in Door, program[d] = "run",
           Saved(d) # file
    PROVE  Saved(d).via = v
  BY DEF Saved, OfTransport, TypeInv, TypeOK, Cassettes

\* A session is let past its check only at a cassette of its transport, or at none; an
\* appending program has loaded a cassette.
LEMMA AgreeingStep ==
    ASSUME TypeInv, NEW v \in Transport, OfTransport(v), Next
    PROVE  OfTransport(v)'
  <1> USE PlanTypes DEF TypeInv, TypeOK, Quiet, OfTransport, Exists, IsSession, doors, programs
  <1>1. CASE Break
    BY <1>1 DEF Break
  <1>2. ASSUME NEW e \in Door, Crash(plan[e].pid) PROVE OfTransport(v)'
    BY <1>2 DEF Crash
  <1>3. ASSUME NEW e \in Door,
               Open(e) \/ Enter(e) \/ EnterClaim(e) \/ EnterRefused(e) \/ EnterSettle(e)
               \/ CallRefused(e) \/ ClaimRefused(e) \/ SettleFails(e)
        PROVE  OfTransport(v)'
    <2>1. UNCHANGED <<plan, action, file, program, base>>
      BY <1>3 DEF Open, Enter, EnterClaim, EnterRefused, EnterSettle, CallRefused, ClaimRefused,
         SettleFails
    <2>2. CASE Open(e) \/ Enter(e) \/ EnterClaim(e) \/ EnterRefused(e) \/ EnterSettle(e)
      BY <2>1, <2>2 DEF Open, Enter, EnterClaim, EnterRefused, EnterSettle, Move
    <2>3. CASE CallRefused(e) \/ ClaimRefused(e) \/ SettleFails(e)
      <3>1. session' = [session EXCEPT ![Root(e)] = "closing"]
        BY <2>3 DEF CallRefused, ClaimRefused, SettleFails, Fail
      <3> QED
        BY <2>1, <3>1
    <2> QED
      BY <1>3, <2>2, <2>3
  <1>4. ASSUME NEW e \in Door, CallToReplay(e) PROVE OfTransport(v)'
    BY <1>4 DEF CallToReplay, Move, Allowed
  <1>5. ASSUME NEW e \in Door, CallToWrite(e) PROVE OfTransport(v)'
    BY <1>5 DEF CallToWrite, Move, Allowed
  <1>6. ASSUME NEW e \in Door, Claim(e) PROVE OfTransport(v)'
    BY <1>6 DEF Claim, Move
  <1>7. ASSUME NEW e \in Door, Settle(e) PROVE OfTransport(v)'
    <2>1. program'[e] \in {"ready", "load", "run"}
          /\ (program'[e] = "run" => action'[e] = "record")
          /\ \A d \in Door \ {e} : program'[d] = program[d] /\ action'[d] = action[d]
      BY <1>7 DEF Settle, Settled, HandedOut
    <2> QED
      BY <1>7, <2>1 DEF Settle, Settled, Move
  <1>8. ASSUME NEW e \in Door,
               (\E how \in {"ok", "error"} : End(e, how)) \/ CloseDerived(e) \/ Close(e)
               \/ Check(e)
        PROVE  OfTransport(v)'
    BY <1>8 DEF End, CloseDerived, Close, ClosingDone, Check, Move
  <1>9. ASSUME NEW e \in Door, Launch(e) PROVE OfTransport(v)'
    BY <1>9 DEF Launch, Go
  <1>10. ASSUME NEW e \in Door, Load(e) PROVE OfTransport(v)'
    <2>1. action[e] = "append" /\ program'[e] # "refused" => Exists
      BY <1>10 DEF Load, Go, Refuses
    <2> QED
      BY <1>10, <2>1 DEF Load, Go
  <1>11. ASSUME NEW e \in Door, Start(e) \/ Acquire(e) \/ AcquireRefused(e) PROVE OfTransport(v)'
    BY <1>11 DEF Start, Acquire, AcquireRefused, Go
  <1>12. ASSUME NEW e \in Door, Begin(e) PROVE OfTransport(v)'
    BY <1>12 DEF Begin, Go
  <1>13. ASSUME NEW e \in Door,
                Hear(e) \/ Abort(e) \/ WriteReport(e) \/ Release(e) \/ Kill(e)
         PROVE  OfTransport(v)'
    BY <1>13 DEF Hear, Abort, WriteReport, Release, Kill, Go
  <1>14. ASSUME NEW e \in Door, Save(e) \/ SaveBaseline(e) PROVE OfTransport(v)'
    <2>1. program[e] = "run" /\ file' = Saved(e)
          /\ program' = [program EXCEPT ![e] = program'[e]] /\ program'[e] \notin Active \ {"report"}
          /\ UNCHANGED <<doors, claim, base, heard, report>>
      BY <1>14 DEF Save, SaveBaseline, Go, Active
    <2>2. CASE Saved(e) = file
      BY <2>1, <2>2 DEF Active
    <2>3. CASE Saved(e) # file
      <3>1. file'.via = v
        BY <2>1, <2>3, SavesOfTransport
      <3>2. \A d \in Door :
                /\ plan'[d].kind = "check" =>
                       /\ action'[d] # "append"
                       /\ session'[d] \notin
                             {"new", "enter", "entered", "open", "claim", "settle"}
                /\ action'[d] = "append" /\ program'[d] \in {"start", "acquire", "begin", "run"} =>
                       base'[d].via = v
        BY <2>1 DEF Active
      <3>3. file' # Missing
        BY <3>1 DEF Missing, Transport
      <3> QED
        BY <2>1, <3>1, <3>2, <3>3 DEF Active
    <2> QED
      BY <2>2, <2>3
  <1> QED
    BY <1>1, <1>2, <1>3, <1>4, <1>5, <1>6, <1>7, <1>8, <1>9, <1>10, <1>11, <1>12, <1>13, <1>14
    DEF Next, Session, Program

\* Where the doors agree, no recording takes the place of one of the other transport: what
\* was looked at before a wait still holds when the cassette is replaced after it.
THEOREM TransportIsKept == ASSUME Agreeing PROVE Spec => TransportKept
  <1> DEFINE OneTransport == \E v \in Transport : OfTransport(v)
  <1>1. Init => OneTransport
    BY AgreeingInit
  <1>2. ASSUME TypeInv, OneTransport, [Next]_vars
        PROVE  OneTransport' /\ [Exists => file'.via = file.via]_vars
    <2>1. PICK v \in Transport : OfTransport(v)
      BY <1>2
    <2>2. CASE Next
      <3>1. OfTransport(v)'
        BY <1>2, <2>1, <2>2, AgreeingStep
      <3>2. file' = file \/ \E d \in Door : program[d] = "run" /\ file' = Saved(d)
        BY <2>2
        DEF Next, Session, Program, Break, Crash, doors, programs, Open, Enter, EnterClaim,
            EnterRefused, EnterSettle, CallToReplay, CallToWrite, CallRefused, Claim,
            ClaimRefused, Settle, Settled, SettleFails, End, CloseDerived, Close, ClosingDone,
            Check, Launch, Load, Start, Acquire, AcquireRefused, Begin, Hear, Abort, Save,
            SaveBaseline, WriteReport, Release, Kill, Go
      <3>3. file' # file => file'.via = v
        BY <1>2, <2>1, <3>2, SavesOfTransport
      <3> QED
        BY <2>1, <3>1, <3>3 DEF OfTransport
    <2>3. CASE UNCHANGED vars
      <3>1. OfTransport(v)'
        BY <2>1, <2>3 DEF vars, doors, programs, OfTransport, Exists, IsSession
      <3> QED
        BY <2>3, <3>1
    <2> QED
      BY <1>2, <2>2, <2>3
  <1> QED
    BY <1>1, <1>2, TypeInit, TypeStep, PTL DEF Spec, TransportKept
=============================================================================
