------------------------------ MODULE ClaimFile ------------------------------
(***************************************************************************)
(* The advisory single-writer claim over one cassette path                 *)
(* (src/mcp_cassette/session/claim.py).                                    *)
(*                                                                         *)
(* Every process that wants to write the cassette runs ClaimFile.acquire:  *)
(* it creates <cassette>.claim with O_EXCL, fills it in a second step, and *)
(* otherwise reads the holder, decides whether the claim is stale, unlinks *)
(* it or sleeps.  All of that is done by path: a system call sees whatever *)
(* file the path names at that moment.  One action here is one system call *)
(* (or a stretch of code between two of them), so the interleavings of the *)
(* processes are those of the operating system.                            *)
(***************************************************************************)
EXTENDS Naturals, FiniteSets

CONSTANTS
    Proc,       \* the processes, each with its own pid
    Host,       \* the host each process runs on (the directory may be shared)
    Mortal,     \* the processes that may exit or be killed
    Forcer,     \* the processes that run with --force
    Patience,   \* how many 0.1 s polls fit in each process's wait (0: fail fast)
    MaxClaims,  \* bound: acquisitions per process
    MaxAge,     \* bound on the age of a claim: 0 fresh, 1 past the 5 s grace,
                \* 2 past the 4 h TTL
    Sharing,    \* TRUE on Windows, where a peer's open handle can defeat a
                \* create or an unlink for longer than the retry window
    NoFile      \* the path names no file

Record == [pid : Proc, token : 1..MaxClaims]
Age == 0..MaxAge
Rounds == 3     \* "for _ in range(3)" in _attempt

ASSUME ConstantsAssumption ==
    /\ Mortal \subseteq Proc
    /\ Forcer \subseteq Proc
    /\ Patience \in [Proc -> Nat]
    /\ MaxClaims \in Nat
    /\ MaxAge \in 0..2
    /\ Sharing \in BOOLEAN
    /\ NoFile \notin Record
    /\ NoFile \notin Proc

VARIABLES
    file,       \* the record whose writer created the file at the path, or NoFile
    readable,   \* the record has been written into that file
    age,        \* how old that file is, in the steps of Age
    pc,         \* what each process does next
    claims,     \* how many claims each process has created: its last token
    round,      \* the iteration of _attempt's loop each process is in
    polls,      \* how many times each process has slept in this acquire
    seen,       \* what _current_holder returned to each process
    running,    \* the processes whose pid os.kill(pid, 0) finds
    lost        \* history: the records removed by a process that did not write them

vars == <<file, readable, age, pc, claims, round, polls, seen, running, lost>>
fileVars == <<file, readable, age>>

PC == {"idle", "create", "write", "read", "stat", "judge", "unlink",
       "deadline", "held", "remove", "dead"}
Seen == [record : Record, readable : BOOLEAN, age : Age]

TypeOK ==
    /\ file \in Record \cup {NoFile}
    /\ readable \in BOOLEAN
    /\ age \in Age
    /\ pc \in [Proc -> PC]
    /\ claims \in [Proc -> 0..MaxClaims]
    /\ round \in [Proc -> 0..Rounds]
    /\ polls \in [Proc -> Nat]
    /\ seen \in [Proc -> Seen \cup {NoFile}]
    /\ running \subseteq Proc
    /\ lost \subseteq Record

Init ==
    /\ file = NoFile
    /\ readable = FALSE
    /\ age = 0
    /\ pc = [p \in Proc |-> "idle"]
    /\ claims = [p \in Proc |-> 0]
    /\ round = [p \in Proc |-> 0]
    /\ polls = [p \in Proc |-> 0]
    /\ seen = [p \in Proc |-> NoFile]
    /\ running = Proc
    /\ lost = {}

-----------------------------------------------------------------------------
(* Helpers *)

\* self._record: the record of p's latest claim.
Mine(p) == [pid |-> p, token |-> claims[p]]

\* Process p goes from one step of its program to another.
Goto(p, from, to) ==
    /\ pc[p] = from
    /\ pc' = [pc EXCEPT ![p] = to]

\* The path stops naming a file.
NoLongerThere ==
    /\ file' = NoFile
    /\ readable' = FALSE
    /\ age' = 0

\* acquire() returns or raises, and its loop counters with it.
LeaveLoop(p) ==
    /\ round' = [round EXCEPT ![p] = 0]
    /\ polls' = [polls EXCEPT ![p] = 0]

\* Variant of NextRound: one round too many.
NextRoundOffByOne(p, from) ==
    /\ round' = [round EXCEPT ![p] = @ + 1]
    /\ Goto(p, from, IF round[p] + 1 <= Rounds THEN "create" ELSE "deadline")

\* "for _ in range(3)": p tries again, or leaves the loop without the claim.
NextRound(p, from) ==
    /\ round' = [round EXCEPT ![p] = @ + 1]
    /\ Goto(p, from, IF round[p] + 1 < Rounds THEN "create" ELSE "deadline")

\* Variant of Stale: a pid is looked up on this host whatever host the record names.
StaleAnyHost(p) ==
    LET s == seen[p] IN
    IF ~s.readable
    THEN s.age >= 1
    ELSE p \in Forcer \/ s.age = 2 \/ s.record.pid \notin running

\* Variant of Stale: age and --force only, no look at the holder's pid.
StaleByAgeOnly(p) ==
    LET s == seen[p] IN
    IF s.readable THEN p \in Forcer \/ s.age = 2 ELSE s.age >= 1

\* _break_reason returned a reason to break the claim p saw.
Stale(p) ==
    LET s == seen[p] IN
    IF ~s.readable
    THEN s.age >= 1
    ELSE \/ p \in Forcer
         \/ s.age = 2
         \/ /\ Host[s.record.pid] = Host[p]
            /\ s.record.pid \notin running

\* What p saw has served its purpose.
Judged(p) == seen' = [seen EXCEPT ![p] = NoFile]

-----------------------------------------------------------------------------
(* acquire() *)

\* A session calls acquire(): the deadline is set and the first round begins.
Begin(p) ==
    /\ claims[p] < MaxClaims
    /\ Goto(p, "idle", "create")
    /\ UNCHANGED <<fileVars, claims, round, polls, seen, running, lost>>

\* Variant of CreateNew without O_EXCL: it opens over an existing claim.
CreateOver(p) ==
    /\ Goto(p, "create", "write")
    /\ LeaveLoop(p)
    /\ claims' = [claims EXCEPT ![p] = @ + 1]
    /\ file' = [pid |-> p, token |-> claims[p] + 1]
    /\ readable' = FALSE
    /\ age' = 0
    /\ UNCHANGED <<seen, running, lost>>

\* os.open(O_CREAT | O_EXCL) succeeds: the file is there, and still empty.
CreateNew(p) ==
    /\ file = NoFile
    /\ Goto(p, "create", "write")
    /\ LeaveLoop(p)
    /\ claims' = [claims EXCEPT ![p] = @ + 1]
    /\ file' = [pid |-> p, token |-> claims[p] + 1]
    /\ readable' = FALSE
    /\ age' = 0
    /\ UNCHANGED <<seen, running, lost>>

\* FileExistsError, or (Windows) a sharing violation that outlasted the retries.
CreateRefused(p) ==
    /\ file # NoFile \/ Sharing
    /\ Goto(p, "create", "read")
    /\ UNCHANGED <<fileVars, claims, round, polls, seen, running, lost>>

\* handle.write() through the descriptor.  If the claim was broken meanwhile the
\* text goes to an unlinked file: the process cannot tell.
WriteRecord(p) ==
    /\ Goto(p, "write", "held")
    /\ IF file = Mine(p)
       THEN /\ readable' = TRUE
            /\ age' = 0
            /\ UNCHANGED file
       ELSE UNCHANGED fileVars
    /\ UNCHANGED <<claims, round, polls, seen, running, lost>>

\* read_claim() returned a record.
ReadHolder(p) ==
    /\ file # NoFile /\ readable
    /\ Goto(p, "read", "judge")
    /\ seen' = [seen EXCEPT ![p] = [record |-> file, readable |-> TRUE, age |-> age]]
    /\ UNCHANGED <<fileVars, claims, round, polls, running, lost>>

\* read_claim() returned None: there is no file, or it does not parse.
ReadNothing(p) ==
    /\ file = NoFile \/ ~readable
    /\ Goto(p, "read", "stat")
    /\ UNCHANGED <<fileVars, claims, round, polls, seen, running, lost>>

\* stat() found a file, perhaps not the one that did not parse: the placeholder
\* holder carries only its modification time.
StatPlaceholder(p) ==
    /\ file # NoFile
    /\ Goto(p, "stat", "judge")
    /\ seen' = [seen EXCEPT ![p] = [record |-> file, readable |-> FALSE, age |-> age]]
    /\ UNCHANGED <<fileVars, claims, round, polls, running, lost>>

\* stat() found nothing: the claim was released in between.
StatNothing(p) ==
    /\ file = NoFile
    /\ NextRound(p, "stat")
    /\ UNCHANGED <<fileVars, claims, polls, seen, running, lost>>

\* _break_reason decides on what p saw, and on the pids running now.
JudgeStale(p) ==
    /\ Goto(p, "judge", "unlink")
    /\ Stale(p)
    /\ Judged(p)
    /\ UNCHANGED <<fileVars, claims, round, polls, running, lost>>

JudgeLive(p) ==
    /\ Goto(p, "judge", "deadline")
    /\ ~Stale(p)
    /\ Judged(p)
    /\ UNCHANGED <<fileVars, claims, round, polls, running, lost>>

\* path.unlink(missing_ok=True), whatever the path names by now.
Reclaim(p) ==
    /\ NextRound(p, "unlink")
    /\ \/ /\ NoLongerThere
          /\ lost' = lost \cup ({file} \ {NoFile})
       \/ /\ Sharing
          /\ UNCHANGED <<fileVars, lost>>
    /\ UNCHANGED <<claims, polls, seen, running>>

\* time.monotonic() >= deadline: ClaimConflict is raised to the caller.
GiveUp(p) ==
    /\ Goto(p, "deadline", "idle")
    /\ LeaveLoop(p)
    /\ UNCHANGED <<fileVars, claims, seen, running, lost>>

\* Before the deadline: sleep _POLL_SECONDS and attempt again.
Poll(p) ==
    /\ polls[p] < Patience[p]
    /\ Goto(p, "deadline", "create")
    /\ polls' = [polls EXCEPT ![p] = @ + 1]
    /\ round' = [round EXCEPT ![p] = 0]
    /\ UNCHANGED <<fileVars, claims, seen, running, lost>>

-----------------------------------------------------------------------------
(* release() *)

\* read_claim() == self._record.
ReleaseOwned(p) ==
    /\ file = Mine(p) /\ readable
    /\ Goto(p, "held", "remove")
    /\ UNCHANGED <<fileVars, claims, round, polls, seen, running, lost>>

\* Somebody else has the claim now: it is left alone.
ReleaseLost(p) ==
    /\ ~(file = Mine(p) /\ readable)
    /\ Goto(p, "held", "idle")
    /\ UNCHANGED <<fileVars, claims, round, polls, seen, running, lost>>

\* The unlink that follows the comparison, again by path.
Remove(p) ==
    /\ Goto(p, "remove", "idle")
    /\ \/ /\ NoLongerThere
          /\ lost' = lost \cup ({file} \ {NoFile, Mine(p)})
       \/ /\ Sharing
          /\ UNCHANGED <<fileVars, lost>>
    /\ UNCHANGED <<claims, round, polls, seen, running>>

-----------------------------------------------------------------------------
(* The world around the processes *)

\* The process exits, or is killed at any point of its program.
Die(p) ==
    /\ p \in Mortal
    /\ pc[p] # "dead"
    /\ pc' = [pc EXCEPT ![p] = "dead"]
    /\ running' = running \ {p}
    /\ UNCHANGED <<fileVars, claims, round, polls, seen, lost>>

\* The operating system gives the pid of a dead process to an unrelated one.
ReusePid(p) ==
    /\ pc[p] = "dead"
    /\ p \notin running
    /\ running' = running \cup {p}
    /\ UNCHANGED <<fileVars, pc, claims, round, polls, seen, lost>>

\* Time passes for the record r, on disk and in the hands of who judges it.
GrowOld(r) ==
    LET Judges(p) == pc[p] = "judge" /\ seen[p].record = r /\ seen[p].age < MaxAge
        OnDisk == file = r /\ age < MaxAge
    IN  /\ OnDisk \/ \E p \in Proc : Judges(p)
        /\ age' = IF OnDisk THEN age + 1 ELSE age
        /\ seen' = [p \in Proc |->
                      IF Judges(p) THEN [seen[p] EXCEPT !.age = @ + 1] ELSE seen[p]]
        /\ UNCHANGED <<file, readable, pc, claims, round, polls, running, lost>>

-----------------------------------------------------------------------------
Attempt(p) ==
    \/ CreateNew(p) \/ CreateRefused(p) \/ WriteRecord(p)
    \/ ReadHolder(p) \/ ReadNothing(p)
    \/ StatPlaceholder(p) \/ StatNothing(p)
    \/ JudgeStale(p) \/ JudgeLive(p) \/ Reclaim(p)
    \/ GiveUp(p) \/ Poll(p)

Release(p) == ReleaseOwned(p) \/ ReleaseLost(p) \/ Remove(p)

Next ==
    \/ \E p \in Proc : Begin(p) \/ Attempt(p) \/ Release(p) \/ Die(p) \/ ReusePid(p)
    \/ \E r \in Record : GrowOld(r)

Spec == Init /\ [][Next]_vars

\* A process that is inside acquire() or release() runs on: nothing in them
\* blocks.  Nobody is obliged to start, to finish recording, or to die.
Fairness == \A p \in Proc : WF_vars(Attempt(p)) /\ WF_vars(Remove(p))
FairSpec == Spec /\ Fairness

-----------------------------------------------------------------------------
(* Properties *)

Holds(p) == pc[p] = "held"

\* What the claim is for: two processes never write the cassette at once.  It
\* holds where no claim can be broken (ClaimFileProofs states the assumption),
\* and the run claim_shared shows that it does not hold in general.
MutualExclusion == \A p, q \in Proc : Holds(p) /\ Holds(q) => p = q

\* Under every setting: two processes hold the claim at once only after the
\* record of one of them was unlinked by another process.  O_EXCL itself, the
\* two-step creation and the release never let a second writer in.
SharedOnlyIfBroken ==
    \A p, q \in Proc :
        Holds(p) /\ Holds(q) /\ p # q => Mine(p) \in lost \/ Mine(q) \in lost

\* "a holder must never release a claim someone else has since taken": the
\* unlink of release() removes the releasing process's own record or nothing.  No run: the
\* code breaks it where somebody may force the claim.
ReleasesOnlyItsOwn ==
    [][\A p \in Proc : Remove(p) => file' = file \/ file = Mine(p)]_vars

\* "Advisory and bounded: a wait ends in ClaimConflict, never a hang": acquire()
\* returns or raises, however often the claim changes hands meanwhile.
AcquireEnds ==
    \A p \in Proc : pc[p] = "create" ~> pc[p] \in {"idle", "write", "dead"}

\* The claim at the path is that of a process of p's host whose pid is gone.
Orphaned(p) ==
    /\ file # NoFile /\ readable
    /\ Host[file.pid] = Host[p]
    /\ file.pid \notin running

\* "A crashed recorder cannot wedge a cassette": one acquire() on the host of a
\* dead holder is enough to clear its claim, whatever else is going on.
CrashNeverWedges ==
    \A p \in Proc : pc[p] = "create" /\ Orphaned(p) ~> ~Orphaned(p) \/ pc[p] = "dead"

\* Nobody waits for ever: neither for a claim that changes hands nor for a dead holder.
NeverWedged == AcquireEnds /\ CrashNeverWedges

\* The claim as its callers see it: the owner is the writer of the file at the
\* path, and a process records from the return of acquire() to release().
Lock == INSTANCE WriterLock WITH
            owner <- IF file = NoFile THEN NoFile ELSE file.pid,
            writers <- {p \in Proc : Holds(p)},
            NoOwner <- NoFile

\* Where no live claim can be broken, the file protocol implements WriterLock.
ImplementsLock == Lock!Spec

\* The settings in which a claim is broken only after its owner is gone for good:
\* nobody forces, nobody stalls past the grace or the TTL, and a process that can
\* die shares its host with one other contender at most, there being no third.
NoLiveBreak ==
    /\ Forcer = {}
    /\ MaxAge = 0
    /\ \A p \in Mortal, q \in Proc :
          p # q /\ Host[p] = Host[q] => Proc = {p, q}
=============================================================================
