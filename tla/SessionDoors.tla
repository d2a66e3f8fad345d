---------------------------- MODULE SessionDoors ----------------------------
(***************************************************************************)
(* The doors to one cassette: library sessions, tests under the pytest     *)
(* fixture and async blocks (src/mcp_cassette/session/__init__.py), and    *)
(* the commands record, serve --new-episodes and check --record            *)
(* (cli.py, check.py).                                                     *)
(*                                                                         *)
(* A session decides what to do, takes the claim if that writes, decides   *)
(* again, and hands out a program: a command for the client to launch over *)
(* stdio, an engine inside its own process over HTTP.  A command is a      *)
(* program by itself.  A program reads the cassette, may take the claim,   *)
(* runs, saves, writes its report.  ClaimFile is the protocol of the       *)
(* claim, which is one step here; a session hands out one program.         *)
(***************************************************************************)
CONSTANTS
    Door,       \* sessions and commands
    NoDoor,
    Setups      \* [file, doors] to start from; doors says what each door is

Mode == {"once", "none", "all", "new_episodes"}
Transport == {"stdio", "http"}
Recordings == Door \cup {"old", "baseline"}
Cassettes == [of : SUBSET Recordings, via : Transport \cup {"none"}]

\* What a door is: a session or a command; its mode; the transport of its server; whether
\* it has a fault overlay; the session it was derived from; whether its client ends the
\* command before the session; whether its process may be killed; and its report path.
Kind == {"session", "async", "record", "serve", "check"}
DoorPlan ==
    [kind : Kind, mode : Mode, via : Transport, faults : BOOLEAN,
     parent : Door \cup {NoDoor}, patient : BOOLEAN, mortal : BOOLEAN, pid : STRING,
     report : STRING]

\* Only sessions are derived, here from an outermost one, and always with faults; what a
\* command does is in its name.
ASSUME DoorsAssumption ==
    /\ NoDoor \notin Door
    /\ \A s \in Setups :
          /\ s.file \in Cassettes
          /\ s.doors \in [Door -> DoorPlan]
          /\ \A d \in Door :
                /\ s.doors[d].parent # NoDoor =>
                       /\ s.doors[d].kind = "session" /\ s.doors[d].faults
                       /\ s.doors[s.doors[d].parent].parent = NoDoor
                /\ s.doors[d].kind = "record" => s.doors[d].mode = "all"
                /\ s.doors[d].kind = "serve" => s.doors[d].mode = "new_episodes"

VARIABLES
    plan,       \* the doors of the chosen setup
    file,       \* the cassette: the recordings in it, and its transport
    claim,      \* its holder: the door, and whether its session or its program
    session,    \* where the session of a door is
    action,     \* what it resolved its mode to (_last_action)
    outcome,    \* of the session: "none", "ok", "error"
    program,    \* where the program of a door is
    base,       \* the cassette it has loaded, or was cleared to replace
    heard,      \* what it has met: "message", "miss"
    report      \* what the last program of each report path wrote

doors == <<plan, session, action, outcome>>
programs == <<program, base, heard, report>>
vars == <<doors, file, claim, programs>>

Missing == [of |-> {}, via |-> "none"]
NoClaim == [door |-> NoDoor, part |-> "none"]
NoReport == [messages |-> FALSE, misses |-> FALSE, written |-> FALSE]

IsSession(d) == plan[d].kind \in {"session", "async"}
InProcess(d) == IsSession(d) /\ plan[d].via = "http"

\* What a command does is fixed by its name.
CommandAction(kind) == CASE kind = "serve" -> "append" [] OTHER -> "record"

Over == {"done", "refused", "killed", "aborted"}
Active == {"load", "start", "acquire", "begin", "run", "report", "release", "abort"}

TypeOK ==
    /\ file \in Cassettes
    /\ claim \in [door : Door, part : {"session", "program"}] \cup {NoClaim}
    /\ session \in [Door -> {"cli", "new", "enter", "entered", "open", "claim", "settle",
                             "out", "closing", "closed", "ended", "dead"}]
    /\ action \in [Door -> {"none", "record", "replay", "append"}]
    /\ outcome \in [Door -> {"none", "ok", "error"}]
    /\ program \in [Door -> {"none", "ready"} \cup Active \cup Over]
    /\ base \in [Door -> Cassettes]
    /\ heard \in [Door -> SUBSET {"message", "miss"}]
    /\ \A d \in Door : action[d] = "replay" => "message" \notin heard[d]

Init ==
    /\ \E s \in Setups : plan = s.doors /\ file = s.file
    /\ claim = NoClaim
    /\ session = [d \in Door |-> IF IsSession(d) THEN "new" ELSE "cli"]
    /\ action = [d \in Door |-> IF IsSession(d) THEN "none" ELSE CommandAction(plan[d].kind)]
    /\ outcome = [d \in Door |-> "none"]
    /\ program = [d \in Door |-> IF IsSession(d) THEN "none" ELSE "ready"]
    /\ base = [d \in Door |-> Missing]
    /\ heard = [d \in Door |-> {}]
    /\ report = [r \in {plan[d].report : d \in Door} |-> NoReport]

-----------------------------------------------------------------------------
(* The claim and the modes *)

Exists == file # Missing

\* _resolve_action; mode none without a cassette raises.
Resolved(mode) ==
    IF mode = "all" \/ (mode # "none" /\ ~Exists) THEN "record"
    ELSE IF mode = "new_episodes" THEN "append" ELSE "replay"
Forbidden(mode) == mode = "none" /\ ~Exists

Holds(d, part) == claim = [door |-> d, part |-> part]

\* Variant of Take: a wait that runs out takes the claim over.
TakeOver(d, part) == claim' = [door |-> d, part |-> part]

Take(d, part) ==
    /\ claim = NoClaim
    /\ claim' = [door |-> d, part |-> part]

\* The claim of the session or program is removed, if that is what it holds.
GiveBack(d, part) == claim' = IF Holds(d, part) THEN NoClaim ELSE claim

\* A claim whose process has died is cleared by the next one that wants it.
HolderDead ==
    \/ claim.part = "session" /\ session[claim.door] = "dead"
    \/ claim.part = "program" /\ program[claim.door] = "killed"

Break ==
    /\ claim # NoClaim /\ HolderDead
    /\ claim' = NoClaim
    /\ UNCHANGED <<doors, file, programs>>

-----------------------------------------------------------------------------
(* A session *)

Root(d) == IF plan[d].parent = NoDoor THEN d ELSE plan[d].parent
Derived(d) == {e \in Door : plan[e].parent = d /\ session[e] # "new"}
Inside(d) == session[d] \in {"open", "out"}
Calling(d) == session[d] = "open" /\ Inside(Root(d))

Move(d, from, to) ==
    /\ session[d] = from
    /\ session' = [session EXCEPT ![d] = to]

\* The body of the outermost session raises: it is closed and not checked.
Fail(d) ==
    /\ session' = [session EXCEPT ![Root(d)] = "closing"]
    /\ outcome' = [outcome EXCEPT ![Root(d)] = "error"]

\* use_cassette, the fixture, a session built directly, or one derived by with_faults.
Open(d) ==
    /\ plan[d].kind = "session"
    /\ plan[d].parent # NoDoor => Inside(plan[d].parent)
    /\ Move(d, "new", "open")
    /\ UNCHANGED <<plan, action, outcome, file, claim, programs>>

\* use_cassette_async takes the claim on entry, unless it is going to replay.
Enter(d) ==
    /\ plan[d].kind = "async"
    /\ \/ Resolved(plan[d].mode) = "replay" /\ Move(d, "new", "open")
       \/ Resolved(plan[d].mode) # "replay" /\ Move(d, "new", "enter")
    /\ UNCHANGED <<plan, action, outcome, file, claim, programs>>

EnterClaim(d) ==
    /\ Move(d, "enter", "entered")
    /\ Take(d, "session")
    /\ UNCHANGED <<plan, action, outcome, file, programs>>

\* A conflict, at once or after the wait: the block is never entered.
EnterRefused(d) ==
    /\ claim # NoClaim
    /\ Move(d, "enter", "ended")
    /\ outcome' = [outcome EXCEPT ![d] = "error"]
    /\ UNCHANGED <<plan, action, file, claim, programs>>

EnterSettle(d) ==
    /\ Move(d, "entered", "open")
    /\ IF Resolved(plan[d].mode) = "replay" THEN GiveBack(d, "session") ELSE UNCHANGED claim
    /\ UNCHANGED <<plan, action, outcome, file, programs>>

\* Variant of Allowed: the transport is not looked at when the cassette is replaced.
AllowedToReplace(d) ==
    /\ ~Forbidden(plan[d].mode)
    /\ plan[d].faults => Resolved(plan[d].mode) = "replay"
    /\ Exists /\ Resolved(plan[d].mode) # "record" => file.via = plan[d].via

\* The early errors of server_command and server_url.
Allowed(d) ==
    /\ ~Forbidden(plan[d].mode)
    /\ plan[d].faults => Resolved(plan[d].mode) = "replay"
    /\ Exists => file.via = plan[d].via

\* The first step of an engine in the process; a command waits to be launched.
HandedOut(d, act) ==
    CASE ~InProcess(d) -> "ready" [] act = "record" -> "run" [] OTHER -> "load"

\* A reader takes no claim.
CallToReplay(d) ==
    /\ Calling(d) /\ Allowed(d)
    /\ Resolved(plan[d].mode) = "replay"
    /\ action' = [action EXCEPT ![d] = "replay"]
    /\ Move(d, "open", "out")
    /\ program' = [program EXCEPT ![d] = HandedOut(d, "replay")]
    /\ UNCHANGED <<plan, outcome, file, claim, base, heard, report>>

CallToWrite(d) ==
    /\ Calling(d) /\ Allowed(d)
    /\ Resolved(plan[d].mode) # "replay"
    /\ Move(d, "open", IF Holds(d, "session") THEN "settle" ELSE "claim")
    /\ UNCHANGED <<plan, action, outcome, file, claim, programs>>

CallRefused(d) ==
    /\ Calling(d) /\ ~Allowed(d)
    /\ Fail(d)
    /\ UNCHANGED <<plan, action, file, claim, programs>>

Claim(d) ==
    /\ Move(d, "claim", "settle")
    /\ Take(d, "session")
    /\ UNCHANGED <<plan, action, outcome, file, programs>>

ClaimRefused(d) ==
    /\ session[d] = "claim" /\ claim # NoClaim
    /\ Fail(d)
    /\ UNCHANGED <<plan, action, file, claim, programs>>

Settled(d, act) ==
    /\ action' = [action EXCEPT ![d] = act]
    /\ Move(d, "settle", "out")
    /\ program' = [program EXCEPT ![d] = HandedOut(d, act)]
    /\ base' = IF act = "record" THEN [base EXCEPT ![d] = file] ELSE base
    /\ UNCHANGED <<plan, outcome, file, heard, report>>

\* Variant of Settle: once goes on to record, as it had resolved before it waited.
SettleAsResolved(d) ==
    /\ Settled(d, IF plan[d].mode = "once" THEN "record" ELSE Resolved(plan[d].mode))
    /\ UNCHANGED claim

\* Variant of Settle: the claim is kept by a session that turned to replaying.
SettleKeepingClaim(d) ==
    /\ Settled(d, Resolved(plan[d].mode))
    /\ UNCHANGED claim

\* With the claim, the session resolves its mode again, and hands the program out.
Settle(d) ==
    /\ Settled(d, Resolved(plan[d].mode))
    /\ IF Resolved(plan[d].mode) = "replay" THEN GiveBack(d, "session") ELSE UNCHANGED claim

\* A pack that cannot be resolved, after the claim was taken.
SettleFails(d) ==
    /\ session[d] = "settle"
    /\ Fail(d)
    /\ UNCHANGED <<plan, action, file, claim, programs>>

-----------------------------------------------------------------------------
(* A program *)

Go(d, from, to) ==
    /\ program[d] = from
    /\ program' = [program EXCEPT ![d] = to]

\* The client launches the command it was handed; a patient one only inside the session.
Launch(d) ==
    /\ plan[d].patient => session[d] \in {"out", "cli"}
    /\ Go(d, "ready", IF action[d] = "record" /\ plan[d].kind # "check" THEN "start" ELSE "load")
    /\ UNCHANGED <<doors, file, claim, base, heard, report>>

\* check --record replaces nothing but a baseline; serve needs a cassette.
Refuses(d) ==
    CASE plan[d].kind = "check" -> ~(file.of \subseteq {"baseline"}) \/ plan[d].mode = "none"
      [] OTHER -> ~Exists

Load(d) ==
    /\ Go(d, "load", IF Refuses(d) THEN "refused"
                     ELSE IF action[d] = "append" /\ ~InProcess(d) THEN "start" ELSE "run")
    /\ base' = [base EXCEPT ![d] = file]
    /\ UNCHANGED <<doors, file, claim, heard, report>>

\* _claimed: a program handed out by a session goes by the pid of the claim.
Start(d) ==
    /\ Go(d, "start", IF /\ IsSession(d) /\ claim.part = "session"
                         /\ plan[claim.door].pid = plan[d].pid
                      THEN "run" ELSE "acquire")
    /\ UNCHANGED <<doors, file, claim, base, heard, report>>

Acquire(d) ==
    /\ Go(d, "acquire", "begin")
    /\ Take(d, "program")
    /\ UNCHANGED <<doors, file, base, heard, report>>

\* A recording looks at what it is going to replace.
Begin(d) ==
    /\ Go(d, "begin", "run")
    /\ base' = IF action[d] = "record" THEN [base EXCEPT ![d] = file] ELSE base
    /\ UNCHANGED <<doors, file, claim, heard, report>>

\* Exit code 6, at once or after --claim-wait.
AcquireRefused(d) ==
    /\ claim # NoClaim
    /\ Go(d, "acquire", "refused")
    /\ UNCHANGED <<doors, file, claim, base, heard, report>>

\* Variant of Hear: a replay server counts what it replays as captured.
HearAll(d) ==
    /\ program[d] = "run"
    /\ heard' = [heard EXCEPT ![d] = @ \cup {"message"}]
    /\ UNCHANGED <<doors, file, claim, program, base, report>>

\* A recorder captures; a replay server misses.
Hear(d) ==
    /\ program[d] = "run"
    /\ heard' = [heard EXCEPT ![d] = @ \cup {IF action[d] = "replay" THEN "miss" ELSE "message"}]
    /\ UNCHANGED <<doors, file, claim, program, base, report>>

\* The upstream of an HTTP recording fails at first contact: nothing is written.
Abort(d) ==
    /\ action[d] = "record" /\ plan[d].via = "http"
    /\ Go(d, "run", "abort")
    /\ UNCHANGED <<doors, file, claim, base, heard, report>>

\* What the path holds after the save: a recording without messages saves nothing.
Saved(d) ==
    LET own == IF "message" \in heard[d] THEN {d} ELSE {} IN
    CASE action[d] = "append" -> [base[d] EXCEPT !.of = @ \cup own]
      [] action[d] = "record" /\ own # {} -> [of |-> own, via |-> plan[d].via]
      [] OTHER -> file

Save(d) ==
    /\ plan[d].kind # "check"
    /\ Go(d, "run", "report")
    /\ file' = Saved(d)
    /\ UNCHANGED <<doors, claim, base, heard, report>>

\* check writes neither a claim nor a report, and nothing when the server did not start.
SaveBaseline(d) ==
    /\ plan[d].kind = "check" /\ "message" \in heard[d]
    /\ Go(d, "run", "done")
    /\ file' = Saved(d)
    /\ UNCHANGED <<doors, claim, base, heard, report>>

WriteReport(d) ==
    /\ Go(d, "report", "release")
    /\ report' = [report EXCEPT ![plan[d].report] =
           [messages |-> action[d] = "append" \/ "message" \in heard[d],
            misses |-> "miss" \in heard[d], written |-> TRUE]]
    /\ UNCHANGED <<doors, file, claim, base, heard>>

Release(d) ==
    /\ Go(d, "release", "done") \/ Go(d, "abort", "aborted")
    /\ GiveBack(d, "program")
    /\ UNCHANGED <<doors, file, base, heard, report>>

\* A process of its own is killed, or dies of an exception, where it leaves something
\* behind; before that it might as well not have been launched.
Kill(d) ==
    /\ program[d] \in {"begin", "run", "report", "release"} /\ ~InProcess(d)
    /\ action[d] # "replay" \/ program[d] = "run"
    /\ program' = [program EXCEPT ![d] = "killed"]
    /\ UNCHANGED <<doors, file, claim, base, heard, report>>

\* The process of a session is killed, with the engines in it.
Crash(pid) ==
    LET Gone == {d \in Door : IsSession(d) /\ plan[d].pid = pid /\ session[d] # "ended"} IN
    /\ \E d \in Gone : plan[d].mortal /\ session[d] \notin {"new", "dead"}
    /\ session' = [d \in Door |-> IF d \in Gone THEN "dead" ELSE session[d]]
    /\ program' = [d \in Door |-> IF d \in Gone /\ InProcess(d) /\ program[d] \in Active
                                  THEN "killed" ELSE program[d]]
    /\ UNCHANGED <<plan, action, outcome, file, claim, base, heard, report>>

-----------------------------------------------------------------------------
(* The end of a session *)

\* The body ends, well or not.
End(d, how) ==
    /\ Inside(d) /\ Root(d) = d
    /\ session' = [session EXCEPT ![d] = "closing"]
    /\ outcome' = [outcome EXCEPT ![d] = how]
    /\ UNCHANGED <<plan, action, file, claim, programs>>

\* close() of a derived session comes with that of the session it came from.
CloseDerived(d) ==
    /\ Inside(d)
    /\ Root(d) # d /\ session[Root(d)] = "closing"
    /\ session' = [session EXCEPT ![d] = "closing"]
    /\ UNCHANGED <<plan, action, outcome, file, claim, programs>>

\* close() stops the engine of the process and waits for it; of a command it knows
\* nothing, but a patient client has ended it.
Stopped(d) == InProcess(d) \/ plan[d].patient => program[d] \in Over \cup {"none", "ready"}

ClosingDone(d) ==
    /\ \A e \in Derived(d) : session[e] = "ended"
    /\ Move(d, "closing", IF Root(d) = d THEN "closed" ELSE "ended")
    /\ GiveBack(d, "session")
    /\ UNCHANGED <<plan, action, outcome, file, programs>>

\* Variant of Close: the claim is released without waiting for the engine.
CloseEarly(d) == ClosingDone(d)

Close(d) == Stopped(d) /\ ClosingDone(d)

\* Variant of Complains: a recording that failed at first contact has no report.
ComplainsByReport(d) ==
    /\ action[d] # "none" /\ report[plan[d].report].written
    /\ \/ action[d] = "record" /\ ~report[plan[d].report].messages
       \/ report[plan[d].report].misses

\* _check_report of one session.
Complains(d) ==
    \/ InProcess(d) /\ program[d] = "aborted"
    \/ /\ action[d] # "none" /\ report[plan[d].report].written
       /\ \/ action[d] = "record" /\ ~report[plan[d].report].messages
          \/ report[plan[d].report].misses

\* The sessions whose report counts.
Judged(d) == IF Derived(d) = {} THEN {d} ELSE Derived(d)

Check(d) ==
    /\ Move(d, "closed", "ended")
    /\ outcome' = IF outcome[d] = "ok" /\ \E e \in Judged(d) : Complains(e)
                  THEN [outcome EXCEPT ![d] = "error"] ELSE outcome
    /\ UNCHANGED <<plan, action, file, claim, programs>>

-----------------------------------------------------------------------------
Session(d) ==
    \/ Open(d) \/ Enter(d) \/ EnterClaim(d) \/ EnterRefused(d) \/ EnterSettle(d)
    \/ CallToReplay(d) \/ CallToWrite(d) \/ CallRefused(d)
    \/ Claim(d) \/ ClaimRefused(d) \/ Settle(d) \/ SettleFails(d)
    \/ \E how \in {"ok", "error"} : End(d, how)
    \/ CloseDerived(d) \/ Close(d) \/ Check(d)

Program(d) ==
    \/ Launch(d) \/ Load(d) \/ Start(d) \/ Acquire(d) \/ AcquireRefused(d) \/ Begin(d)
    \/ Hear(d) \/ Abort(d) \/ Save(d) \/ SaveBaseline(d) \/ WriteReport(d) \/ Release(d)
    \/ Kill(d)

Next ==
    \/ Break
    \/ \E d \in Door : Session(d) \/ Program(d) \/ Crash(plan[d].pid)

Spec == Init /\ [][Next]_vars

-----------------------------------------------------------------------------
(* Properties *)

\* What the doors have to be for the claim to protect a recording: a session outlives
\* its program, on either way to end, and a program that writes without the claim, or
\* loads before it has the claim, is the only one that writes.
Reader(door) == door.mode = "none" \/ door.parent # NoDoor
Careful ==
    \A s \in Setups : \A d \in Door :
        LET door == s.doors[d] IN
        /\ door.kind \in {"session", "async"} => door.via = "http" \/ door.patient
        /\ door.mortal =>
               \A e \in Door : s.doors[e].pid = door.pid => s.doors[e].via = "http"
        /\ door.kind \in {"serve", "check"} =>
               Reader(door) \/ \A e \in Door \ {d} : Reader(s.doors[e])

\* "Parallelism never silently loses or splices a recording": what a writer replaces is
\* exactly the cassette it set out from, whoever else has been writing meanwhile.
NoLostRecording ==
    [][\A d \in Door :
          program[d] = "run" /\ program'[d] # "run" /\ file' # file => file = base[d]]_vars

\* The doors that honour the claim implement the lock: whoever may write owns the
\* cassette, also when it is the session that holds the claim for its program.
Writers == {d \in Door : program[d] = "run" /\ action[d] # "replay" /\ plan[d].kind # "check"}
Lock == INSTANCE WriterLock WITH Proc <- Door, NoOwner <- NoDoor,
                                 owner <- claim.door, writers <- Writers
ImplementsLock == Lock!Spec

\* "One records, the rest replay": of several sessions in mode once a single one leaves
\* a recording, however they are timed.
Recorded(d) ==
    /\ program[d] \in {"report", "release", "done"}
    /\ action[d] = "record" /\ "message" \in heard[d]
OneRecords ==
    \A d, e \in Door :
        /\ IsSession(d) /\ plan[d].mode = "once" /\ Recorded(d)
        /\ IsSession(e) /\ plan[e].mode = "once" /\ Recorded(e)
        => d = e

\* A session whose program ran to its end fails on an empty recording, a failed first
\* contact or a miss, also when it was a derived session that ran; as long as no other
\* session writes to the same report.
BadRun(d) ==
    \/ program[d] = "aborted" /\ InProcess(d)
    \/ /\ program[d] = "done"
       /\ "miss" \in heard[d] \/ (action[d] = "record" /\ heard[d] = {})
Alone(d) ==
    \A e \in Door \ {d} : plan[e].report = plan[d].report => action[e] = "none"
BadRunsFail ==
    \A d \in Door : session[d] = "ended" /\ outcome[d] = "ok" =>
        \A e \in Judged(d) : Alone(e) => ~BadRun(e)

\* A session holds the claim no longer than it may write: not while it replays, and not
\* once it has ended, on whatever way.
ClaimFollowsUse ==
    \A d \in Door : Holds(d, "session") =>
        session[d] # "ended" /\ (session[d] = "out" => action[d] # "replay")

\* What the doors have to be for their check of the transport to protect it: a command makes
\* none, and one made over no cassette does not know what another door will leave there.
Agreeing ==
    \A s \in Setups : \E v \in Transport :
        /\ s.file # Missing => s.file.via = v
        /\ \A d \in Door :
              s.file = Missing \/ s.doors[d].kind \notin {"session", "async"} =>
                  s.doors[d].via = v

\* A recording of the one transport never takes the place of one of the other.
TransportKept == [][Exists => file'.via = file.via]_vars
=============================================================================
