--------------------------- MODULE MCSessionDoors ---------------------------
(***************************************************************************)
(* Doors for checking SessionDoors.                                        *)
(***************************************************************************)
EXTENDS SessionDoors, TLC

CONSTANTS d1, d2, d3

A(kind, mode, via) ==
    [kind |-> kind, mode |-> mode, via |-> via, faults |-> FALSE, parent |-> NoDoor,
     patient |-> TRUE, mortal |-> FALSE, pid |-> kind, report |-> kind]

\* A session in a process of its own, with its own report.
In(pid, door) == [door EXCEPT !.pid = pid, !.report = pid]
Idle(pid) == In(pid, A("session", "none", "stdio"))
DerivedFrom(d, door) == [door EXCEPT !.parent = d, !.faults = TRUE]

Setup(of, x, y, z) ==
    [file |-> IF of = {} THEN Missing ELSE [of |-> of, via |-> "stdio"],
     doors |-> (d1 :> x) @@ (d2 :> y) @@ (d3 :> z)]
\* Engines inside the processes of their sessions, which may die.
OverHttp(setup) ==
    [setup EXCEPT !.file = IF @ = Missing THEN @ ELSE [@ EXCEPT !.via = "http"],
                  !.doors = [d \in Door |-> [@[d] EXCEPT !.via = "http", !.mortal = d = d1]]]

Once == A("session", "once", "stdio")
All == A("session", "all", "stdio")
Append == A("session", "new_episodes", "stdio")
Async(door) == [door EXCEPT !.kind = "async"]
Record == A("record", "all", "stdio")
Serve == A("serve", "new_episodes", "stdio")
Baseline == A("check", "once", "stdio")

\* A session derived from a command is never opened.
Absent == In("x", DerivedFrom(d1, Once))

\* Two tests and an async block that want one new cassette; a command and two sessions
\* that write an old one; engines in processes that may die; a session and the one it
\* derived; sessions that meet the other transport; commands that must be the only
\* writer.
DoorSetups ==
    {Setup({}, In("a", Once), In("b", Once), In("c", Async(Once))),
     Setup({"old"}, In("a", Append), Record, In("b", Async(All))),
     OverHttp(Setup({}, In("a", Once), In("b", Async(Append)), Absent)),
     OverHttp(Setup({"old"}, In("a", Once), In("a", DerivedFrom(d1, Once)), In("b", All))),
     Setup({"old"}, In("a", Once), In("a", DerivedFrom(d1, Once)), [Baseline EXCEPT !.mode = "none"]),
     Setup({"old"}, Baseline, Idle("b"), Absent),
     [Setup({"old"}, In("a", Append), In("b", Async(All)), In("a", DerivedFrom(d1, Append)))
         EXCEPT !.file.via = "http"],
     Setup({"old"}, Serve, Idle("b"), Absent),
     Setup({"baseline"}, Baseline, Idle("b"), Absent)}

\* A command that loads the cassette before it has the claim, beside another writer.
LostSetups == {Setup({"old"}, Serve, Record, Absent)}

\* The theorem about the transport is about these setups.
ASSUME MCAgreeing == Agreeing
=============================================================================
