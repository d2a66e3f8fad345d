--------------------------- MODULE MCNewEpisodes ---------------------------
(***************************************************************************)
(* Recordings and calls for checking NewEpisodes.                          *)
(***************************************************************************)
EXTENDS NewEpisodes

initialize == [method |-> "initialize", params |-> "none"]
add(x) == [method |-> "add", params |-> x]

Request(id, call) == [sender |-> "client", kind |-> "request", id |-> id, call |-> call]
Result(id, call) == [sender |-> "server", kind |-> "response", id |-> id, call |-> call]

\* A session with one call, and one that was cut short in a second call.
Recorded == <<Request(1, add("x")), Result(1, add("x"))>>
CutShort == Recorded \o <<Request(2, add("y"))>>

Setup(c, order) == [cassette |-> c, ordering |-> order]

AppendSetups ==
    {Setup(CutShort, "per_method"), Setup(CutShort, "none")}
AppendCalls == {initialize, add("x"), add("y")}

SpliceSetups == {Setup(Recorded, "per_method")}
SpliceCalls == {add("x"), add("y")}
=============================================================================
