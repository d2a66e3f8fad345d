---------------------------- MODULE MCHttpReplay ----------------------------
(***************************************************************************)
(* Recordings, calls and fault overlays for checking HttpReplay.           *)
(***************************************************************************)
EXTENDS HttpReplay

initialize == [method |-> "initialize", params |-> "none"]
ping == [method |-> "ping", params |-> "none"]
silent == [method |-> "none", params |-> "none"]
add(x) == [method |-> "add", params |-> x]

Line(sender, kind, id, call, exchange, channel) ==
    [sender |-> sender, kind |-> kind, id |-> id, call |-> call, exchange |-> exchange,
     channel |-> channel]

\* Requests have the id of their exchange.
Request(x, call) == Line("client", "request", x, call, x, "none")
Result(x) == Line("server", "response", x, silent, x, "post")
Note(x, channel) == Line("server", "notification", 0, silent, x, channel)
Sample(id, x, channel) == Line("server", "request", id, silent, x, channel)
Sampled(id, x) == Line("client", "response", id, silent, x, "none")
Get == 9    \* the exchange of the listening stream

\* A sampling and a notification inside a call; a sampling on the listening stream after
\* it, and notifications before and after that; another call.
Sampling ==
    <<Request(1, initialize), Result(1), Note(Get, "get"),
      Request(2, add("x")), Sample(12, 2, "post"), Sampled(12, 3), Note(2, "post"),
      Result(2), Sample(13, Get, "get"), Sampled(13, 4), Note(Get, "get"),
      Request(5, ping), Result(5)>>

\* One call twice, another of the same method, and one that was cut short.
Retries ==
    <<Request(1, initialize), Result(1),
      Request(2, add("x")), Result(2), Note(Get, "get"),
      Request(3, add("y")), Result(3), Request(4, add("x")), Result(4),
      Request(5, ping)>>

\* A recording that broke off at once.
Broken == <<Request(1, initialize)>>

MCCalls == {initialize, ping, add("x"), add("y")}

Setup(recording, order, faults, gets) ==
    [cassette |-> recording, ordering |-> order, overlay |-> faults, live |-> FALSE,
     streams |-> gets]
On(method, nth, type) == [method |-> method, nth |-> nth, type |-> type]

ServeSetups ==
    <<Setup(Sampling, "per_method", <<>>, 1),
      Setup(Retries, "per_method", <<>>, 2),
      Setup(Retries, "none", <<>>, 1),
      Setup(Broken, "strict", <<>>, 1),
      Setup(Retries, "per_method", <<On("add", 1, "timeout"), On("add", 2, "delay")>>, 0),
      Setup(Retries, "per_method",
            <<On("add", 1, "malformed"), On("add", 2, "disconnect_after")>>, 0),
      Setup(Retries, "per_method",
            <<On("initialize", 1, "error"), On("add", 0, "disconnect")>>, 1),
      [cassette |-> Retries, ordering |-> "per_method", overlay |-> <<>>, live |-> TRUE,
       streams |-> 0]>>

\* The proofs of HttpReplayProofs that need it ask no more than these recordings give.
ASSUME MCWellRecordings == WellRecordings
=============================================================================
