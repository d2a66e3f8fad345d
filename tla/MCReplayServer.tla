--------------------------- MODULE MCReplayServer ---------------------------
(***************************************************************************)
(* Recordings, calls and fault overlays for checking ReplayServer.         *)
(***************************************************************************)
EXTENDS ReplayServer

initialize == [method |-> "initialize", params |-> "none"]
ping == [method |-> "ping", params |-> "none"]
silent == [method |-> "none", params |-> "none"]
add(x) == [method |-> "add", params |-> x]

Request(id, call) == [sender |-> "client", kind |-> "request", id |-> id, call |-> call]
Result(id) == [sender |-> "server", kind |-> "response", id |-> id, call |-> silent]
Note == [sender |-> "server", kind |-> "notification", id |-> 0, call |-> silent]
Sample(id) == [sender |-> "server", kind |-> "request", id |-> id, call |-> silent]
Sampled(id) == [sender |-> "client", kind |-> "response", id |-> id, call |-> silent]

\* One call twice, with the server sampling the client the first time; another call of
\* the method with a sampling under the same id; and a recording cut short in a third.
\* A sampling follows the first response.
Retries ==
    <<Request(1, ping), Result(1), Sample(12), Sampled(12),
      Request(2, add("x")), Sample(13), Sampled(13), Result(2), Note,
      Request(3, add("x")), Result(3),
      Request(4, add("y")), Sample(13), Sampled(13), Result(4), Note,
      Request(5, add("z"))>>

\* Notifications and samplings around the handshake, inside it and after it.
Handshake ==
    <<Note, Sample(10), Request(1, initialize), Sample(11), Sampled(10), Sampled(11),
      Result(1), Sample(12), Sampled(12), Request(2, ping), Result(2), Note>>

\* Sampling inside a call and after its response.
Nested ==
    <<Request(1, add("x")), Sample(10), Sampled(10), Result(1), Sample(11),
      Sampled(11), Request(2, ping), Result(2)>>

MCCalls == {ping, initialize, add("x"), add("y"), add("z")}

On(method, nth, type) == [method |-> method, nth |-> nth, type |-> type]
Setup(c, order, miss, faults) ==
    [cassette |-> c, ordering |-> order, policy |-> miss, overlay |-> faults]

ServeSetups ==
    {Setup(Retries, "per_method", "error", <<>>),
     Setup(Retries, "per_method", "stop", <<On("add", 2, "error"), On("add", 0, "delay")>>),
     Setup(Retries, "strict", "stop", <<On("add", 1, "malformed")>>),
     Setup(Retries, "none", "error", <<On("ping", 1, "timeout")>>),
     Setup(Handshake, "per_method", "error", <<>>),
     Setup(Handshake, "strict", "stop", <<On("initialize", 2, "disconnect_after")>>),
     Setup(Handshake, "none", "stop", <<On("initialize", 1, "disconnect")>>)}

\* One scenario each: a disconnect fault on a gated response, and a late sampling.
HangupSetups ==
    {Setup(Nested, "per_method", "stop", <<On("add", 1, "disconnect")>>)}
DroppedSetups ==
    {Setup(Nested, "per_method", "stop", <<>>)}

\* What the theorems about the order and the answers suppose of recordings holds of the
\* ones that are served here, and of Nested all but that nothing is asked late.
ASSUME MCRecordings ==
    UniqueIds /\ (Setups = ServeSetups => PromptAsks) /\ (Setups = DroppedSetups => ~PromptAsks)

\* Retries reuses the id of an ask: what is held is checked there and not proved.
ASSUME MCPaired == Paired(Handshake) /\ Paired(Nested) /\ ~Paired(Retries)
=============================================================================
