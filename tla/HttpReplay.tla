----------------------------- MODULE HttpReplay -----------------------------
(***************************************************************************)
(* The HTTP replay server (src/mcp_cassette/transports/http/server.py),    *)
(* and what falls through it to the real server under new_episodes: the    *)
(* calls, their replies and the listening stream.  POSTs that change       *)
(* nothing (notifications, DELETE, 400 and 405) are left out.              *)
(*                                                                         *)
(* Every POST of the client has a connection and a task of its own, named  *)
(* by the number of the call, and a GET opens the one listening stream.    *)
(* The tasks share one event loop.  A write to a socket yields before it   *)
(* and, as long as the socket takes what is written, not after it, so that *)
(* a task goes on with what follows in the same step.  The sleeps of the   *)
(* pacer and of delay faults are waits before a write, and a gate that is  *)
(* open stays open.                                                        *)
(***************************************************************************)
EXTENDS Matching, SequencesExt

CONSTANTS
    Setups,     \* sequence of replays to consider: [cassette, ordering, overlay, live,
                \* streams], where streams bounds the GETs the client makes
    Calls,      \* the calls the client may make
    MaxCalls,   \* bound: calls the client makes
    MaxDrops    \* bound: calls the client hangs up on

\* The messages of a cassette have an exchange, and those of the server a channel, "post"
\* or "get".  live: new_episodes, with the real server behind.
ASSUME HttpAssumption ==
    /\ \A k \in DOMAIN Setups :
          /\ Setups[k].ordering \in {"per_method", "strict", "none"}
          /\ Setups[k].live \in BOOLEAN
          /\ Setups[k].streams \in Nat
          /\ IsSeq(Setups[k].cassette) /\ IsSeq(Setups[k].overlay)
          /\ Setups[k].live => Setups[k].overlay = <<>>
    /\ MaxCalls \in Nat /\ MaxDrops \in Nat

VARIABLES
    setup,      \* what is replayed, and how: the number of its setup
    sent,       \* the calls the client has posted: [call, session]
    dropped,    \* those it has hung up on
    replied,    \* the asks the client has answered
    mail,       \* its answers on their way
    shown,      \* what the client has received on the stream of each call
    listens,    \* GETs so far
    heard,      \* the messages the client has received on listening streams
    used,       \* exchanges consumed by the matcher
    misses,     \* Matcher._misses: the calls that missed
    counts,     \* Injector._match_counts
    issued,     \* _issued: a session id was given out
    emitted,    \* asks marked as emitted
    opened,     \* asks whose gate the client's answer has opened
    tasks,      \* what the task of each call is doing
    unreleased, \* messages for the listening stream whose call was not served yet
    ready,      \* the released ones, in a queue
    listener,   \* the handler of the listening stream
    tape,       \* what fell through, as recorded
    disconnected, \* a disconnect fault was applied
    exit,       \* "running", then the exit code
    report,     \* the misses in the report, or NoReport
    file        \* what was appended to the cassette, or NoReport

cassette == Setups[setup].cassette
ordering == Setups[setup].ordering
overlay == Setups[setup].overlay
live == Setups[setup].live

client == <<sent, dropped, replied, listens>>
received == <<shown, heard>>
matcher == <<used, misses, counts>>
tracker == <<emitted, opened>>
stream == <<unreleased, ready, listener>>
outcome == <<disconnected, exit, report, file>>
vars == <<setup, client, mail, received, matcher, issued, tracker, tasks, stream, tape,
          outcome>>

Id == 1..MaxCalls
NoReport == <<"none">>
Methods == {call.method : call \in Calls}

Item(what, m) == [what |-> what, seq |-> m]
Job(phase, ex, fault, queue) ==
    [phase |-> phase, ex |-> ex, fault |-> fault, queue |-> queue]
Idle(phase) == Job(phase, None, "none", <<>>)
Listener(at, message, alive) == [at |-> at, message |-> message, alive |-> alive]

\* Messages for the listening stream.
GetPlan == {m \in DOMAIN cassette : cassette[m].channel = "get"}

Initialize == First({ex \in Exchanges(cassette) : IsInitialize(cassette[ex].call)})

TypeOK ==
    /\ setup \in DOMAIN Setups
    /\ Len(sent) <= MaxCalls /\ dropped \subseteq DOMAIN sent
    /\ mail \subseteq replied /\ replied \subseteq Asks(cassette)
    /\ listens \in 0..Setups[setup].streams
    /\ used \subseteq Exchanges(cassette)
    /\ counts \in [Methods -> 0..MaxCalls]
    /\ opened \subseteq emitted /\ emitted \subseteq Asks(cassette)
    /\ unreleased \subseteq GetPlan /\ \A k \in DOMAIN ready : ready[k] \notin unreleased
    /\ \A n \in Id : tasks[n].phase \in {"off", "posted", "serve", "miss", "hung", "live",
                                         "forwarded", "relay", "streaming", "done"}
    /\ listener.at \in {"off", "start", "next", "wait", "held"}
    /\ listener.at = "held" <=> listener.message # None
    /\ exit \in {"running", "0", "3", "error"}

Init ==
    /\ setup \in DOMAIN Setups
    /\ sent = <<>> /\ dropped = {} /\ replied = {} /\ mail = {} /\ listens = 0
    /\ shown = [n \in Id |-> <<>>] /\ heard = <<>>
    /\ used = {} /\ misses = <<>> /\ counts = [m \in Methods |-> 0]
    /\ issued = FALSE /\ emitted = {} /\ opened = {}
    /\ tasks = [n \in Id |-> Idle("off")]
    /\ unreleased = GetPlan /\ ready = <<>>
    /\ listener = Listener("off", None, FALSE)
    /\ tape = <<>>
    /\ disconnected = FALSE /\ exit = "running" /\ report = NoReport /\ file = NoReport

-----------------------------------------------------------------------------
(* The client (external) *)

\* The client learns the session id from the reply to initialize.
InSession ==
    \E n \in DOMAIN sent :
        IsInitialize(sent[n].call)
        /\ \E k \in DOMAIN shown[n] : shown[n][k].what = "response"

\* The reply to the call n has come, of whatever kind, or its connection was closed.
Final == {"response", "error", "malformed", "miss", "404", "502", "live", "closed"}
Answered(n) == \E k \in DOMAIN shown[n] : shown[n][k].what \in Final

\* Calls may overlap, but the client waits for the reply to initialize, and
\* initializes when it has no session, at least once it was refused.
ClientCall(call) ==
    /\ exit = "running" /\ Len(sent) < MaxCalls
    /\ \A n \in DOMAIN sent \ dropped : IsInitialize(sent[n].call) => Answered(n)
    /\ InSession \/ sent = <<>> \/ IsInitialize(call)
    /\ sent' = Append(sent, [call |-> call, session |-> InSession])
    /\ tasks' = [tasks EXCEPT ![Len(sent) + 1] = Idle("posted")]
    /\ UNCHANGED <<setup, dropped, replied, listens, mail, received, matcher, issued,
                   tracker, stream, tape, outcome>>

ClientDrop(n) ==
    /\ exit = "running" /\ Cardinality(dropped) < MaxDrops
    /\ n \in DOMAIN sent \ dropped /\ ~Answered(n)
    /\ dropped' = dropped \cup {n}
    /\ UNCHANGED <<setup, sent, replied, listens, mail, received, matcher, issued, tracker,
                   tasks, stream, tape, outcome>>

\* The asks the client has been shown, on any stream.
Asked ==
    {s \in Asks(cassette) :
        \/ \E k \in DOMAIN heard : heard[k] = s
        \/ \E n \in Id : \E k \in DOMAIN shown[n] : shown[n][k] = Item("ask", s)}

ClientAnswer(ask) ==
    /\ exit = "running" /\ ask \in Asked \ replied
    /\ replied' = replied \cup {ask}
    /\ mail' = mail \cup {ask}
    /\ UNCHANGED <<setup, sent, dropped, listens, received, matcher, issued, tracker, tasks,
                   stream, tape, outcome>>

\* _handle_get: the session is checked, and a second stream is refused (409), also
\* when the handler of the first has not noticed yet that its client is gone.
ClientListen ==
    /\ exit = "running" /\ InSession /\ listens < Setups[setup].streams /\ ~listener.alive
    /\ listens' = listens + 1
    /\ listener' = IF listener.at = "off" THEN Listener("start", None, TRUE) ELSE listener
    /\ UNCHANGED <<setup, sent, dropped, replied, mail, received, matcher, issued, tracker,
                   tasks, unreleased, ready, tape, outcome>>

ClientHangUp ==
    /\ exit = "running" /\ listener.alive
    /\ listener' = [listener EXCEPT !.alive = FALSE]
    /\ UNCHANGED <<setup, client, mail, received, matcher, issued, tracker, tasks,
                   unreleased, ready, tape, outcome>>

-----------------------------------------------------------------------------
(* Helpers *)

Running == exit = "running"
At(n, phase) == Running /\ tasks[n].phase = phase
SessionOk(n) == issued /\ sent[n].session

Become(n, job) == tasks' = [tasks EXCEPT ![n] = job]
Closed(n) == Become(n, Idle("done"))

\* What the client gets to see of the call n, if it has not hung up.
Show(n, item) ==
    shown' = IF n \in dropped THEN shown ELSE [shown EXCEPT ![n] = Append(@, item)]

\* The first overlay entry for this occurrence of the method.
FaultFor(method) ==
    LET nth == counts[method] + 1
        hit == First({k \in DOMAIN overlay :
                        overlay[k].method = method /\ overlay[k].nth \in {0, nth}})
    IN  IF hit = None THEN "none" ELSE overlay[hit].type
Consulted(method) == counts' = [counts EXCEPT ![method] = @ + 1]

\* The messages of an exchange that go out on its own stream: all of them, or, when
\* there is but one, the response as a single body.
PostMessages(ex) ==
    {m \in DOMAIN cassette : /\ cassette[m].sender = "server"
                             /\ cassette[m].channel = "post"
                             /\ cassette[m].exchange = cassette[ex].exchange}
Reply(ex) ==
    IF Cardinality(PostMessages(ex)) > 1 THEN InOrder(PostMessages(ex))
    ELSE <<Response(cassette, ex)>>

\* Variant of Blockers: the gate looks at where the request was recorded.
BlockersOfRequest(m, exchange) ==
    {s \in Gates(cassette, emitted, opened, Anchor(cassette, m)) :
        cassette[s].exchange = exchange}

\* _find_blocker over HTTP: only gates of the same exchange hold the message m back.
Blockers(m, exchange) ==
    {s \in Gates(cassette, emitted, opened, m) : cassette[s].exchange = exchange}
Marked(m) == emitted' = IF m \in Asks(cassette) THEN emitted \cup {m} ELSE emitted

-----------------------------------------------------------------------------
(* A POST *)

\* No session, or an unknown one.
Refuse(n) ==
    /\ At(n, "posted") /\ ~IsInitialize(sent[n].call) /\ ~SessionOk(n)
    /\ Show(n, Item("404", None))
    /\ Closed(n)
    /\ UNCHANGED <<setup, client, mail, heard, matcher, issued, tracker, stream, tape,
                   outcome>>

\* _handle_initialize: the recorded handshake, or a miss recorded by hand.
HandleInitialize(n) ==
    /\ At(n, "posted") /\ IsInitialize(sent[n].call)
    /\ IF Response(cassette, Initialize) # None
       THEN /\ Consulted("initialize")
            /\ issued' = TRUE
            /\ Become(n, Job("serve", Initialize, FaultFor("initialize"),
                             Reply(Initialize)))
            /\ UNCHANGED misses
       ELSE /\ misses' = Append(misses, n)
            /\ Become(n, Idle("miss"))
            /\ UNCHANGED <<counts, issued>>
    /\ UNCHANGED <<setup, client, mail, received, used, tracker, stream, tape, outcome>>

Match(n) == Lookup(cassette, used, sent[n].call, ordering)

\* Under the match lock, for any other call: the matcher, then the injector.
Find(n) ==
    /\ At(n, "posted") /\ ~IsInitialize(sent[n].call) /\ SessionOk(n)
    /\ IF Match(n) = None THEN UNCHANGED <<used, counts>>
       ELSE /\ used' = Consume(used, Match(n), ordering)
            /\ Consulted(sent[n].call.method)

HandleHit(n) ==
    /\ Find(n)
    /\ Response(cassette, Match(n)) # None
    /\ Become(n, Job("serve", Match(n), FaultFor(sent[n].call.method), Reply(Match(n))))
    /\ UNCHANGED <<setup, client, mail, received, misses, issued, tracker, stream, tape,
                   outcome>>

\* Variant of HandleMiss: a call recorded without a response is no miss.
HandleMissSilently(n) ==
    /\ Find(n)
    /\ Response(cassette, Match(n)) = None
    /\ misses' = IF Match(n) = None THEN Append(misses, n) ELSE misses
    /\ Become(n, Idle(IF live THEN "live" ELSE "miss"))
    /\ UNCHANGED <<setup, client, mail, received, issued, tracker, stream, tape, outcome>>

\* Without a recorded response the call falls through, or gets the error that names it.
HandleMiss(n) ==
    /\ Find(n)
    /\ Response(cassette, Match(n)) = None
    /\ misses' = IF Match(n) = None \/ ~live THEN Append(misses, n) ELSE misses
    /\ Become(n, Idle(IF live THEN "live" ELSE "miss"))
    /\ UNCHANGED <<setup, client, mail, received, issued, tracker, stream, tape, outcome>>

SendUnmatched(n) ==
    /\ At(n, "miss")
    /\ Show(n, Item("miss", None))
    /\ Closed(n)
    /\ UNCHANGED <<setup, client, mail, heard, matcher, issued, tracker, stream, tape,
                   outcome>>

\* A POST with the answer to a request of the server.
OnAnswer(ask) ==
    /\ Running /\ ask \in mail
    /\ mail' = mail \ {ask}
    /\ opened' = opened \cup
         ({First(WithId(cassette, emitted \ opened, cassette[ask].id))} \ {None})
    /\ UNCHANGED <<setup, client, received, matcher, issued, emitted, tasks, stream, tape,
                   outcome>>

-----------------------------------------------------------------------------
(* Serving an exchange *)

\* The gates before the next message of the call n, and before that of the listener.
CallBlockers(n) == Blockers(Head(tasks[n].queue), cassette[tasks[n].ex].exchange)
ListenerBlockers ==
    Blockers(listener.message, cassette[listener.message].exchange)

Serving(n) == At(n, "serve") /\ tasks[n].fault \in {"none", "delay", "disconnect_after"}

What(n, m) ==
    CASE m = Response(cassette, tasks[n].ex) -> "response"
      [] m \in Asks(cassette) -> "ask"
      [] OTHER -> "note"

\* The next message of the exchange, once its gates are open.
Emit(n) ==
    /\ Serving(n) /\ tasks[n].queue # <<>>
    /\ LET m == Head(tasks[n].queue)
       IN  /\ CallBlockers(n) = {}
           /\ Show(n, Item(What(n, m), m))
           /\ Marked(m)
    /\ tasks' = [tasks EXCEPT ![n].queue = Tail(@)]
    /\ UNCHANGED <<setup, client, mail, heard, matcher, issued, opened, stream, tape,
                   outcome>>

\* The write, or that of the end of a stream, finds out that the client has hung up, and
\* nothing is released.
EmitFails(n) ==
    /\ n \in dropped
    /\ \/ At(n, "serve") /\ tasks[n].fault \in {"error", "malformed"}
       \/ Serving(n) /\ tasks[n].queue # <<>> /\ CallBlockers(n) = {}
       \/ Serving(n) /\ tasks[n].queue = <<>> /\ Cardinality(PostMessages(tasks[n].ex)) > 1
    /\ Closed(n)
    /\ UNCHANGED <<setup, client, mail, received, matcher, issued, tracker, stream, tape,
                   outcome>>

\* Variant of Planned: everything that was not released yet belongs to the call.
PlannedAll(ex) == unreleased

\* The messages for the listening stream that were recorded after the call.
Planned(ex) == {m \in unreleased : Anchor(cassette, m) = ex}

\* Variants of Release: nothing is taken off the plan; and the handler that waits is not
\* woken up.
ReleaseAgain(exs) ==
    LET released == FlattenSeq([k \in DOMAIN exs |-> InOrder(Planned(exs[k]))])
    IN  /\ ready' = ready \o released
        /\ unreleased' = unreleased
        /\ listener' = IF released # <<>> /\ listener.at = "wait"
                       THEN [listener EXCEPT !.at = "next"] ELSE listener

ReleaseSilently(exs) ==
    LET released == FlattenSeq([k \in DOMAIN exs |-> InOrder(Planned(exs[k]))])
    IN  /\ ready' = ready \o released
        /\ unreleased' = unreleased \ ToSet(released)
        /\ UNCHANGED listener

\* _release_get for one call after another: their messages go to the queue, and the
\* event wakes the handler of the listening stream.
Release(exs) ==
    LET released == FlattenSeq([k \in DOMAIN exs |-> InOrder(Planned(exs[k]))])
    IN  /\ ready' = ready \o released
        /\ unreleased' = unreleased \ ToSet(released)
        /\ listener' = IF released # <<>> /\ listener.at = "wait"
                       THEN [listener EXCEPT !.at = "next"] ELSE listener

\* What was recorded before any call is released with the handshake, whatever fault
\* applies to it.
Handshake(n) == IF IsInitialize(sent[n].call) THEN <<None>> ELSE <<>>

\* The end of the reply.
Finish(n) ==
    /\ Serving(n) /\ tasks[n].queue = <<>> /\ tasks[n].fault # "disconnect_after"
    /\ Closed(n)
    /\ Release(<<tasks[n].ex>> \o Handshake(n))
    /\ UNCHANGED <<setup, client, mail, received, matcher, issued, tracker, tape, outcome>>

\* _apply_fault: an error or a corrupted reply in place of the exchange.
Replace(n) ==
    /\ At(n, "serve") /\ tasks[n].fault \in {"error", "malformed"}
    /\ Show(n, Item(tasks[n].fault, Response(cassette, tasks[n].ex)))
    /\ Closed(n)
    /\ Release(Handshake(n))
    /\ UNCHANGED <<setup, client, mail, heard, matcher, issued, tracker, tape, outcome>>

\* A reply that never comes; the other connections are served.
Hang(n) ==
    /\ At(n, "serve") /\ tasks[n].fault = "timeout"
    /\ Become(n, Idle("hung"))
    /\ UNCHANGED <<setup, client, mail, received, matcher, issued, tracker, stream, tape,
                   outcome>>

\* Before the response or after it the connection is closed and the server cancelled.
Disconnect(n) ==
    /\ At(n, "serve")
    /\ \/ tasks[n].fault = "disconnect"
       \/ tasks[n].fault = "disconnect_after" /\ tasks[n].queue = <<>>
    /\ disconnected' = TRUE
    /\ Show(n, Item("closed", None))
    /\ Closed(n)
    /\ Release(Handshake(n))
    /\ UNCHANGED <<setup, client, mail, heard, matcher, issued, tracker, tape, exit, report,
                   file>>

-----------------------------------------------------------------------------
(* The listening stream *)

\* The headers go out, or find the client gone.
StartStream ==
    /\ Running /\ listener.at = "start"
    /\ \/ listener' = [listener EXCEPT !.at = "next"]
       \/ ~listener.alive /\ listener' = Listener("off", None, FALSE)
    /\ UNCHANGED <<setup, client, mail, received, matcher, issued, tracker, tasks,
                   unreleased, ready, tape, outcome>>

\* _next_get_message: the head of the queue is taken, or the event awaited.
Take ==
    /\ Running /\ listener.at = "next"
    /\ IF ready = <<>>
       THEN listener' = [listener EXCEPT !.at = "wait"] /\ UNCHANGED ready
       ELSE /\ listener' = Listener("held", Head(ready), listener.alive)
            /\ ready' = Tail(ready)
    /\ UNCHANGED <<setup, client, mail, received, matcher, issued, tracker, tasks,
                   unreleased, tape, outcome>>

\* The message is written, also into the socket of a client that has just hung up.
Deliver ==
    /\ Running /\ listener.at = "held" /\ ListenerBlockers = {}
    /\ heard' = IF listener.alive THEN Append(heard, listener.message) ELSE heard
    /\ Marked(listener.message)
    /\ listener' = Listener("next", None, listener.alive)
    /\ UNCHANGED <<setup, client, mail, shown, matcher, issued, opened, tasks, unreleased,
                   ready, tape, outcome>>

\* The write fails: the stream is free again, and the message is lost.
DeliverFails ==
    /\ Running /\ listener.at = "held" /\ ListenerBlockers = {}
    /\ ~listener.alive
    /\ listener' = Listener("off", None, FALSE)
    /\ UNCHANGED <<setup, client, mail, received, matcher, issued, tracker, tasks,
                   unreleased, ready, tape, outcome>>

-----------------------------------------------------------------------------
(* new_episodes: falling through to the real server *)

Message(sender, kind, n) ==
    [sender |-> sender, kind |-> kind, call |-> n]

\* The upstream session is open, and the request is recorded before it is sent on.
Forward(n) ==
    /\ At(n, "live")
    /\ tape' = Append(tape, Message("client", "request", n))
    /\ Become(n, Idle("forwarded"))
    /\ UNCHANGED <<setup, client, mail, received, matcher, issued, tracker, stream, outcome>>

\* The server cannot be reached, for the handshake or for the call.
Unreachable(n) ==
    /\ At(n, "live") \/ At(n, "forwarded")
    /\ Show(n, Item("502", None))
    /\ Closed(n)
    /\ UNCHANGED <<setup, client, mail, heard, matcher, issued, tracker, stream, tape,
                   outcome>>

\* A single body: recorded when it has been read, then passed on.
ReadBody(n) ==
    /\ At(n, "forwarded")
    /\ tape' = Append(tape, Message("server", "response", n))
    /\ Become(n, Idle("relay"))
    /\ UNCHANGED <<setup, client, mail, received, matcher, issued, tracker, stream, outcome>>

Relay(n) ==
    /\ At(n, "relay")
    /\ Show(n, Item("live", None))
    /\ Closed(n)
    /\ UNCHANGED <<setup, client, mail, heard, matcher, issued, tracker, stream, tape,
                   outcome>>

\* Variant of RelayEvents: the events are not recorded.
RelayEventsOnly(n) ==
    /\ At(n, "forwarded")
    /\ Show(n, Item("live", None))
    /\ tape' = tape
    /\ Become(n, Idle("streaming"))
    /\ UNCHANGED <<setup, client, mail, heard, matcher, issued, tracker, stream, outcome>>

\* A stream: a chunk is passed on, and its events recorded.
RelayEvents(n) ==
    /\ At(n, "forwarded")
    /\ Show(n, Item("live", None))
    /\ tape' = Append(tape, Message("server", "response", n))
    /\ Become(n, Idle("streaming"))
    /\ UNCHANGED <<setup, client, mail, heard, matcher, issued, tracker, stream, outcome>>

EndStream(n) ==
    /\ At(n, "streaming")
    /\ Closed(n)
    /\ UNCHANGED <<setup, client, mail, received, matcher, issued, tracker, stream, tape,
                   outcome>>

\* The client has hung up before the body or the chunk was passed on.
RelayFails(n) ==
    /\ At(n, "forwarded") \/ At(n, "relay")
    /\ n \in dropped
    /\ Closed(n)
    /\ UNCHANGED <<setup, client, mail, received, matcher, issued, tracker, stream, tape,
                   outcome>>

-----------------------------------------------------------------------------
(* The end *)

\* finalize: the merged cassette, or the report of the misses.
Finalize ==
    IF live THEN file' = tape /\ UNCHANGED report
    ELSE report' = misses /\ UNCHANGED file

\* An interrupt, or the cancellation that a disconnect fault has started.
Exit ==
    /\ Running
    /\ exit' = IF disconnected \/ live \/ misses = <<>> THEN "0" ELSE "3"
    /\ Finalize
    /\ UNCHANGED <<setup, client, mail, received, matcher, issued, tracker, tasks, stream,
                   tape, disconnected>>

\* The real server drops the connection in the middle of its answer: the exception
\* leaves the handler and takes the server with it, which finalizes on its way out.
UpstreamBreaks(n) ==
    /\ At(n, "forwarded") \/ At(n, "streaming")
    /\ exit' = "error"
    /\ Finalize
    /\ UNCHANGED <<setup, client, mail, received, matcher, issued, tracker, tasks, stream,
                   tape, disconnected>>

-----------------------------------------------------------------------------
Client ==
    \/ \E call \in Calls : ClientCall(call)
    \/ \E n \in Id : ClientDrop(n)
    \/ \E ask \in Asks(cassette) : ClientAnswer(ask)
    \/ ClientListen \/ ClientHangUp

Live(n) ==
    \/ Forward(n) \/ Unreachable(n) \/ ReadBody(n) \/ Relay(n) \/ RelayEvents(n)
    \/ EndStream(n) \/ RelayFails(n) \/ UpstreamBreaks(n)

Task(n) ==
    \/ Refuse(n) \/ HandleInitialize(n) \/ HandleHit(n) \/ HandleMiss(n)
    \/ SendUnmatched(n) \/ Emit(n) \/ EmitFails(n) \/ Finish(n) \/ Replace(n) \/ Hang(n)
    \/ Disconnect(n) \/ Live(n)

Listening == StartStream \/ Take \/ Deliver \/ DeliverFails

Next ==
    \/ Client \/ (\E n \in Id : Task(n)) \/ (\E ask \in Asks(cassette) : OnAnswer(ask))
    \/ Listening \/ Exit

Spec == Init /\ [][Next]_vars

-----------------------------------------------------------------------------
(* What a recording is when nobody has reused an id, as JSON-RPC asks of both sides: an  *)
(* answer comes after its request, a response in the exchange of its request, and what   *)
(* is said to the client in one exchange comes on one stream.                            *)
WellRecorded(c) ==
    /\ \A ex \in Exchanges(c) :
          Response(c, ex) # None => /\ c[Response(c, ex)].exchange = c[ex].exchange
                                    /\ c[Response(c, ex)].channel = "post"
    /\ \A i, j \in DOMAIN c :
          /\ c[i].sender = "server" /\ c[j].channel \in {"post", "get"}
          /\ c[i].exchange = c[j].exchange
          => c[i].channel = c[j].channel
    /\ \A s, t \in Asks(c) : c[s].id = c[t].id => s = t
    /\ \A s \in Asks(c) : AnswerSeq(c, s) # None => s < AnswerSeq(c, s)
WellRecordings == \A k \in DOMAIN Setups : WellRecorded(Setups[k].cassette)

-----------------------------------------------------------------------------
(* Properties *)

\* The call was recorded as ex; a handshake is the recorded one whatever its params.
Recorded(call, ex) ==
    \/ cassette[ex].call = call
    \/ IsInitialize(cassette[ex].call) /\ IsInitialize(call)

\* However the exchanges overlap, a call is answered with the recording of that call.
OwnAnswer ==
    \A n \in Id : \A k \in DOMAIN shown[n] :
        shown[n][k].what = "response" =>
            \E ex \in Exchanges(cassette) : /\ Recorded(sent[n].call, ex)
                                          /\ Response(cassette, ex) = shown[n][k].seq

\* The result is held until the client has answered what was asked of it in the same
\* exchange, on the stream of a call and, unless it was cut off, on the listening stream.
HeldUntilAnswered ==
    LET Unanswered(m) ==
            {s \in Asks(cassette) \ replied : /\ cassette[s].exchange = cassette[m].exchange
                                             /\ AnswerSeq(cassette, s) \in 1..(m - 1)}
    IN  /\ \A n \in Id : \A k \in DOMAIN shown[n] :
              shown[n][k].what \in {"response", "note"} => Unanswered(shown[n][k].seq) = {}
        /\ listens <= 1 =>
              \A k \in DOMAIN heard : \A s \in Unanswered(heard[k]) :
                  Anchor(cassette, s) # Anchor(cassette, heard[k])

\* "A hung sampling request leaves every other method answerable": what the server is
\* serving can go on, unless the client itself keeps that exchange open, with a request
\* it was shown inside it and has not answered.
OthersAreServed ==
    \A n \in DOMAIN sent \ dropped :
        /\ Serving(n) /\ tasks[n].queue # <<>> /\ mail = {}
        /\ \A k \in DOMAIN shown[n] :
              shown[n][k].what = "ask" => shown[n][k].seq \in replied
        => CallBlockers(n) = {}

\* The client is served what was recorded for its call, neither too early nor never.
ServedAsRecorded == OwnAnswer /\ HeldUntilAnswered /\ OthersAreServed

\* A message of the listening stream comes once, and those of one call in their order,
\* whatever calls are repeated and however often the client listens.
HeardOnceInOrder ==
    \A j, k \in DOMAIN heard :
        j < k /\ Anchor(cassette, heard[j]) = Anchor(cassette, heard[k])
            => heard[j] < heard[k]

\* It comes only after the reply to the call it was recorded after.
HeardAfterItsCall ==
    \A k \in DOMAIN heard :
        LET ex == Anchor(cassette, heard[k])
        IN  ex # None =>
                \E n \in DOMAIN sent :
                    /\ Recorded(sent[n].call, ex) /\ tasks[n].phase = "done"
                    /\ \/ n \in dropped
                       \/ \E i \in DOMAIN shown[n] :
                             shown[n][i] = Item("response", Response(cassette, ex))

HeardAsRecorded == HeardOnceInOrder /\ HeardAfterItsCall

\* No wakeup is lost: the handler of the listening stream does not sleep while there is a
\* message for it.
NoLostWakeup == ready # <<>> => listener.at # "wait"

\* The CI-visible failure signal: a client that was shown a miss makes the run fail, in
\* its exit code and in the report, unless a disconnect fault ended it.
MissesFailTheRun ==
    exit # "running" /\ ~live =>
        /\ \A n \in Id : \A k \in DOMAIN shown[n] :
              shown[n][k].what = "miss" => \E i \in DOMAIN report : report[i] = n
        /\ exit = "3" <=> report # <<>> /\ ~disconnected

\* However the server ends, what the client has seen of the real server was appended to
\* the cassette: the answer, and the request before it.
ShownIsSaved ==
    exit # "running" /\ live =>
        \A n \in Id : \A k \in DOMAIN shown[n] :
            shown[n][k].what = "live" =>
                \E i, j \in DOMAIN file : /\ i < j
                                          /\ file[i] = Message("client", "request", n)
                                          /\ file[j] = Message("server", "response", n)
=============================================================================
