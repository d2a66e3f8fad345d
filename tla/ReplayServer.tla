---------------------------- MODULE ReplayServer ----------------------------
(***************************************************************************)
(* The stdio replay server (src/mcp_cassette/replay/server.py, with        *)
(* server_requests.py, faults.py and the lookups of Matching).             *)
(*                                                                         *)
(* The read loop is the task Main; a response that waits for the client's  *)
(* answer to a server request gets a deferred task of its own, named by    *)
(* the number of the client's request.  Tasks share one event loop: a task *)
(* that has it (loop) keeps it up to its next await.  A send is two steps, *)
(* because it runs in a thread: Write puts the line in the pipe, where the *)
(* client sees it, and only some time later does Resume continue the task. *)
(* The sleeps of the pacer and of delay faults are waits before a Write.   *)
(***************************************************************************)
EXTENDS Matching

CONSTANTS
    Setups,     \* replays to consider: [cassette, ordering, policy, overlay]
    Calls,      \* the calls the client may make
    MaxCalls,   \* bound: calls the client makes
    Window      \* bound: calls the client has outstanding at once

Faults == {"none", "delay", "error", "malformed", "timeout", "disconnect", "disconnect_after"}

\* ordering and policy are the fields ordering and on_unmatched of MatchConfig; an
\* overlay is a sequence of faults [method, nth, type], where nth = 0 means every one.
ASSUME ConstantsAssumption ==
    /\ \A s \in Setups : /\ s.ordering \in {"per_method", "strict", "none"}
                         /\ s.policy \in {"stop", "error"}
                         /\ IsSeq(s.cassette) /\ IsSeq(s.overlay)
                         /\ \A k \in DOMAIN s.overlay : s.overlay[k].type \in Faults
    /\ MaxCalls \in Nat
    /\ Window \in Nat

VARIABLES
    setup,      \* what is replayed, and how
    client,     \* "open", "done" (stdin closed), "gone" (both pipes closed)
    sent,       \* the calls the client has made
    replied,    \* the asks the client has answered
    stdin,      \* lines not yet read: the number of a call, or an answer to an id
    shown,      \* the lines the client has received
    used,       \* exchanges consumed by the matcher
    emitted,    \* asks marked as emitted
    opened,     \* asks whose gate the client's answer has opened
    counts,     \* Injector._match_counts
    greeted,    \* the leading notifications have been emitted
    misses,     \* Matcher._misses: the calls that missed
    divergence, \* the first divergence: its step, the recorded call, the reason
    tasks,      \* what each task is doing
    loop,       \* the task whose code is running, or Free
    scope,      \* the task group: "open" or "cancelled"
    hangup,     \* _disconnect_requested
    broken,     \* an exception is on its way out of the task group
    exit,       \* "running", then the exit code
    report      \* what _write_report left: its misses, or NoReport

cassette == setup.cassette
ordering == setup.ordering
policy == setup.policy
overlay == setup.overlay

world == <<client, sent, replied>>
matcher == <<used, misses, divergence, counts>>
tracker == <<emitted, opened>>
running == <<tasks, loop, scope, hangup, broken>>
outcome == <<exit, report>>
vars == <<setup, world, stdin, shown, matcher, tracker, greeted, running, outcome>>

Main == 0
Task == 0..MaxCalls
Free == MaxCalls + 1        \* no task has the event loop
NoReport == <<"none">>
NoDivergence == [step |-> 0, expected |-> None, reason |-> "none"]
Methods == {call.method : call \in Calls}

Call(n) == [type |-> "call", of |-> n]
AnswerTo(id) == [type |-> "answer", of |-> id]
Item(what, n, m) == [what |-> what, call |-> n, seq |-> m]

\* A task: where it is, the call it serves, the exchange and the fault it found
\* for it, the lines it still has to send, and whether the first is in the pipe.
Phases == {"idle", "read", "during", "gate", "reply", "leading", "initialize",
           "after", "miss", "end"}
Job(phase, n, ex, fault, queue) ==
    [phase |-> phase, call |-> n, ex |-> ex, fault |-> fault, queue |-> queue,
     writing |-> FALSE]
Idle(phase) == Job(phase, 0, None, "none", <<>>)

TypeOK ==
    /\ setup \in Setups
    /\ client \in {"open", "done", "gone"}
    /\ Len(sent) <= MaxCalls /\ \A n \in DOMAIN sent : sent[n] \in Calls
    /\ replied \subseteq Asks(cassette)
    /\ used \subseteq Exchanges(cassette)
    /\ opened \subseteq emitted /\ emitted \subseteq Asks(cassette)
    /\ counts \in [Methods -> 0..MaxCalls]
    /\ \A t \in Task : /\ tasks[t].phase \in Phases
                       /\ tasks[t].writing => tasks[t].queue # <<>>
    /\ loop \in Task \cup {Free}
    /\ exit \in {"running", "0", "3", "error"}

Init ==
    /\ setup \in Setups
    /\ client = "open" /\ sent = <<>> /\ replied = {}
    /\ stdin = <<>> /\ shown = <<>>
    /\ used = {} /\ misses = <<>> /\ divergence = NoDivergence
    /\ counts = [m \in Methods |-> 0]
    /\ emitted = {} /\ opened = {} /\ greeted = FALSE
    /\ tasks = [t \in Task |-> Idle(IF t = Main THEN "read" ELSE "idle")]
    /\ loop = Free /\ scope = "open" /\ hangup = FALSE /\ broken = FALSE
    /\ exit = "running" /\ report = NoReport

-----------------------------------------------------------------------------
(* The client (external) *)

\* The client has its reply to the call n.
Answered(n) ==
    \E k \in DOMAIN shown : shown[k].call = n /\ shown[k].what # "note"

Outstanding == {n \in DOMAIN sent : ~Answered(n)}

ClientCall(call) ==
    /\ client = "open" /\ exit = "running"
    /\ Len(sent) < MaxCalls
    /\ Cardinality(Outstanding) < Window
    /\ sent' = Append(sent, call)
    /\ stdin' = Append(stdin, Call(Len(sent) + 1))
    /\ UNCHANGED <<setup, client, replied, shown, matcher, tracker, greeted, running,
                   outcome>>

\* The client answers a request of the server, once, and the older one first when
\* two share an id.
ClientAnswer(ask) ==
    /\ client = "open"
    /\ LET asked == {shown[k].seq : k \in {i \in DOMAIN shown : shown[i].what = "ask"}}
       IN  ask = First(WithId(cassette, asked \ replied, cassette[ask].id))
    /\ replied' = replied \cup {ask}
    /\ stdin' = Append(stdin, AnswerTo(cassette[ask].id))
    /\ UNCHANGED <<setup, client, sent, shown, matcher, tracker, greeted, running,
                   outcome>>

\* It closes the pipe to us ("done"), and perhaps ours to it as well ("gone").
ClientLeave(how) ==
    /\ client # "gone" /\ how \in {"done", "gone"} \ {client}
    /\ client' = how
    /\ UNCHANGED <<setup, sent, replied, stdin, shown, matcher, tracker, greeted,
                   running, outcome>>

-----------------------------------------------------------------------------
(* Helpers *)

\* The phases in which a task with nothing to send waits for something else.
Waiting == {"idle", "read", "gate", "end"}

\* Task t goes on as job, and keeps the loop if it has nothing to wait for.
Become(t, job) ==
    /\ tasks' = [tasks EXCEPT ![t] = job]
    /\ loop' = IF job.queue = <<>> /\ job.phase \notin Waiting THEN t ELSE Free

\* Injector.consult: the first overlay entry for this occurrence of the method.
FaultFor(method) ==
    LET nth == counts[method] + 1
        hit == First({k \in DOMAIN overlay :
                        overlay[k].method = method /\ overlay[k].nth \in {0, nth}})
    IN  IF hit = None THEN "none" ELSE overlay[hit].type
Consulted(method) == counts' = [counts EXCEPT ![method] = @ + 1]

\* The lines a task has to send: asks, notifications, and the reply to a call
\* with the fault that applies to it.
Ask(ex, trigger) ==
    LET asks == Triggered(cassette, ex, trigger, emitted)
    IN  [k \in DOMAIN asks |-> Item("ask", None, asks[k])]

Notes(seqs) == [k \in DOMAIN seqs |-> Item("note", None, seqs[k])]

Reply(n, ex, fault) ==
    LET answer(what) == <<Item(what, n, Response(cassette, ex))>>
        notes == Notes(Notifications(cassette, ex))
    IN  CASE fault \in {"none", "delay"} -> answer("response") \o notes
          [] fault = "error" -> answer("error") \o notes
          [] fault = "malformed" -> answer("malformed") \o notes
          [] fault = "disconnect_after" -> answer("response")
          [] fault \in {"disconnect", "timeout"} -> <<>>

Initialize == First({ex \in Exchanges(cassette) : IsInitialize(cassette[ex].call)})

-----------------------------------------------------------------------------
(* The read loop *)

\* The read runs in a thread that cannot be cancelled: a call that comes in when the
\* group is already cancelled is still handled, up to the next await.
AtRead == loop = Free /\ tasks[Main].phase = "read"

\* Main takes the call n off its stdin.
Takes(n) ==
    /\ AtRead
    /\ stdin # <<>> /\ Head(stdin) = Call(n)
    /\ stdin' = Tail(stdin)

Missed(n, ex) ==
    Become(Main, Job("miss", n, ex, "none", <<Item("miss", n, None)>>))

\* _handle_initialize: the recorded handshake, or a miss recorded by hand.
HandleInitialize(n) ==
    /\ Takes(n) /\ IsInitialize(sent[n])
    /\ IF Response(cassette, Initialize) # None
       THEN LET fault == FaultFor("initialize")
            IN  /\ Consulted("initialize")
                /\ Become(Main, Job("reply", n, Initialize, fault,
                                    Reply(n, Initialize, fault)))
                /\ UNCHANGED misses
       ELSE /\ misses' = Append(misses, n)
            /\ Missed(n, Initialize)
            /\ UNCHANGED counts
    /\ UNCHANGED <<setup, world, shown, used, divergence, tracker, greeted, scope,
                   hangup, broken, outcome>>

\* Matcher.find for any other call.
Match(n) == Lookup(cassette, used, sent[n], ordering)

\* A recorded response: the asks of its exchange come first.
HandleHit(n) ==
    /\ Takes(n) /\ ~IsInitialize(sent[n])
    /\ LET ex == Match(n)
           method == sent[n].method
       IN  /\ Response(cassette, ex) # None
           /\ used' = Consume(used, ex, ordering)
           /\ Consulted(method)
           /\ Become(Main, Job("during", n, ex, FaultFor(method), Ask(ex, "during")))
    /\ UNCHANGED <<setup, world, shown, misses, divergence, tracker, greeted, scope,
                   hangup, broken, outcome>>

\* Variant of HandleMiss: a request recorded without a response is no miss.
HandleMissSilently(n) ==
    /\ Takes(n) /\ ~IsInitialize(sent[n])
    /\ LET ex == Match(n)
       IN  /\ Response(cassette, ex) = None
           /\ used' = IF ex = None THEN used ELSE Consume(used, ex, ordering)
           /\ misses' = IF ex = None THEN Append(misses, n) ELSE misses
           /\ divergence' = divergence
           /\ Missed(n, ex)
    /\ UNCHANGED <<setup, world, shown, counts, tracker, greeted, scope, hangup,
                   broken, outcome>>

\* No exchange, or one whose response was never recorded.
HandleMiss(n) ==
    /\ Takes(n) /\ ~IsInitialize(sent[n])
    /\ LET ex == Match(n)
       IN  /\ Response(cassette, ex) = None
           /\ used' = IF ex = None THEN used ELSE Consume(used, ex, ordering)
           /\ misses' = Append(misses, n)
           /\ divergence' =
                IF divergence # NoDivergence THEN divergence
                ELSE [step |-> n,
                      expected |-> IF ex = None
                                   THEN Expected(cassette, used, sent[n], ordering)
                                   ELSE ex,
                      reason |-> IF ex = None THEN "no-match" ELSE "no-response"]
           /\ Missed(n, ex)
    /\ UNCHANGED <<setup, world, shown, counts, tracker, greeted, scope, hangup,
                   broken, outcome>>

\* Variants of OnAnswer: an ask need not be marked as emitted to be answered, and an
\* answer goes to the first ask with its id, answered or not.
OnAnswerUnmarked ==
    /\ AtRead /\ scope = "open"
    /\ stdin # <<>> /\ Head(stdin).type = "answer"
    /\ stdin' = Tail(stdin)
    /\ LET ask == First(WithId(cassette, Asks(cassette) \ opened, Head(stdin).of))
       IN  opened' = opened \cup ({ask} \ {None})
    /\ UNCHANGED <<setup, world, shown, matcher, emitted, greeted, running, outcome>>

OnAnswerFirst ==
    /\ AtRead /\ scope = "open"
    /\ stdin # <<>> /\ Head(stdin).type = "answer"
    /\ stdin' = Tail(stdin)
    /\ LET ask == First(WithId(cassette, emitted, Head(stdin).of))
       IN  opened' = opened \cup ({ask} \ {None})
    /\ UNCHANGED <<setup, world, shown, matcher, emitted, greeted, running, outcome>>

\* on_client_message: an answer opens the gate of the first emitted, unanswered ask
\* with its id, and is dropped if there is none.
OnAnswer ==
    /\ AtRead /\ scope = "open"
    /\ stdin # <<>> /\ Head(stdin).type = "answer"
    /\ stdin' = Tail(stdin)
    /\ LET ask == First(WithId(cassette, emitted \ opened, Head(stdin).of))
       IN  opened' = opened \cup ({ask} \ {None})
    /\ UNCHANGED <<setup, world, shown, matcher, emitted, greeted, running, outcome>>

\* End of stdin: gated responses are abandoned.
Eof ==
    /\ AtRead /\ scope = "open"
    /\ client # "open" /\ stdin = <<>>
    /\ Become(Main, Idle("end"))
    /\ scope' = "cancelled"
    /\ UNCHANGED <<setup, world, stdin, shown, matcher, tracker, greeted, hangup, broken,
                   outcome>>

-----------------------------------------------------------------------------
(* Sending *)

LockFree == \A t \in Task : ~tasks[t].writing

\* Task t holds the output lock and its next line is in the pipe.
Write(t) ==
    /\ loop = Free /\ scope = "open" /\ client # "gone"
    /\ tasks[t].queue # <<>> /\ LockFree
    /\ shown' = Append(shown, Head(tasks[t].queue))
    /\ tasks' = [tasks EXCEPT ![t].writing = TRUE]
    /\ UNCHANGED <<setup, world, stdin, matcher, tracker, greeted, loop, scope, hangup,
                   broken, outcome>>

\* The send returns: an ask is marked as emitted.
Resume(t) ==
    /\ loop = Free
    /\ tasks[t].writing
    /\ LET line == Head(tasks[t].queue)
       IN  emitted' = IF line.what = "ask" THEN emitted \cup {line.seq} ELSE emitted
    /\ Become(t, [tasks[t] EXCEPT !.queue = Tail(@), !.writing = FALSE])
    /\ UNCHANGED <<setup, world, stdin, shown, matcher, opened, greeted, scope, hangup,
                   broken, outcome>>

\* The pipe to the client is closed: the send raises, out of the task group.
SendFails(t) ==
    /\ loop = Free /\ scope = "open" /\ client = "gone"
    /\ tasks[t].queue # <<>> /\ LockFree
    /\ Become(t, Idle("end"))
    /\ broken' = TRUE
    /\ scope' = "cancelled"
    /\ UNCHANGED <<setup, world, stdin, shown, matcher, tracker, greeted, hangup, outcome>>

-----------------------------------------------------------------------------
(* What a task does between two sends *)

At(t, phase) == loop = t /\ scope = "open" /\ tasks[t].phase = phase

Stage(t, phase, queue) ==
    LET j == tasks[t] IN Become(t, Job(phase, j.call, j.ex, j.fault, queue))

ForInitialize(t) == IsInitialize(sent[tasks[t].call])

\* Variant of Blockers: the gate looks at where the request was recorded.
BlockersOfRequest(ex) == Gates(cassette, emitted, opened, ex)

\* would_block: the asks whose answers the response has to wait for.
Blockers(ex) == Gates(cassette, emitted, opened, Response(cassette, ex))

\* The reply is built, and its first line waits for the pacer and the lock.
StartReply ==
    /\ At(Main, "during") /\ ~ForInitialize(Main)
    /\ LET j == tasks[Main]
       IN  /\ Blockers(j.ex) = {}
           /\ Stage(Main, "reply", Reply(j.call, j.ex, j.fault))
    /\ UNCHANGED <<setup, world, stdin, shown, matcher, tracker, greeted, scope, hangup,
                   broken, outcome>>

\* A gated response is finished by a task of its own; Main reads on.
Defer ==
    /\ At(Main, "during") /\ ~ForInitialize(Main)
    /\ LET j == tasks[Main]
       IN  /\ Blockers(j.ex) # {}
           /\ tasks' = [tasks EXCEPT ![Main] = Idle("read"),
                                     ![j.call] = [j EXCEPT !.phase = "gate"]]
    /\ loop' = Free
    /\ UNCHANGED <<setup, world, stdin, shown, matcher, tracker, greeted, scope, hangup,
                   broken, outcome>>

\* wait_ready returns in a deferred task.
PassGate(t) ==
    /\ loop = Free /\ scope = "open" /\ tasks[t].phase = "gate"
    /\ Blockers(tasks[t].ex) = {}
    /\ Stage(t, "reply", Reply(tasks[t].call, tasks[t].ex, tasks[t].fault))
    /\ UNCHANGED <<setup, world, stdin, shown, matcher, tracker, greeted, scope, hangup,
                   broken, outcome>>

\* _Disconnect: Main leaves its loop, or a deferred task cancels the group.
Disconnect(t) ==
    /\ At(t, "reply") /\ tasks[t].fault \in {"disconnect", "disconnect_after"}
    /\ Become(t, Idle("end"))
    /\ hangup' = TRUE
    /\ scope' = "cancelled"
    /\ UNCHANGED <<setup, world, stdin, shown, matcher, tracker, greeted, broken, outcome>>

\* After the handshake: leading notifications, once, then the asks around it.
Greet ==
    /\ At(Main, "reply") /\ ForInitialize(Main)
    /\ tasks[Main].fault \notin {"disconnect", "disconnect_after"}
    /\ Stage(Main, "leading", IF greeted THEN <<>> ELSE Notes(Leading(cassette)))
    /\ greeted' = TRUE
    /\ UNCHANGED <<setup, world, stdin, shown, matcher, tracker, scope, hangup, broken,
                   outcome>>

\* The asks that belong to the next stage of task t.
NextAsks(t) ==
    LET j == tasks[t] IN
    \/ /\ At(t, "reply") /\ ~ForInitialize(t)
       /\ j.fault \notin {"disconnect", "disconnect_after"}
       /\ Stage(t, "after", Ask(j.ex, "after"))
    \/ /\ At(t, "leading")
       /\ Stage(t, "initialize", Ask(None, "initialize"))
    \/ /\ At(t, "initialize")
       /\ Stage(t, "during", Ask(j.ex, "during"))
    \/ /\ At(t, "during") /\ ForInitialize(t)
       /\ Stage(t, "after", Ask(j.ex, "after"))

SendAsks(t) ==
    /\ NextAsks(t)
    /\ UNCHANGED <<setup, world, stdin, shown, matcher, tracker, greeted, scope, hangup,
                   broken, outcome>>

\* The call is done with: Main reads on, a deferred task ends.
Done(t) ==
    /\ \/ At(t, "after")
       \/ At(t, "miss") /\ policy = "error"
    /\ Become(t, Idle(IF t = Main THEN "read" ELSE "idle"))
    /\ UNCHANGED <<setup, world, stdin, shown, matcher, tracker, greeted, scope, hangup,
                   broken, outcome>>

\* _Stop: the run has left the recording.
Stop ==
    /\ At(Main, "miss") /\ policy = "stop"
    /\ Become(Main, Idle("end"))
    /\ scope' = "cancelled"
    /\ UNCHANGED <<setup, world, stdin, shown, matcher, tracker, greeted, hangup, broken,
                   outcome>>

-----------------------------------------------------------------------------
(* The end *)

\* A cancelled task ends at its await; a send in its thread is waited for, and so
\* is the read of stdin, until the client sends or closes.
Cancel(t) ==
    /\ scope = "cancelled" /\ loop \in {t, Free}
    /\ tasks[t].phase \notin {"idle", "end"} /\ ~tasks[t].writing
    /\ tasks[t].phase = "read" => stdin # <<>> \/ client # "open"
    /\ Become(t, Idle("end"))
    /\ UNCHANGED <<setup, world, stdin, shown, matcher, tracker, greeted, scope, hangup,
                   broken, outcome>>

\* The task group is empty: the report is written and the exit code chosen, unless
\* an exception passes through.
Exit ==
    /\ exit = "running" /\ scope = "cancelled" /\ loop = Free
    /\ \A t \in Task : tasks[t].phase \in {"idle", "end"}
    /\ IF broken
       THEN exit' = "error" /\ UNCHANGED report
       ELSE /\ exit' = IF hangup \/ misses = <<>> THEN "0" ELSE "3"
            /\ report' = misses
    /\ UNCHANGED <<setup, world, stdin, shown, matcher, tracker, greeted, running>>

-----------------------------------------------------------------------------
Client ==
    \/ \E call \in Calls : ClientCall(call)
    \/ \E ask \in Asks(cassette) : ClientAnswer(ask)
    \/ \E how \in {"done", "gone"} : ClientLeave(how)

Handle ==
    \/ \E n \in 1..MaxCalls : HandleInitialize(n) \/ HandleHit(n) \/ HandleMiss(n)
    \/ OnAnswer \/ Eof

MainStep == StartReply \/ Defer \/ Greet \/ Stop

Send(t) == Write(t) \/ Resume(t) \/ SendFails(t)

TaskStep(t) ==
    \/ Send(t) \/ PassGate(t) \/ Disconnect(t) \/ SendAsks(t) \/ Done(t) \/ Cancel(t)

Next == Client \/ Handle \/ MainStep \/ (\E t \in Task : TaskStep(t)) \/ Exit

Spec == Init /\ [][Next]_vars

\* The event loop serves every task that can go on, and the client answers what the
\* server asks it.  Nobody has to call, or to leave.
Fairness ==
    /\ WF_vars(Handle) /\ WF_vars(MainStep) /\ WF_vars(Exit)
    /\ \A t \in Task : WF_vars(TaskStep(t))
    /\ WF_vars(\E ask \in Asks(cassette) : ClientAnswer(ask))

FairSpec == Spec /\ Fairness

-----------------------------------------------------------------------------
(* Properties *)

\* No client reuses the id of a request, as JSON-RPC asks of it.
UniqueIds ==
    \A s \in Setups : \A i, j \in Exchanges(s.cassette) :
        s.cassette[i].id = s.cassette[j].id => i = j

\* Nothing is asked after a response that may have to wait for the answer to an ask.
PromptAsks ==
    \A s \in Setups : \A a, b \in Asks(s.cassette) :
        LET ex == Anchor(s.cassette, a)
        IN  Trigger(s.cassette, a) = "after" /\ ~IsInitialize(s.cassette[ex].call)
            => AnswerSeq(s.cassette, b) \notin 1..(Response(s.cassette, ex) - 1)

\* No side reuses an id under which it asks or answers, and an answer comes after its ask.
Paired(c) ==
    /\ \A ex \in Exchanges(c) :
          First(WithId(c, Sent(c, "server", "response"), c[ex].id)) = Response(c, ex)
    /\ \A a, b \in Asks(c) : c[a].id = c[b].id => a = b
    /\ \A a \in Asks(c) : AnswerSeq(c, a) # None => a < AnswerSeq(c, a)
PairedOnce == \A s \in Setups : Paired(s.cassette)

Responses == {k \in DOMAIN shown : shown[k].what = "response"}

\* The recorded request a response was recorded for.
RequestOf(m) == First({ex \in Exchanges(cassette) : Response(cassette, ex) = m})

\* The call was recorded as ex; a handshake is the recorded one whatever its params.
Recorded(call, ex) ==
    \/ cassette[ex].call = call
    \/ IsInitialize(cassette[ex].call) /\ IsInitialize(call)

\* A call is never answered with the recording of another call.
OwnAnswer == \A k \in Responses : Recorded(sent[shown[k].call], RequestOf(shown[k].seq))

\* Repeated calls get their recorded answers in the order they were recorded, each
\* once: a retry that failed and then succeeded replays as exactly that.
EachOnceInOrder ==
    \A j, k \in Responses :
        LET m == shown[j].call
            n == shown[k].call
        IN  m < n /\ sent[m] = sent[n] /\ ~IsInitialize(sent[m]) /\ ordering # "none"
            => RequestOf(shown[j].seq) < RequestOf(shown[k].seq)

\* "holds the recorded result until the agent answers": a response is not shown
\* before the client has answered what was asked of it inside the exchange.
HeldUntilAnswered ==
    [][\A s \in Asks(cassette) :
          shown' # shown /\ shown'[Len(shown')].what \in {"response", "error", "malformed"}
            => LET m == shown'[Len(shown')].seq
               IN  ~IsInitialize(sent[shown'[Len(shown')].call])
                   /\ Anchor(cassette, s) = RequestOf(m)
                   /\ AnswerSeq(cassette, s) \in 1..(m - 1)
                   => s \in replied]_vars

\* "The agent's response is accepted whatever its content": every answer the client
\* has given is still on stdin, or has opened a gate.
EveryAnswerCounts ==
    scope = "open" => \A id \in {cassette[s].id : s \in replied} :
        Cardinality(WithId(cassette, replied, id))
            = Cardinality(WithId(cassette, opened, id))
              + Cardinality({k \in DOMAIN stdin : stdin[k] = AnswerTo(id)})

\* A server request is asked once, whatever calls and tasks overlap.
AskedOnce ==
    \A j, k \in DOMAIN shown :
        shown[j].what = "ask" /\ shown[k] = shown[j] /\ ordering # "none" => j = k

\* The client sees the recording played: its own answers, in their order, and what the
\* server asked once.
PlayedInOrder == OwnAnswer /\ EachOnceInOrder /\ AskedOnce

\* Under "stop" nothing reaches the client after the error that names the miss.
StopsAtTheMiss ==
    policy = "stop" => \A k \in DOMAIN shown : shown[k].what = "miss" => k = Len(shown)

\* The CI-visible failure signal: a client that was shown a miss makes the run fail,
\* in its exit code and in the report, unless a disconnect fault ended it.
MissesFailTheRun ==
    exit \in {"0", "3"} =>
        /\ \A k \in DOMAIN shown :
              shown[k].what = "miss" => \E i \in DOMAIN report : report[i] = shown[k].call
        /\ exit = "3" <=> report # <<>> /\ ~hangup

\* The divergence is the first call that left the recording, and every call before
\* it was served.
DivergesAtTheFirstMiss ==
    divergence # NoDivergence =>
        \A n \in 1..(divergence.step - 1) :
            IsInitialize(sent[n]) \/ \A k \in DOMAIN misses : misses[k] # n

\* A run that leaves the recording says so: it fails, shows nothing after the error
\* when it is to stop there, and explains itself by the first call that did.
MissesAreHonoured == MissesFailTheRun /\ StopsAtTheMiss /\ DivergesAtTheFirstMiss

\* The calls that the client waits for, and that no fault is meant to swallow.
Unanswered ==
    {n \in Outstanding :
        /\ client = "open" /\ exit = "running"
        /\ ~\E k \in DOMAIN overlay :
              overlay[k].type = "timeout" /\ overlay[k].method = sent[n].method}

\* A call is replied to while the client stays, unless a timeout fault is meant to
\* swallow it or the run ends.
EveryCallAnswered ==
    \A n \in 1..MaxCalls : n \in Unanswered ~> n \notin Unanswered

\* "Close the pipes and exit": a disconnect fault ends the server.  No run: the code breaks
\* it on a gated response (HangupSetups).
DisconnectEnds == hangup ~> exit # "running"
=============================================================================
