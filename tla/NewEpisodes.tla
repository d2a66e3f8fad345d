---------------------------- MODULE NewEpisodes ----------------------------
(***************************************************************************)
(* The record mode new_episodes over stdio                                 *)
(* (src/mcp_cassette/replay/new_episodes.py): sessions that follow one     *)
(* another over one cassette, each of which replays what is recorded,      *)
(* sends the rest to the real server and appends it at its end.            *)
(*                                                                         *)
(* A session has two tasks: the client loop, which reads our stdin, and    *)
(* the server loop, which reads what the server writes.  Each is what it   *)
(* awaits.  The call of a recorded response is the call it answers; the    *)
(* code does not look at it.  Notifications are left out.                  *)
(***************************************************************************)
EXTENDS Matching

CONSTANTS
    Setups,         \* [cassette, ordering] to start from
    Calls,          \* the calls a client may make
    MaxSessions,    \* bound: sessions
    MaxCalls        \* bound: calls in a session

\* What may stand in a cassette: what was recorded, and what a session captures.
Captured == [sender : {"client", "server"}, kind : {"request", "response"},
             id : 1..MaxCalls, call : Calls]
Messages ==
    Captured \cup UNION {{s.cassette[k] : k \in DOMAIN s.cassette} : s \in Setups}

ASSUME EpisodesAssumption ==
    /\ \A s \in Setups : /\ s.ordering \in {"per_method", "strict", "none"}
                         /\ s.cassette \in Seq(Messages)
    /\ MaxSessions \in Nat
    /\ MaxCalls \in Nat

VARIABLES
    file,       \* the cassette at its path
    ordering,   \* MatchConfig.ordering
    session,    \* the number of sessions that were started
    outcome,    \* of the session: "running", "saved", "lost", at first "none"
    base,       \* the cassette the session has loaded
    used,       \* its exchanges consumed by the matcher
    tape,       \* what the recorder has captured
    client,     \* "open", "done" (stdin closed), "gone" (both pipes closed)
    sent,       \* the calls of the session; the number of a call is its request id
    stdin,      \* calls not yet read
    shown,      \* what the client has received: [call, of, live]
    server,     \* "up", "dead"
    inbox,      \* calls the server has not answered
    outbox,     \* answers of the server not yet read
    reader,     \* the client loop: where it is, and the line it has
    writer      \* the server loop, likewise

world == <<client, sent>>
proxy == <<base, used>>
vars == <<file, ordering, session, outcome, proxy, tape, world, stdin, shown, server,
          inbox, outbox, reader, writer>>

At(place, line) == [at |-> place, line |-> line]

Message(sender, kind, n) ==
    [sender |-> sender, kind |-> kind, id |-> n, call |-> sent[n]]

\* A line about the call n: its answer, recorded or live, is for the call "of".
Line(n, of, live) == [call |-> n, of |-> of, live |-> live]
NoLine == <<>>

TypeOK ==
    /\ file \in Seq(Messages) /\ base \in Seq(Messages) /\ tape \in Seq(Messages)
    /\ session \in 0..MaxSessions
    /\ outcome \in {"none", "running", "saved", "lost"}
    /\ used \subseteq Exchanges(base)
    /\ client \in {"open", "done", "gone"} /\ server \in {"up", "dead"}
    /\ Len(sent) <= MaxCalls /\ \A n \in DOMAIN sent : sent[n] \in Calls
    /\ \A k \in DOMAIN tape : tape[k].id \in DOMAIN sent
    /\ reader.at \in {"read", "reply", "forward", "end"}
    /\ writer.at \in {"read", "emit"}
    /\ \A k \in DOMAIN shown : shown[k].call \in DOMAIN sent

Init ==
    /\ \E s \in Setups : file = s.cassette /\ ordering = s.ordering
    /\ session = 0 /\ outcome = "none"
    /\ base = <<>> /\ used = {} /\ tape = <<>>
    /\ client = "open" /\ sent = <<>> /\ stdin = <<>> /\ shown = <<>>
    /\ server = "up" /\ inbox = <<>> /\ outbox = <<>>
    /\ reader = At("read", NoLine) /\ writer = At("read", NoLine)

Running == outcome = "running"

\* A new session loads the cassette and spawns the server.
Start ==
    /\ ~Running /\ session < MaxSessions
    /\ session' = session + 1 /\ outcome' = "running"
    /\ base' = file /\ used' = {} /\ tape' = <<>>
    /\ client' = "open" /\ sent' = <<>> /\ stdin' = <<>> /\ shown' = <<>>
    /\ server' = "up" /\ inbox' = <<>> /\ outbox' = <<>>
    /\ reader' = At("read", NoLine) /\ writer' = At("read", NoLine)
    /\ UNCHANGED <<file, ordering>>

-----------------------------------------------------------------------------
(* The client and the server (external) *)

ClientCall(call) ==
    /\ Running /\ client = "open" /\ Len(sent) < MaxCalls
    /\ sent' = Append(sent, call)
    /\ stdin' = Append(stdin, Len(sent) + 1)
    /\ UNCHANGED <<file, ordering, session, outcome, proxy, tape, client, shown, server,
                   inbox, outbox, reader, writer>>

ClientLeave(how) ==
    /\ Running /\ client # "gone" /\ how \in {"done", "gone"} \ {client}
    /\ client' = how
    /\ UNCHANGED <<file, ordering, session, outcome, proxy, tape, sent, stdin, shown,
                   server, inbox, outbox, reader, writer>>

ServerAnswer ==
    /\ Running /\ server = "up"
    /\ inbox # <<>>
    /\ outbox' = Append(outbox, Head(inbox))
    /\ inbox' = Tail(inbox)
    /\ UNCHANGED <<file, ordering, session, outcome, proxy, tape, world, stdin, shown,
                   server, reader, writer>>

ServerExit ==
    /\ Running /\ server = "up"
    /\ server' = "dead"
    /\ UNCHANGED <<file, ordering, session, outcome, proxy, tape, world, stdin, shown,
                   inbox, outbox, reader, writer>>

-----------------------------------------------------------------------------
(* The client loop *)

\* The loop takes the call n off its stdin.
Takes(n) ==
    /\ Running /\ reader.at = "read"
    /\ stdin # <<>> /\ Head(stdin) = n
    /\ stdin' = Tail(stdin)

\* Matcher.find: initialize does not go through it.
Match(n) ==
    IF IsInitialize(sent[n]) THEN None ELSE Lookup(base, used, sent[n], ordering)

\* Variant of Matched: what matched is consumed, though nothing did.
MatchedAlways(n) == used' = Consume(used, Match(n), ordering)

Matched(n) ==
    used' = IF Match(n) = None THEN used ELSE Consume(used, Match(n), ordering)

\* A recorded answer is on its way to the client.
Replay(n) ==
    /\ Takes(n)
    /\ Response(base, Match(n)) # None
    /\ Matched(n)
    /\ reader' = At("reply", Line(n, base[Response(base, Match(n))].call, FALSE))
    /\ UNCHANGED <<file, ordering, session, outcome, base, tape, world, shown, server,
                   inbox, outbox, writer>>

\* Variant of Reply: a call that was replayed goes on to the server.
ReplyAndForward ==
    /\ Running /\ reader.at = "reply" /\ client # "gone"
    /\ shown' = Append(shown, reader.line)
    /\ reader' = At("forward", Line(reader.line.call, reader.line.of, TRUE))
    /\ UNCHANGED <<file, ordering, session, outcome, proxy, tape, world, stdin, server,
                   inbox, outbox, writer>>

Reply ==
    /\ Running /\ reader.at = "reply" /\ client # "gone"
    /\ shown' = Append(shown, reader.line)
    /\ reader' = At("read", NoLine)
    /\ UNCHANGED <<file, ordering, session, outcome, proxy, tape, world, stdin, server,
                   inbox, outbox, writer>>

\* Variant of Forward: a call that was recorded without an answer is sent on without
\* being recorded again.
ForwardOffTape(n) ==
    /\ Takes(n)
    /\ Response(base, Match(n)) = None
    /\ Matched(n)
    /\ tape' = IF IsInitialize(sent[n]) \/ Match(n) = None
               THEN Append(tape, Message("client", "request", n)) ELSE tape
    /\ reader' = At("forward", Line(n, sent[n], TRUE))
    /\ UNCHANGED <<file, ordering, session, outcome, base, world, shown, server, inbox,
                   outbox, writer>>

\* initialize, or a call without a recorded answer, is recorded and sent to the server.
Forward(n) ==
    /\ Takes(n)
    /\ Response(base, Match(n)) = None
    /\ Matched(n)
    /\ tape' = Append(tape, Message("client", "request", n))
    /\ reader' = At("forward", Line(n, sent[n], TRUE))
    /\ UNCHANGED <<file, ordering, session, outcome, base, world, shown, server, inbox,
                   outbox, writer>>

SendOn ==
    /\ Running /\ reader.at = "forward" /\ server = "up"
    /\ inbox' = Append(inbox, reader.line)
    /\ reader' = At("read", NoLine)
    /\ UNCHANGED <<file, ordering, session, outcome, proxy, tape, world, stdin, shown,
                   server, outbox, writer>>

\* Variant of ClientEof: the server's stdin is closed only once the server is gone.
ClientEofLate ==
    /\ Running /\ reader.at = "read" /\ server = "dead"
    /\ client # "open" /\ stdin = <<>>
    /\ reader' = At("end", NoLine)
    /\ UNCHANGED <<file, ordering, session, outcome, proxy, tape, world, stdin, shown,
                   server, inbox, outbox, writer>>

\* End of stdin: _client_eof is set and the server's stdin closed, which it takes as
\* the order to exit.
ClientEof ==
    /\ Running /\ reader.at = "read"
    /\ client # "open" /\ stdin = <<>>
    /\ reader' = At("end", NoLine)
    /\ UNCHANGED <<file, ordering, session, outcome, proxy, tape, world, stdin, shown,
                   server, inbox, outbox, writer>>

-----------------------------------------------------------------------------
(* The server loop *)

TapAnswer ==
    /\ Running /\ writer.at = "read"
    /\ outbox # <<>>
    /\ tape' = Append(tape, Message("server", "response", Head(outbox).call))
    /\ writer' = At("emit", Head(outbox))
    /\ outbox' = Tail(outbox)
    /\ UNCHANGED <<file, ordering, session, outcome, proxy, world, stdin, shown, server,
                   inbox, reader>>

Emit ==
    /\ Running /\ writer.at = "emit" /\ client # "gone"
    /\ shown' = Append(shown, writer.line)
    /\ writer' = At("read", NoLine)
    /\ UNCHANGED <<file, ordering, session, outcome, proxy, tape, world, stdin, server,
                   inbox, outbox, reader>>

-----------------------------------------------------------------------------
(* The end of a session *)

\* Variant of Merged: only what was captured.
MergedAnew == tape

\* The merged cassette: what was loaded, then what was captured.
Merged == base \o tape

\* _finalize, with its save.  The claim is not modelled here.
Finalize ==
    /\ Running
    /\ server = "dead" /\ outbox = <<>> /\ writer.at = "read"
    /\ file' = Merged
    /\ outcome' = "saved"
    /\ UNCHANGED <<ordering, session, proxy, tape, world, stdin, shown, server, inbox,
                   outbox, reader, writer>>

\* Both loops have ended, or the server died under an open client and
\* exit_on_server_death finalizes with the client loop wherever it is.
EndNormally == reader.at = "end" /\ Finalize
EndHard == reader.at # "end" /\ Finalize

\* A send to a closed pipe raises, and nothing finalizes the session.
SendFails ==
    /\ Running
    /\ \/ reader.at = "forward" /\ server = "dead"
       \/ reader.at = "reply" /\ client = "gone"
       \/ writer.at = "emit" /\ client = "gone"
    /\ outcome' = "lost"
    /\ UNCHANGED <<file, ordering, session, proxy, tape, world, stdin, shown, server,
                   inbox, outbox, reader, writer>>

\* An interrupt, which nothing watches for, or a kill.
Kill ==
    /\ Running
    /\ outcome' = "lost"
    /\ UNCHANGED <<file, ordering, session, proxy, tape, world, stdin, shown, server,
                   inbox, outbox, reader, writer>>

-----------------------------------------------------------------------------
Client ==
    \/ \E call \in Calls : ClientCall(call)
    \/ \E how \in {"done", "gone"} : ClientLeave(how)

ClientLoop ==
    \/ \E n \in 1..MaxCalls : Replay(n) \/ Forward(n)
    \/ Reply \/ SendOn \/ ClientEof

ServerLoop == TapAnswer \/ Emit

End == EndNormally \/ EndHard \/ SendFails

Next == Start \/ Client \/ ServerAnswer \/ ServerExit \/ ClientLoop \/ ServerLoop
        \/ End \/ Kill

Spec == Init /\ [][Next]_vars

\* The tasks run, the server answers, and it exits when its stdin is closed.
Fairness ==
    /\ WF_vars(ClientLoop) /\ WF_vars(ServerLoop) /\ WF_vars(End)
    /\ WF_vars(ServerAnswer)
    /\ WF_vars(reader.at = "end" /\ ServerExit)

FairSpec == Spec /\ Fairness

-----------------------------------------------------------------------------
(* Properties *)

\* A session adds to the cassette and changes nothing that was in it.
AppendOnly == [][Len(file) <= Len(file') /\ SubSeq(file', 1, Len(file)) = file]_vars

\* "Where a matched request has a recorded answer, it is served from the cassette":
\* the answer is one that was recorded for the call, never that of another call.
OwnAnswer == \A k \in DOMAIN shown : shown[k].of = sent[shown[k].call]

\* A call is answered from the cassette or by the server, and once.
AnsweredOnce ==
    \A j, k \in DOMAIN shown : shown[j].call = shown[k].call => j = k

\* What a saved session has shown of the server is in the cassette: the answer, and
\* before it the request.
ShownIsSaved ==
    outcome = "saved" =>
        \A k \in DOMAIN shown : shown[k].live =>
            \E i, j \in (Len(base) + 1)..Len(file) :
                /\ i < j /\ file[i].kind = "request" /\ file[j].kind = "response"
                /\ file[i].id = shown[k].call /\ file[j].id = shown[k].call

\* A session ends once the client has closed our stdin.
SessionEnds == (Running /\ client # "open") ~> ~Running
=============================================================================
