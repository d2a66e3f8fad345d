----------------------------- MODULE HttpProxy -----------------------------
(***************************************************************************)
(* The recording proxy over HTTP (transports/http/proxy.py), with the      *)
(* event-stream parser and the responders of wire.py that it serves with.  *)
(*                                                                         *)
(* Requests are served side by side by tasks of one event loop; an action  *)
(* of theirs is the code between two awaits.  The checkpoint's save runs   *)
(* in a thread beside the loop.  finalize does not await, but the process  *)
(* may be killed between any two of its steps.                             *)
(*                                                                         *)
(* A request is its exchange number.  Of a body only counts whether it is  *)
(* there; an event stream is a sequence of tokens, for chunks end anywhere.*)
(***************************************************************************)
EXTENDS Naturals, Sequences, FiniteSets, SequencesExt

CONSTANTS
    Exchange,   \* the requests the clients may send
    Plans,      \* the plans to start from: what each request is
    Before,     \* what is at the cassette path when the recording starts
    Nothing,    \* no .partial
    CanFail     \* whether writing a file may raise OSError

\* "data" is the name of a data line and "other" that of any other; the rest is content.
Token == {"data", "other", "a", "b", "cr", "lf"}
Answer == {"down", "error", "body", "empty", "stream"}
Events == Seq(Seq(Token))

Message == [from : {"client", "server"}, x : Exchange, data : Events]

\* A request: its method ("listen" is a GET for events), what the upstream may do about it
\* (nothing: it is never sent), the event stream it may answer with, and whether the client
\* may go away.
Request ==
    [method : {"post", "listen", "delete"}, answers : SUBSET Answer, text : Seq(Token),
     drops : BOOLEAN]

ASSUME ConstantsAssumption ==
    /\ Plans \subseteq [Exchange -> Request]
    /\ CanFail \in BOOLEAN
    /\ {Before, Nothing} \cap Seq(Message) = {}

VARIABLES
    plan,       \* the requests of this run
    phase,      \* of each exchange
    answer,     \* what the upstream did about it: an Answer, or "none"
    sent,       \* how many tokens of its stream have been sent to the client
    fed,        \* how many of them have been fed to the parser
    parser,     \* SseParser: the unfinished line and the data lines of the unfinished event
    gone,       \* the exchanges whose client has gone away
    listening,  \* _get_open
    contact,    \* _upstream_ok
    fatal,      \* _fatal is set
    messages,   \* SessionRecorder._messages
    run,        \* "up", "stopping" (cancelled), the steps of finalize, the end
    ckpt,       \* checkpoint.run: "sleep" or "thread" (saving)
    snapshot,   \* the messages of the latest checkpoint
    kept,       \* history: the messages of the latest checkpoint that was written
    cassette,   \* the file at the cassette path
    partial,    \* the file at <cassette>.partial
    report,     \* the session report has been written
    claim,      \* the claim is still held
    failed      \* history: some write raised

streams == <<sent, fed, parser>>
exchanges == <<plan, phase, answer, streams, gone>>
upstream == <<listening, contact, fatal>>
disk == <<kept, cassette, partial, report, claim, failed>>
vars == <<exchanges, upstream, messages, run, ckpt, snapshot, disk>>

Idle == {"new", "done", "cut"}      \* no task serves the exchange
Finalizing == {"drop", "save", "discard", "report", "release"}

TypeOK ==
    /\ phase \in [Exchange -> Idle \cup {"asking", "failing", "refusing", "conflict", "body",
                                         "reply", "stream", "chunk", "tail"}]
    /\ answer \in [Exchange -> Answer \cup {"none"}]
    /\ \A x \in Exchange : sent[x] \in 0..Len(plan[x].text) /\ fed[x] \in 0..sent[x]
    /\ parser \in [Exchange -> [buffer : Seq(Token), lines : Events]]
    /\ gone \subseteq {x \in Exchange : plan[x].drops}
    /\ listening \in BOOLEAN /\ contact \in BOOLEAN /\ fatal \in BOOLEAN
    /\ messages \in Seq(Message)
    /\ run \in {"up", "stopping", "exited", "killed"} \cup Finalizing
    /\ ckpt \in {"sleep", "thread"}
    /\ snapshot \in Seq(Message) /\ kept \in Seq(Message)
    /\ cassette \in Seq(Message) \cup {Before}
    /\ partial \in Seq(Message) \cup {Nothing}
    /\ report \in BOOLEAN /\ claim \in BOOLEAN /\ failed \in BOOLEAN

NewParser == [buffer |-> <<>>, lines |-> <<>>]

Init ==
    /\ plan \in Plans
    /\ phase = [x \in Exchange |-> "new"]
    /\ answer = [x \in Exchange |-> "none"]
    /\ sent = [x \in Exchange |-> 0] /\ fed = sent
    /\ parser = [x \in Exchange |-> NewParser]
    /\ gone = {}
    /\ listening = FALSE /\ contact = FALSE /\ fatal = FALSE
    /\ messages = <<>> /\ run = "up"
    /\ ckpt = "sleep" /\ snapshot = <<>> /\ kept = <<>>
    /\ cassette = Before /\ partial = Nothing /\ report = FALSE
    /\ claim = TRUE /\ failed = FALSE

-----------------------------------------------------------------------------
(* SseParser *)

\* The line without the carriage returns at its end.
Stripped(line) == SubSeq(line, 1, SelectLastInSeq(line, LAMBDA c : c # "cr"))

\* _dispatch: an event is the contents of its data lines.
Dispatch(p) ==
    IF p.lines = <<>> THEN p
    ELSE [p EXCEPT !.lines = <<>>, !.events = Append(@, p.lines)]

\* _feed_line
FeedLine(p, line) ==
    CASE line = <<>> -> Dispatch(p)
      [] line # <<>> /\ line[1] = "data" -> [p EXCEPT !.lines = Append(@, Tail(line))]
      [] OTHER -> p

\* The buffer holds what has come of a line.
FeedToken(p, c) ==
    IF c = "lf" THEN FeedLine([p EXCEPT !.buffer = <<>>], Stripped(p.buffer))
    ELSE [p EXCEPT !.buffer = Append(@, c)]

Loaded(p) == [buffer |-> p.buffer, lines |-> p.lines, events |-> <<>>]
\* Variant of Parsed: the parser keeps the events that it has returned.
ParsedWithEvents(p) == p

Parsed(p) == [buffer |-> p.buffer, lines |-> p.lines]

\* The parser after each number of tokens of a chunk.
After(p, chunk) ==
    LET after[n \in 0..Len(chunk)] ==
            IF n = 0 THEN Loaded(p) ELSE FeedToken(after[n - 1], chunk[n])
    IN  after

\* Variant of Feed: what a chunk leaves of a line is dropped with the chunk.
FeedByChunk(p, chunk) == [After(p, chunk)[Len(chunk)] EXCEPT !.buffer = <<>>]

Feed(p, chunk) == After(p, chunk)[Len(chunk)]

\* finish: the last event may lack its blank line, and the last line its line feed.
Finish(p) ==
    Dispatch(IF p.buffer = <<>> THEN Loaded(p)
             ELSE FeedLine([Loaded(p) EXCEPT !.buffer = <<>>], Stripped(p.buffer))).events

\* The members of s at the places in S, up to each place.
OneMore(own, s, S, n) == IF n \in S THEN Append(own, s[n]) ELSE own
Picking(s, S) ==
    LET picked[n \in 0..Len(s)] ==
            IF n = 0 THEN <<>> ELSE OneMore(picked[n - 1], s, S, n)
    IN  picked
Picked(s, S) == Picking(s, S)[Len(s)]

\* on_message: what is blank is not recorded.
Recordable(events) ==
    Picked(events, {n \in 1..Len(events) : \E k \in 1..Len(events[n]) : events[n][k] # <<>>})
FromServer(x, events) ==
    LET own == Recordable(events) IN
    [k \in 1..Len(own) |-> [from |-> "server", x |-> x, data |-> own[k]]]
FromClient(x) == [from |-> "client", x |-> x, data |-> <<>>]
Body == << <<"a">> >>

-----------------------------------------------------------------------------
(* Requests *)

\* A task of the open scope takes its turn on the event loop.
Turn(x, from) == run = "up" /\ phase[x] = from

Goto(x, to) == phase' = [phase EXCEPT ![x] = to]

\* The scopes are cancelled: every task unwinds, and gives back what it holds.
Halt(unfinished) ==
    /\ run' = "stopping"
    /\ phase' = [x \in Exchange |-> IF unfinished[x] \in Idle THEN unfinished[x] ELSE "cut"]
    /\ listening' = FALSE

\* The task of x holds the one listening stream.
Listens(x) == plan[x].method = "listen" /\ phase[x] \notin Idle \cup {"conflict"}

\* Variant of Leave: a listening stream that fails is not given back.
LeaveListening(x, how) ==
    /\ Goto(x, how)
    /\ listening' = (listening /\ (how = "cut" \/ ~Listens(x)))

\* The task of x ends, and gives back the listening stream that it may hold.
Leave(x, how) ==
    /\ Goto(x, how)
    /\ listening' = (listening /\ ~Listens(x))

\* A request is recorded before it is passed on; a second GET is refused.
Arrive(x) ==
    /\ Turn(x, "new") /\ plan[x].answers # {}
    /\ messages' = IF plan[x].method = "post" THEN Append(messages, FromClient(x)) ELSE messages
    /\ Goto(x, IF plan[x].method = "listen" /\ listening THEN "conflict" ELSE "asking")
    /\ listening' = (listening \/ plan[x].method = "listen")
    /\ UNCHANGED <<plan, answer, streams, gone, contact, fatal, run, ckpt, snapshot, disk>>

\* The upstream does one of the things it may do.
Upstream(x, a) ==
    /\ Turn(x, "asking")
    /\ a \in plan[x].answers
    /\ answer' = [answer EXCEPT ![x] = a]

\* An error of the server at first contact: its response is closed first, which awaits.
ErrorAtFirst(x) ==
    /\ ~contact /\ Upstream(x, "error")
    /\ Goto(x, "failing")
    /\ UNCHANGED <<plan, streams, gone, upstream, messages, run, ckpt, snapshot, disk>>

\* _upstream_failure: it is fatal if the server has not been reached by now.
Fail(x) ==
    /\ Upstream(x, "down") \/ (Turn(x, "failing") /\ UNCHANGED answer)
    /\ fatal' = (fatal \/ ~contact)
    /\ Goto(x, "refusing")
    /\ UNCHANGED <<plan, streams, gone, listening, contact, messages, run, ckpt, snapshot, disk>>

Connect(x) ==
    /\ \/ (contact /\ Upstream(x, "error")) \/ Upstream(x, "body") \/ Upstream(x, "empty")
          \/ (plan[x].method # "delete" /\ Upstream(x, "stream"))
    /\ contact' = TRUE
    /\ Goto(x, IF answer'[x] = "stream" THEN "stream" ELSE "body")
    /\ UNCHANGED <<plan, streams, gone, listening, fatal, messages, run, ckpt, snapshot, disk>>

\* The body of the answer to a POST is recorded before it is passed on.
ReadBody(x) ==
    /\ Turn(x, "body")
    /\ Goto(x, "reply")
    /\ messages' = IF plan[x].method = "post" /\ answer[x] # "empty"
                   THEN messages \o FromServer(x, <<Body>>) ELSE messages
    /\ UNCHANGED <<plan, answer, streams, gone, upstream, run, ckpt, snapshot, disk>>

\* The upstream drops in the middle of a body: nobody catches that, and it ends the run.
BodyBreaks(x) ==
    /\ Turn(x, "body")
    /\ Halt(phase)
    /\ UNCHANGED <<plan, answer, streams, gone, contact, fatal, messages, ckpt, snapshot, disk>>

\* A complete answer, or the end of a stream, has been sent.
Sent(x) ==
    /\ Turn(x, "reply") \/ Turn(x, "conflict") \/ Turn(x, "tail")
    /\ Leave(x, "done")
    /\ UNCHANGED <<plan, answer, streams, gone, contact, fatal, messages, run, ckpt, snapshot,
                   disk>>

\* Variant of Refused: the failure of the first contact is only reported.
RefusedOnly(x) ==
    /\ Turn(x, "refusing")
    /\ Leave(x, "done")
    /\ UNCHANGED <<plan, answer, streams, gone, contact, fatal, messages, run, ckpt, snapshot,
                   disk>>

\* A failure has been sent; if it was that of the first contact, the run is over.
Refused(x) ==
    /\ Turn(x, "refusing")
    /\ IF fatal THEN Halt([phase EXCEPT ![x] = "done"])
       ELSE Leave(x, "done") /\ UNCHANGED run
    /\ UNCHANGED <<plan, answer, streams, gone, contact, fatal, messages, ckpt, snapshot, disk>>

\* The client is gone when something is sent to it, and the send raises.
SendBreaks(x) ==
    /\ x \in gone
    /\ \/ \E at \in {"refusing", "conflict", "reply", "chunk", "tail"} : Turn(x, at)
       \/ Turn(x, "stream") /\ sent[x] = 0
    /\ Leave(x, "cut")
    /\ UNCHANGED <<plan, answer, streams, gone, contact, fatal, messages, run, ckpt, snapshot,
                   disk>>

-----------------------------------------------------------------------------
(* Event streams: _relay_sse *)

\* A chunk is on its way to the client.
SendChunk(x) ==
    /\ Turn(x, "stream")
    /\ \E n \in (sent[x] + 1)..Len(plan[x].text) : sent' = [sent EXCEPT ![x] = n]
    /\ Goto(x, "chunk")
    /\ UNCHANGED <<plan, answer, fed, parser, gone, upstream, messages, run, ckpt, snapshot,
                   disk>>

\* Then the events that it completes are recorded.
Tap(x) ==
    /\ Turn(x, "chunk")
    /\ Goto(x, "stream")
    /\ fed' = [fed EXCEPT ![x] = sent[x]]
    /\ \E after \in {Feed(parser[x], SubSeq(plan[x].text, fed[x] + 1, sent[x]))} :
          /\ parser' = [parser EXCEPT ![x] = Parsed(after)]
          /\ messages' = messages \o FromServer(x, after.events)
    /\ UNCHANGED <<plan, answer, sent, gone, upstream, run, ckpt, snapshot, disk>>

EndStream(x) ==
    /\ Turn(x, "stream") /\ sent[x] = Len(plan[x].text)
    /\ Goto(x, "tail")
    /\ messages' = messages \o FromServer(x, Finish(parser[x]))
    /\ UNCHANGED <<plan, answer, streams, gone, upstream, run, ckpt, snapshot, disk>>

\* The upstream drops in the middle of a stream: the client's connection is closed too.
StreamBreaks(x) ==
    /\ Turn(x, "stream")
    /\ Leave(x, "cut")
    /\ UNCHANGED <<plan, answer, streams, gone, contact, fatal, messages, run, ckpt, snapshot,
                   disk>>

\* A client goes away (external).
Drop(x) ==
    /\ plan[x].drops /\ x \notin gone
    /\ phase[x] \notin Idle
    /\ gone' = gone \cup {x}
    /\ UNCHANGED <<plan, phase, answer, streams, upstream, messages, run, ckpt, snapshot, disk>>

-----------------------------------------------------------------------------
(* The run *)

\* _watch_idle and _watch_signals; or whoever serves the proxy in its own process.
Stop ==
    /\ run = "up"
    /\ Halt(phase)
    /\ UNCHANGED <<plan, answer, streams, gone, contact, fatal, messages, ckpt, snapshot, disk>>

\* checkpoint.run wakes up; _snapshot declines before the upstream was reached.
Checkpoint ==
    /\ run = "up" /\ ckpt = "sleep" /\ Len(messages) # Len(snapshot)
    /\ contact
    /\ ckpt' = "thread" /\ snapshot' = messages
    /\ UNCHANGED <<exchanges, upstream, messages, run, disk>>

CheckpointSaved ==
    /\ run \in {"up", "stopping"} /\ ckpt = "thread"
    /\ ckpt' = "sleep"
    /\ partial' = snapshot /\ kept' = snapshot
    /\ UNCHANGED <<exchanges, upstream, messages, run, snapshot, cassette, report, claim, failed>>

CheckpointFails ==
    /\ CanFail /\ run \in {"up", "stopping"} /\ ckpt = "thread"
    /\ ckpt' = "sleep"
    /\ failed' = TRUE
    /\ Halt(phase)
    /\ UNCHANGED <<plan, answer, streams, gone, contact, fatal, messages, snapshot, kept,
                   cassette, partial, report, claim>>

\* Variant of Finalize: nothing is saved when there is nothing new since the checkpoint.
FinalizeWhatIsNew ==
    /\ run = "stopping" /\ ckpt = "sleep"
    /\ run' = IF fatal THEN "drop" ELSE IF messages = snapshot THEN "discard" ELSE "save"
    /\ UNCHANGED <<exchanges, upstream, messages, ckpt, snapshot, disk>>

\* The thread cannot be cancelled: finalize waits for it.
Finalize ==
    /\ run = "stopping" /\ ckpt = "sleep"
    /\ run' = IF fatal THEN "drop" ELSE IF messages = <<>> THEN "discard" ELSE "save"
    /\ UNCHANGED <<exchanges, upstream, messages, ckpt, snapshot, disk>>

Step(from, to) == run = from /\ run' = to

Save ==
    /\ Step("save", "discard")
    /\ cassette' = messages
    /\ UNCHANGED <<exchanges, upstream, messages, ckpt, snapshot, kept, partial, report, claim,
                   failed>>

\* Variant of SaveFails: the rest of finalize runs all the same.
SaveFailsAndGoesOn ==
    /\ CanFail
    /\ Step("save", "discard")
    /\ failed' = TRUE
    /\ UNCHANGED <<exchanges, upstream, messages, ckpt, snapshot, kept, cassette, partial,
                   report, claim>>

\* The rest of finalize is skipped, up to its "finally".
SaveFails ==
    /\ CanFail
    /\ Step("save", "release")
    /\ failed' = TRUE
    /\ UNCHANGED <<exchanges, upstream, messages, ckpt, snapshot, kept, cassette, partial,
                   report, claim>>

\* After a failed first contact the checkpoint goes, and nothing else is written.
Discard ==
    /\ Step("discard", "report") \/ Step("drop", "release")
    /\ partial' = Nothing
    /\ UNCHANGED <<exchanges, upstream, messages, ckpt, snapshot, kept, cassette, report, claim,
                   failed>>

WriteReport ==
    /\ Step("report", "release")
    /\ report' = TRUE
    /\ UNCHANGED <<exchanges, upstream, messages, ckpt, snapshot, kept, cassette, partial, claim,
                   failed>>

ReleaseClaim ==
    /\ Step("release", "exited")
    /\ claim' = FALSE
    /\ UNCHANGED <<exchanges, upstream, messages, ckpt, snapshot, kept, cassette, partial,
                   report, failed>>

\* SIGKILL, at any moment.
Kill ==
    /\ run \notin {"exited", "killed"}
    /\ run' = "killed"
    /\ UNCHANGED <<exchanges, upstream, messages, ckpt, snapshot, disk>>

-----------------------------------------------------------------------------
\* What a task does without waiting for the upstream.
Serve(x) == Arrive(x) \/ Sent(x) \/ Refused(x) \/ SendBreaks(x) \/ Tap(x)

FromUpstream(x) ==
    \/ ErrorAtFirst(x) \/ Fail(x) \/ Connect(x) \/ ReadBody(x) \/ BodyBreaks(x)
    \/ SendChunk(x) \/ EndStream(x) \/ StreamBreaks(x)

Finalizes == Finalize \/ Save \/ SaveFails \/ Discard \/ WriteReport \/ ReleaseClaim
Saves == CheckpointSaved \/ CheckpointFails

Next ==
    \/ \E x \in Exchange : Serve(x) \/ FromUpstream(x) \/ Drop(x)
    \/ Stop \/ Checkpoint \/ Saves \/ Finalizes \/ Kill

Spec == Init /\ [][Next]_vars

\* finalize and the thread finish, and the loop serves a task whose send went through.
\* Nothing is asked of the upstream, of the clients, or of whoever stops the run.
Fairness ==
    /\ WF_vars(Finalizes) /\ WF_vars(Saves)
    /\ \A x \in Exchange : WF_vars(Refused(x))
FairSpec == Spec /\ Fairness

-----------------------------------------------------------------------------
(* Properties *)

\* The lines of a text are what line feeds end, without their carriage returns; a line is
\* known by the place of its line feed.
Feeds(text) == {i \in 1..Len(text) : text[i] = "lf"}
Line(text, e) == Stripped(SubSeq(text, Max({i \in Feeds(text) : i < e} \cup {0}) + 1, e - 1))
Blank(text) == {e \in Feeds(text) : Line(text, e) = <<>>}
Data(text) == {e \in Feeds(text) : Line(text, e) # <<>> /\ Line(text, e)[1] = "data"}
Content(line) == IF line = <<>> THEN <<>> ELSE Tail(line)

\* The data lines of the event that a blank line ends, if there is any.
Block(text, b) ==
    LET blank == Blank(text) IN {e \in Data(text) : e < b /\ ~\E c \in blank : e < c /\ c < b}
Event(text, b) ==
    Picked([e \in 1..Len(text) |-> Content(Line(text, e))], Block(text, b))
Completed(text) ==
    LET ends == {b \in Blank(text) : Block(text, b) # {}} IN
    Picked([b \in 1..Len(text) |-> IF b \in ends THEN Event(text, b) ELSE <<>>], ends)

\* The events of a text that goes on; the end of one ends its last line and its last event.
EventsSoFar(text) == Recordable(Completed(text))
WholeEvents(text) == EventsSoFar(text \o <<"lf", "lf">>)

\* What is recorded of the answer to x.
RecordedIn(log, x) ==
    Picked([k \in 1..Len(log) |-> log[k].data],
           {k \in 1..Len(log) : log[k].from = "server" /\ log[k].x = x})
Recording(x) == RecordedIn(messages, x)

\* However an answer is cut into chunks, and whatever else is served beside it: what a
\* client has been sent is recorded, event by event as the text defines them, but for the
\* chunk at which the exchange was cut off; and the request is recorded before.
SentIsRecorded ==
    \A x \in Exchange :
        /\ phase[x] \in {"stream", "chunk", "cut"} /\ answer[x] = "stream" =>
               \/ Recording(x) = EventsSoFar(SubSeq(plan[x].text, 1, fed[x]))
               \/ /\ phase[x] = "cut" /\ fed[x] = Len(plan[x].text)
                  /\ Recording(x) = WholeEvents(plan[x].text)
        /\ phase[x] \in {"tail", "done"} /\ answer[x] = "stream" =>
               Recording(x) = WholeEvents(plan[x].text)
        /\ phase[x] \in {"reply", "done"} /\ answer[x] \in {"body", "empty"} =>
               Recording(x) =
                   IF answer[x] = "body" /\ plan[x].method = "post" THEN <<Body>> ELSE <<>>
        /\ plan[x].method = "post" /\ Recording(x) # <<>> =>
               \E j \in 1..Len(messages) :
                   messages[j] = FromClient(x)
                   /\ \A k \in 1..(j - 1) : messages[k].x # x

\* The upstream is asked for one listening stream at a time, and for another after it.
OneListener ==
    /\ \A x, y \in Exchange : Listens(x) /\ Listens(y) => x = y
    /\ listening <=> \E x \in Exchange : Listens(x)

\* The report and the freed claim tell others that the cassette is there: neither comes
\* early, and the cassette is the old one or the whole recording.
CassetteFirst ==
    /\ cassette \in {Before, messages}
    /\ (report \/ ~claim) /\ messages # <<>> /\ ~fatal /\ ~failed =>
           cassette = messages /\ partial = Nothing

\* "A hard kill loses the whole session": not what a checkpoint has written, which is in
\* the sidecar or in the cassette, whatever fails and whenever the process is killed.
CheckpointIsKept ==
    kept # <<>> /\ ~fatal => partial = kept \/ cassette = messages

\* "No file may exist for a session that never reached the upstream".  No run: the code
\* breaks it when it is stopped before the first answer (SilentPlans).
NoFileWithoutContact == ~contact => cassette = Before /\ partial = Nothing

\* A run that is stopped, and one whose first contact failed in front of a client that
\* stays, comes to its end and gives the claim back.
Ended == run = "killed" \/ (run = "exited" /\ ~claim)
RunEnds ==
    /\ run = "stopping" ~> Ended
    /\ \A x \in Exchange : phase[x] = "refusing" /\ fatal ~> x \in gone \/ Ended
=============================================================================
