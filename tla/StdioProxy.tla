----------------------------- MODULE StdioProxy -----------------------------
(***************************************************************************)
(* The recording proxy on stdio (src/mcp_cassette/record/): two pumps that *)
(* tap every line into the recorder, the checkpoint task with its worker   *)
(* thread, and the shutdown paths, which all end in _finalize.             *)
(*                                                                         *)
(* The proxy's tasks share one event loop: an action of theirs is the code *)
(* between two awaits.  The checkpoint's save runs in a thread beside the  *)
(* loop.  _finalize does not await, so no task moves while it runs, but    *)
(* the thread does, and the process may be killed between any two steps.   *)
(*                                                                         *)
(* A client request is its number; the server answers each with the same   *)
(* number.  What else the lines say does not matter here.                  *)
(***************************************************************************)
EXTENDS Naturals, Sequences

CONSTANTS
    N,          \* bound: the requests the client may send
    Before,     \* what is at the cassette path when the recording starts
    Crashed,    \* a .partial left there by an earlier, killed recording
    Nothing,    \* no .partial
    Leftover,   \* what may be at the .partial path at the start
    CanFail     \* whether writing a file may raise OSError

Id == 1..N
Message == [from : {"client", "server"}, id : Id]
Request(i) == [from |-> "client", id |-> i]
Answer(i) == [from |-> "server", id |-> i]

ASSUME ConstantsAssumption ==
    /\ N \in Nat
    /\ CanFail \in BOOLEAN
    /\ Leftover \subseteq {Crashed, Nothing}
    /\ Crashed # Nothing
    /\ {Before, Crashed, Nothing} \cap Seq(Message) = {}

VARIABLES
    client,     \* "open", or "closed": the client has closed its pipes
    sent,       \* requests the client has written to the proxy's stdin
    server,     \* "up", "mute" (stdout closed, still running), "down"
    received,   \* requests forwarded to the server
    stdout,     \* answers in the server's stdout pipe, the one in hand included
    shown,      \* answers forwarded to the client
    log,        \* SessionRecorder._messages
    c2s,        \* _client_to_server: "read", "send", "done"
    s2c,        \* _server_to_client: "read", "send", "wait" (shielded), "done"
    scope,      \* the task group: "open" or "cancelled"
    ckpt,       \* checkpoint.run: "sleep", "thread" (saving), "done"
    snapshot,   \* the messages of the latest checkpoint
    phase,      \* of the process: "run", the steps of _finalize, the end
    hard,       \* _finalize was called on the way to os._exit
    cassette,   \* the file at the cassette path
    partial,    \* the file at <cassette>.partial
    report,     \* the session report has been written
    claim,      \* the claim is still held
    failed      \* history: some write raised

endpoints == <<client, sent, server>>
wire == <<received, stdout, shown, log>>
tasks == <<c2s, s2c, scope>>
ckptVars == <<ckpt, snapshot>>
exitVars == <<phase, hard>>
disk == <<cassette, partial, report, claim, failed>>
vars == <<endpoints, wire, tasks, ckptVars, exitVars, disk>>

Finalizing == {"save", "discard", "report", "release"}
Gone == {"exited", "killed"}

TypeOK ==
    /\ client \in {"open", "closed"}
    /\ sent \in 0..N
    /\ server \in {"up", "mute", "down"}
    /\ received \in 0..N
    /\ stdout \in Seq(Id)
    /\ shown \subseteq Id
    /\ log \in Seq(Message)
    /\ c2s \in {"read", "send", "done"}
    /\ s2c \in {"read", "send", "wait", "done"}
    /\ scope \in {"open", "cancelled"}
    /\ ckpt \in {"sleep", "thread", "done"}
    /\ snapshot \in Seq(Message)
    /\ phase \in {"run", "exit"} \cup Finalizing \cup Gone
    /\ hard \in BOOLEAN
    /\ cassette \in Seq(Message) \cup {Before}
    /\ partial \in Seq(Message) \cup {Crashed, Nothing}
    /\ report \in BOOLEAN
    /\ claim \in BOOLEAN
    /\ failed \in BOOLEAN

Init ==
    /\ client = "open" /\ sent = 0 /\ server = "up"
    /\ received = 0 /\ stdout = <<>> /\ shown = {} /\ log = <<>>
    /\ c2s = "read" /\ s2c = "read" /\ scope = "open"
    /\ ckpt \in {"sleep", "done"} /\ snapshot = <<>>    \* "done": no interval
    /\ phase = "run" /\ hard = FALSE
    /\ cassette = Before /\ partial \in Leftover /\ report = FALSE
    /\ claim = TRUE /\ failed = FALSE

-----------------------------------------------------------------------------
(* The client and the server at the ends of the pipes (external) *)

ClientSend ==
    /\ client = "open" /\ sent < N
    /\ sent' = sent + 1
    /\ UNCHANGED <<client, server, wire, tasks, ckptVars, exitVars, disk>>

ClientClose ==
    /\ client = "open"
    /\ client' = "closed"
    /\ UNCHANGED <<sent, server, wire, tasks, ckptVars, exitVars, disk>>

\* The server answers what it has received, in any order.
ServerAnswer(i) ==
    /\ server = "up"
    /\ i <= received
    /\ i \notin shown /\ \A k \in 1..Len(stdout) : stdout[k] # i
    /\ stdout' = Append(stdout, i)
    /\ UNCHANGED <<endpoints, received, shown, log, tasks, ckptVars, exitVars, disk>>

ServerMute ==
    /\ server = "up"
    /\ server' = "mute"
    /\ UNCHANGED <<client, sent, wire, tasks, ckptVars, exitVars, disk>>

ServerExit ==
    /\ server # "down"
    /\ server' = "down"
    /\ UNCHANGED <<client, sent, wire, tasks, ckptVars, exitVars, disk>>

-----------------------------------------------------------------------------
(* The pumps *)

\* A task of the open task group takes its turn on the event loop.
Turn == phase = "run" /\ scope = "open"

\* Variant of TapRequest: nothing is recorded until the send has returned.
TapRequestLate ==
    /\ Turn /\ c2s = "read" /\ received < sent
    /\ c2s' = "send"
    /\ UNCHANGED <<endpoints, wire, s2c, scope, ckptVars, exitVars, disk>>

\* Variant of TapRequest: one line too many is taken from an empty pipe.
TapRequestOffByOne ==
    /\ Turn /\ c2s = "read" /\ received <= sent
    /\ log' = Append(log, Request(received + 1))
    /\ c2s' = "send"
    /\ UNCHANGED <<endpoints, received, stdout, shown, s2c, scope, ckptVars, exitVars,
                   disk>>

\* pump_lines: a line is read, and tapped before its send is awaited.
TapRequest ==
    /\ Turn /\ c2s = "read" /\ received < sent
    /\ log' = Append(log, Request(received + 1))
    /\ c2s' = "send"
    /\ UNCHANGED <<endpoints, received, stdout, shown, s2c, scope, ckptVars, exitVars,
                   disk>>

\* The send returns, also into the pipe of a server that has just died.
ForwardRequest ==
    /\ Turn /\ c2s = "send"
    /\ received' = received + 1
    /\ c2s' = "read"
    /\ UNCHANGED <<endpoints, stdout, shown, log, s2c, scope, ckptVars, exitVars, disk>>

\* A broken pipe raises in the task, and the task group is cancelled.
ForwardRequestBroken ==
    /\ Turn /\ c2s = "send" /\ server = "down"
    /\ c2s' = "done"
    /\ scope' = "cancelled"
    /\ UNCHANGED <<endpoints, wire, s2c, ckptVars, exitVars, disk>>

\* End of our stdin: _client_eof is set and the server's stdin closed.
ClientEof ==
    /\ Turn /\ c2s = "read" /\ client = "closed" /\ received = sent
    /\ c2s' = "done"
    /\ UNCHANGED <<endpoints, wire, s2c, scope, ckptVars, exitVars, disk>>

TapAnswer ==
    /\ Turn /\ s2c = "read" /\ stdout # <<>>
    /\ log' = Append(log, Answer(Head(stdout)))
    /\ s2c' = "send"
    /\ UNCHANGED <<endpoints, received, stdout, shown, c2s, scope, ckptVars, exitVars,
                   disk>>

ForwardAnswer ==
    /\ Turn /\ s2c = "send"
    /\ shown' = shown \cup {Head(stdout)}
    /\ stdout' = Tail(stdout)
    /\ s2c' = "read"
    /\ UNCHANGED <<endpoints, received, log, c2s, scope, ckptVars, exitVars, disk>>

ForwardAnswerBroken ==
    /\ Turn /\ s2c = "send" /\ client = "closed"
    /\ s2c' = "done"
    /\ scope' = "cancelled"
    /\ UNCHANGED <<endpoints, wire, c2s, ckptVars, exitVars, disk>>

ServerEof == Turn /\ s2c = "read" /\ stdout = <<>> /\ server # "up"

\* The client had finished first: an ordinary unwinding of the task group.
ServerEofLast ==
    /\ ServerEof /\ c2s = "done"
    /\ s2c' = "done"
    /\ scope' = "cancelled"
    /\ UNCHANGED <<endpoints, wire, c2s, ckptVars, exitVars, disk>>

\* Variant of ServerEofFirst: the task group is cancelled here too.
ServerEofCancels ==
    /\ ServerEof /\ c2s # "done"
    /\ s2c' = "done"
    /\ scope' = "cancelled"
    /\ UNCHANGED <<endpoints, wire, c2s, ckptVars, exitVars, disk>>

\* exit_on_server_death: the client still holds our stdin, so wait for the
\* server's exit code, shielded from cancellation, and leave by os._exit.
ServerEofFirst ==
    /\ ServerEof /\ c2s # "done"
    /\ s2c' = "wait"
    /\ UNCHANGED <<endpoints, wire, c2s, scope, ckptVars, exitVars, disk>>

ServerDead ==
    /\ phase = "run" /\ s2c = "wait" /\ server = "down"
    /\ s2c' = "done"
    /\ phase' = "save"
    /\ hard' = TRUE
    /\ UNCHANGED <<endpoints, wire, c2s, scope, ckptVars, disk>>

\* SIGINT or SIGTERM: _interrupt_shutdown terminates the server and finalizes.
Interrupt ==
    /\ Turn
    /\ server' = "down"
    /\ phase' = "save"
    /\ hard' = TRUE
    /\ UNCHANGED <<client, sent, wire, tasks, ckptVars, disk>>

-----------------------------------------------------------------------------
(* The checkpoint task *)

\* interval has passed and new messages arrived: the save goes to a thread.
CheckpointStart ==
    /\ Turn /\ ckpt = "sleep"
    /\ log # <<>> /\ Len(log) # Len(snapshot)
    /\ snapshot' = log
    /\ ckpt' = "thread"
    /\ UNCHANGED <<endpoints, wire, tasks, exitVars, disk>>

\* Variant of CheckpointSaved: the checkpoint goes to the cassette path.
CheckpointInPlace ==
    /\ phase \notin Gone /\ ckpt = "thread"
    /\ cassette' = snapshot
    /\ ckpt' = IF scope = "open" THEN "sleep" ELSE "done"
    /\ UNCHANGED <<endpoints, wire, tasks, snapshot, exitVars, partial, report, claim,
                   failed>>

\* os.replace in the thread; the task sleeps again, or ends if it was cancelled.
CheckpointSaved ==
    /\ phase \notin Gone /\ ckpt = "thread"
    /\ partial' = snapshot
    /\ ckpt' = IF scope = "open" THEN "sleep" ELSE "done"
    /\ UNCHANGED <<endpoints, wire, tasks, snapshot, exitVars, cassette, report, claim,
                   failed>>

\* The save raises: so does the task, and the task group is cancelled.
CheckpointFailed ==
    /\ CanFail /\ phase = "run" /\ ckpt = "thread"
    /\ ckpt' = "done"
    /\ scope' = "cancelled"
    /\ failed' = TRUE
    /\ UNCHANGED <<endpoints, wire, c2s, s2c, snapshot, exitVars, cassette, partial,
                   report, claim>>

-----------------------------------------------------------------------------
(* The end *)

\* A cancelled task ends at its await.  The read of our stdin is a thread that
\* cannot be cancelled: that task ends when the client sends or closes.
UnwindRequests ==
    /\ phase = "run" /\ scope = "cancelled"
    /\ \/ c2s = "send"
       \/ c2s = "read" /\ (received < sent \/ client = "closed")
    /\ c2s' = "done"
    /\ UNCHANGED <<endpoints, wire, s2c, scope, ckptVars, exitVars, disk>>

UnwindAnswers ==
    /\ phase = "run" /\ scope = "cancelled" /\ s2c \in {"read", "send"}
    /\ s2c' = "done"
    /\ UNCHANGED <<endpoints, wire, c2s, scope, ckptVars, exitVars, disk>>

UnwindCheckpoint ==
    /\ phase = "run" /\ scope = "cancelled" /\ ckpt = "sleep"
    /\ ckpt' = "done"
    /\ UNCHANGED <<endpoints, wire, tasks, snapshot, exitVars, disk>>

Unwound == scope = "cancelled" /\ c2s = "done" /\ s2c = "done"

\* The task group is empty and the server has exited: _finalize in "finally".
Unwind ==
    /\ phase = "run" /\ Unwound /\ ckpt = "done" /\ server = "down"
    /\ phase' = "save"
    /\ hard' = FALSE
    /\ UNCHANGED <<endpoints, wire, tasks, ckptVars, disk>>

\* One step of _finalize after another.
Step(from, to) == phase = from /\ phase' = to /\ UNCHANGED hard

\* Cassette.save: the session replaces the file, unless it captured nothing.
Save ==
    /\ Step("save", "discard")
    /\ cassette' = IF log = <<>> THEN cassette ELSE log
    /\ UNCHANGED <<endpoints, wire, tasks, ckptVars, partial, report, claim, failed>>

\* Variant of SaveFailed: the rest of _finalize runs all the same.
SaveFailedGoesOn ==
    /\ CanFail /\ phase = "save" /\ log # <<>>
    /\ failed' = TRUE
    /\ Step("save", "discard")
    /\ UNCHANGED <<endpoints, wire, tasks, ckptVars, cassette, partial, report, claim>>

\* Cassette.save raises.  On a hard path the exception ends a task instead of the
\* process: the group is cancelled and _finalize runs again.  Otherwise it leaves
\* _arun, and the caller's context manager releases the claim (cli._claimed).
SaveFailed ==
    /\ CanFail /\ phase = "save" /\ log # <<>>
    /\ failed' = TRUE
    /\ IF hard
       THEN /\ phase' = "run" /\ hard' = FALSE
            /\ scope' = "cancelled"
       ELSE /\ phase' = "release"
            /\ UNCHANGED <<hard, scope>>
    /\ UNCHANGED <<endpoints, wire, c2s, s2c, ckptVars, cassette, partial, report, claim>>

\* checkpoint.discard.
Discard ==
    /\ Step("discard", "report")
    /\ partial' = Nothing
    /\ UNCHANGED <<endpoints, wire, tasks, ckptVars, cassette, report, claim, failed>>

WriteReport ==
    /\ Step("report", "release")
    /\ report' = TRUE
    /\ UNCHANGED <<endpoints, wire, tasks, ckptVars, cassette, partial, claim, failed>>

\* Variant of ReleaseClaim: the claim is released before the save as well.
ReleaseClaimEarly ==
    /\ \/ phase = "save" /\ claim /\ UNCHANGED exitVars
       \/ Step("release", "exit")
    /\ claim' = FALSE
    /\ UNCHANGED <<endpoints, wire, tasks, ckptVars, cassette, partial, report, failed>>

ReleaseClaim ==
    /\ Step("release", "exit")
    /\ claim' = FALSE
    /\ UNCHANGED <<endpoints, wire, tasks, ckptVars, cassette, partial, report, failed>>

\* os._exit, or the return of run(): threads and descriptors go too.
Exit ==
    /\ Step("exit", "exited")
    /\ UNCHANGED <<endpoints, wire, tasks, ckptVars, disk>>

\* SIGKILL, or a power cut, at any moment.
Kill ==
    /\ phase \notin Gone
    /\ phase' = "killed"
    /\ UNCHANGED <<endpoints, wire, tasks, ckptVars, hard, disk>>

-----------------------------------------------------------------------------
External ==
    ClientSend \/ ClientClose \/ (\E i \in Id : ServerAnswer(i)) \/ ServerMute \/ ServerExit

Requests == TapRequest \/ ForwardRequest \/ ForwardRequestBroken \/ ClientEof
Answers ==
    \/ TapAnswer \/ ForwardAnswer \/ ForwardAnswerBroken
    \/ ServerEofLast \/ ServerEofFirst \/ ServerDead
Checkpoint == CheckpointStart \/ CheckpointSaved \/ CheckpointFailed
Unwinding == UnwindRequests \/ UnwindAnswers \/ UnwindCheckpoint \/ Unwind
Finalize == Save \/ SaveFailed \/ Discard \/ WriteReport \/ ReleaseClaim \/ Exit

Next ==
    \/ External \/ Requests \/ Answers \/ Checkpoint \/ Unwinding \/ Finalize
    \/ Interrupt \/ Kill

Spec == Init /\ [][Next]_vars

\* The loop serves its tasks and the thread finishes.  A server whose stdin was
\* closed exits, as stdio servers do (exit_on_server_death relies on it too).
Fairness ==
    /\ WF_vars(Requests) /\ WF_vars(Answers) /\ WF_vars(Unwinding) /\ WF_vars(Finalize)
    /\ WF_vars(CheckpointSaved \/ CheckpointFailed)
    /\ WF_vars(ServerExit /\ (c2s = "done" \/ s2c = "wait"))

FairSpec == Spec /\ Fairness

-----------------------------------------------------------------------------
(* Properties *)

\* The messages of a recording.
In(m, msgs) == \E k \in 1..Len(msgs) : msgs[k] = m

\* Whatever the server has received and the client has seen is in the recording.
RecordedBeforeSeen ==
    /\ \A i \in 1..received : In(Request(i), log)
    /\ \A i \in shown : In(Answer(i), log)

\* A recording never shows an answer before the request that caused it.
AnswersFollowRequests ==
    \A k \in 1..Len(log) :
        log[k].from = "server" =>
            \E j \in 1..(k - 1) : log[j] = Request(log[k].id)

\* The recording is that of what went through the proxy, in an order it can have had.
RecordedInOrder == RecordedBeforeSeen /\ AnswersFollowRequests

\* "a truncated-but-valid cassette" is never where once looks for a finished one:
\* whatever is at the cassette path is the old file or the whole session, however
\* the session ended.
CassetteIsWhole == cassette = Before \/ cassette = log

\* A session that unwound normally leaves no sidecar for a crashed one to be
\* mistaken for: the thread cannot bring it back after the discard.
NormalFinishLeavesNoPartial ==
    phase \in {"exit", "exited"} /\ ~hard /\ ~failed => partial = Nothing

\* The report of a session with messages is read as "the cassette is there", and
\* the next writer goes ahead as soon as the claim is free: neither comes early.
CassetteFirst ==
    (report \/ ~claim) /\ log # <<>> /\ ~failed => cassette = log

\* "Every interrupt and server-death path that hard-exits releases the claim first".
ExitReleasesClaim == phase = "exited" => ~claim

\* What a session leaves behind can be relied on: nothing is announced before the
\* cassette is there, and no sidecar and no claim stay after an orderly end.
CleanEnd == CassetteFirst /\ NormalFinishLeavesNoPartial /\ ExitReleasesClaim

\* A client that leaves ends the session, and so does a server that dies while the
\* client stays, unless a failing disk keeps the proxy from finalizing.
SessionEnds ==
    /\ client = "closed" ~> phase \in Gone
    /\ server = "down" ~> phase \in Gone \/ failed

\* "The real cassette now holds everything the sidecar did": a sidecar is removed
\* only once a session has been saved.
DiscardsOnlyAfterASave ==
    [][partial # Nothing /\ partial' = Nothing => cassette = log /\ log # <<>>]_vars
=============================================================================
