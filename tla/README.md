# TLA+ models of mcp-cassette

mcp-cassette records the traffic between an MCP client and an MCP server into a file, the
*cassette*, and later plays the server's part from it. These modules model the parts of it
in which order, concurrency, failure and shared state decide whether it is correct; TLC
checks them on small instances and TLAPS proves their safety properties
for every instance that meets the assumptions named with each, in eight modules of proofs. Paths are relative to `src/src/mcp_cassette/` unless they say otherwise.

## 1. The system

| Component | Its state | Its operations | What makes it correct |
|---|---|---|---|
| **Cassette claim** `session/claim.py` | the file `<cassette>.claim`; per process the record it wrote | acquire (create with `O_EXCL`, fill, read the holder, judge it stale, unlink, poll), release | one writer at a time; a wait is bounded; a dead holder never wedges the cassette; release removes only one's own claim |
| **stdio recording proxy** `record/` | the recorder's messages, two pumps, the checkpoint task and its thread, the sidecar `<cassette>.partial` | tap and forward a line, checkpoint, end of either side, signal, `_finalize` | what was forwarded is recorded; the cassette path never holds a truncated recording; the report and the free claim come after the cassette; the session ends |
| **Matching** `matching.py` | exchanges used so far, misses | find, under three orderings | a call gets a recording of that call; repeated calls get theirs in order |
| **stdio replay server** `replay/server.py`, `server_requests.py`, `faults.py` | the matcher, emitted and answered server requests, fault counters, deferred tasks, the output lock | read a line, answer, defer behind a gate, ask the client, apply a fault, stop, exit | results wait for the client's answers; a miss fails the run; nothing follows a stop; every call is answered |
| **new_episodes over stdio** `replay/new_episodes.py` | the loaded cassette, the matcher, a recorder | replay or forward, merge at the end | the cassette only grows; what was shown is saved; a call is answered once, with its own answer |
| **HTTP replay server** `transports/http/server.py` | as above, and the listening stream: its plan, its queue, its event | POST, GET, faults, fall-through to a real server | gates hold their own exchange and no other; the messages of the listening stream come once, in order, and after their call |
| **HTTP recording proxy** `transports/http/proxy.py`, `wire.py` | exchange counter, first-contact state, the listening-stream flag, recorder, per stream a parser | forward a request, tee a stream, idle and signal shutdown, finalize | what was sent is recorded, however it was cut into chunks; one listening stream; failure at first contact aborts; the run ends and the files tell the truth |
| **Session and library doors** `session/__init__.py`, `pytest_plugin.py` | mode, claim, report path, derived sessions, an engine or a command handed out | open, resolve, claim, resolve again, hand out, close, check | no recording is lost; one of many `once` sessions records; the claim is held while its program may write and no longer; a bad run fails the session |
| **Commands** `cli.py`, `check.py` | the claim of the process, or that of the session it was handed out by | `record`, `serve --new-episodes`, `check --record` | the same cassette rules as for sessions |
| **Signals, report, cassette file** | – | signals, atomic writes | files are replaced atomically; signals finalize |
| **Diff, lint, redaction** | – | pure functions over cassettes and texts | – |

How they meet: a *door* (CLI, pytest plugin, library) decides by the record mode whether to
replay or record, takes the claim for a writing mode, and starts a proxy or a server, often
as a child process. Proxies and servers share the recorder, the matcher and the server-request
tracker; they meet other runs only through the files at the cassette path, its `.claim`, its
`.partial` and the report.

What is hard here: system calls on one path by several processes; tasks of one event loop that
overlap at every `await`, beside threads that cannot be cancelled (the stdin read, a stdout
write, the checkpoint save); sessions that end in the middle of any of it; decisions made on a
file that another process replaces meanwhile; and calls that the client repeats, pipelines or abandons. `PROJECT.json` lists these hazards line by line, with the
properties that would notice them.

## 2. The modules

`WriterLock` is what a claim promises: an owner, and writers among owners only. `ClaimFile` is
the protocol. **One action is one system call** or the code between two of them (`CreateNew`,
`WriteRecord`, `ReadHolder`, `StatPlaceholder`, `JudgeStale`, `Reclaim`, `Remove`), because that
is the granularity at which processes interleave; `Die`, `ReusePid` and `GrowOld` are the
environment. `Lock == INSTANCE WriterLock` maps the writer of the file to the owner and the
holders to the writers.

`StdioProxy`: **one action is the code between two awaits** of a task (`TapRequest` then
`ForwardRequest`, `CheckpointStart`), a step of the checkpoint's thread, or one file operation of
`_finalize` (`Save`, `Discard`, `WriteReport`, `ReleaseClaim`), since a kill can fall between any
two. `Interrupt` and `ServerDead` are the paths that leave by `os._exit`, `Unwind` the ordinary
one. A message is its direction and its number.

`Matching` holds the lookups as operators over a cassette, a sequence of records `[sender, kind,
id, call]`: exchanges, responses, anchors, the three orderings, the requests of the server to the
client (*asks* here) and their gates. The replay modules extend it.

`ReplayServer`: the read loop and the deferred tasks share one event loop (`loop` names the task
that has it). A send is two actions, `Write` (the client sees the line) and `Resume` (the task goes
on), because it runs in a thread and other tasks run in between.

`NewEpisodes`: sessions in a row over one file; `Takes`, `Reply`, `Forward`, `TapAnswer`, `Emit`
are the two loops, `EndNormally`, `EndHard`, `SendFails` and `Kill` the ways a session ends,
`Finalize` the merge.

`HttpReplay`: every POST has a task (`tasks[n]`), the listening stream one handler (`listener`).
`HandleHit`, `HandleMiss` and `HandleInitialize` are the part under the match lock, `Emit` and
`Finish` serve an exchange, `Release` hands messages to the listening stream, `Take` and
`Deliver` are its handler, `Replace`, `Hang` and `Disconnect` the faults, and `Forward` to
`UpstreamBreaks` the fall-through of new_episodes. A message also has its exchange and channel.

`HttpProxy`: every request has a task (`phase[x]`), and **one action is the code between two
awaits** of it: `Arrive`, `Connect` or `Fail` (after `ErrorAtFirst`, if the upstream answered with an error), `ReadBody`, `SendChunk` then `Tap` then `EndStream`,
`Sent` or `SendBreaks`. `SseParser` is a group of operators over tokens (`Feed`, `Finish`), so that a
chunk may end inside a line, between a carriage return and its line feed, or before a blank line.
`Halt` is the cancellation of both scopes, `Stop` whatever asks for it; the checkpoint's thread and
the steps of `finalize` are as in `StdioProxy`.

`SessionDoors` composes the doors over one cassette. A door is a session with the program it hands
out (a command of its own process over stdio, an engine in the session's process over HTTP) or a
command by itself. `Open` or `Enter`, `CallToReplay` or `CallToWrite`, `Claim`, `Settle`, `End`,
`Close` and `Check` are the session; `Load`, `Start` (`--claim-held-by`), `Acquire`, `Begin`, `Hear`,
`Save`, `WriteReport` and `Release` the program; `Kill`, `Crash` and `Break` what a death does. The
claim is one step here, as `WriterLock` has it: what the doors show does not depend on the file
protocol, and `claim_shared` says where that protocol falls short of it. A cassette is the set of the
recordings in it and its transport, so that "lost" and "spliced" can be said of it. A setup gives each
door its kind, mode, transport, report path and process, and says whether its client ends the command
before it leaves the session (`patient`) and whether its process may die (`mortal`).

`MC...` modules hold the recordings, calls and overlays that TLC runs on; `...Proofs` modules the
theorems. Definitions whose comment says *Variant of* X are plausible wrong versions of X; no
specification uses them. They serve to see that a property does depend on X.

## 3. What the runs check

| Run | Instance | What it shows |
|---|---|---|
| `claim_reclaim` | 2 processes, 2 claims each, both mortal, one with `--force`, all ages | two holders only after a claim was broken (`SharedOnlyIfBroken`); `acquire` ends and a dead holder's claim is cleared (`NeverWedged`) |
| `claim_exclusive` | 3 processes, 2 hosts, sharing violations, no live break possible | the protocol implements `WriterLock` (`ImplementsLock`), so one writer at a time |
| `claim_shared` | 3 processes, one host | `MutualExclusion` is *violated*: two waiters reclaim one stale claim (below) |
| `record_stdio` | 2 requests, every end, failing writes, checkpoints | `RecordedInOrder`, `CassetteIsWhole`, `CleanEnd` (cassette before report and claim, no sidecar after a normal end, claim released), `SessionEnds`, `DiscardsOnlyAfterASave` |
| `record_http` | 3 requests in 4 plans (see below) | `SentIsRecorded`, `OneListener`, `CassetteFirst`, `CheckpointIsKept`, `RunEnds` |
| `replay_serve` | 2 pipelined calls, 7 replays over two recordings, all faults and orderings | `PlayedInOrder` (a call's own recording, each once, in order), `HeldUntilAnswered`, `EveryCallAnswered`, `EveryAnswerCounts`, `MissesAreHonoured` (the exit code, the stop, the divergence) |
| `replay_dropped` | a sampling after a gated response | `EveryAnswerCounts` is *violated*: the client's answer is dropped |
| `episodes_append` | 2 sessions of 2 calls, server deaths and kills | append-only; what was shown is saved; one answer each; the session ends |
| `episodes_splice` | 2 sessions | `OwnAnswer` is *violated*: a later replay answers with another call's response |
| `http_serve` | 3 overlapping calls, 1 hang-up, up to 2 listening streams, 8 replays | `ServedAsRecorded` (own answer, gates of its own exchange and no other), `HeardAsRecorded` (the listening stream: once, in order, after its call), `NoLostWakeup`, `MissesFailTheRun`, `ShownIsSaved` |
| `doors` | 3 doors in 9 setups (see below) | `NoLostRecording`, `ImplementsLock`, `OneRecords`, `BadRunsFail`, `ClaimFollowsUse`, `TransportKept` |
| `doors_lost` | `serve --new-episodes` beside `record` | `NoLostRecording` is *violated*: the new recording is overwritten (below) |

**Bounds.** Three contenders are the fewest with a dead holder and two racing waiters, and two
claims per process let one meet a file of its own past. Two requests are enough for an answer in
flight beside a request in flight, and for a checkpoint older than the log. Two pipelined calls on
stdio make one deferred response and one that overtakes it; over HTTP a third is needed because
the first is always the handshake. Recordings are short and chosen to hold each shape once: a
repeated call, a call of the same method, a sampling inside, after and before a call, a reused
ask id, a notification before, in and after, a cut-short exchange. `MaxAge` 2 is every age the
code distinguishes. Two sessions in a row are the fewest in which ids collide.

`record_http` has a plan for each way in which requests meet: a stream cut at every place (two data
lines, carriage returns, a last event without its blank line) beside another answer; a stream whose
client leaves (a skipped line, a blank event); two requests of which one fails at first contact; and
a listening stream beside a second GET and a DELETE. With all of them at once the chunks alone would
multiply beyond TLC's reach. The setups of `doors` are: two tests and an async block that want one new
cassette; a command beside two sessions, all writing; sessions with engines in their processes, one of
which may die; a session with one derived from it, over both transports; sessions that meet a cassette
of the other transport; and the commands that must be the only writer. Three doors are the fewest in
which one waits while two others change the cassette.

**Careful doors.** `doors` and its theorems are about setups that are `Careful`: a client that was
handed a stdio command ends it before its session ends; a process that may be killed has its engines
inside; and `serve --new-episodes` and `check --record` meet no other writer. The code cannot enforce
any of these: `close()` does not know the child (`session/__init__.py:623`), a killed session leaves
its child running without a claim that counts, and the two commands load before, or without, the
claim. Each of the three, dropped, lets TLC lose a recording; the third is `doors_lost`, for `serve`, and
the same happens to a writer beside `check --record`. There a session may also hold the claim for
nothing: an async `once` session that entered to record replays the cassette that `check` has left, and
keeps the claim until it ends.

**Deadlock** is not checked: every one of these programs may end, and clients may stop calling.

**Fairness.** Weak fairness of each process in `acquire` (the operating system runs it); of the
event loop's tasks and of a running thread; of the steps of `_finalize`; and of a server that
exits when its stdin is closed, which `exit_on_server_death` relies on. Clients are never assumed
to call; in `ReplayServer` the client does answer what it was asked, as without it the code waits
for ever on purpose (`wait_ready` has no timeout). `HttpReplay` has no liveness property: its
`OthersAreServed` says as an invariant that whatever is being served can go on. In `HttpProxy` only
`finalize`, the checkpoint's thread and a task whose 502 went through are fair: nothing is asked of the
upstream, of the clients or of whoever stops the run. `SessionDoors` needs no fairness.

### Where the code and its documentation disagree

With a run:

1. `claim_shared` – a claim is judged stale and then unlinked **by path** (`claim.py:270`). Two
   waiters may both judge the same file stale; one reclaims it, creates its own, and the other
   unlinks that one. Ownership is then shared, against
   `src/tests/integration/test_claim_contention.py:10`.
2. `replay_dropped` – an ask is marked as emitted only after its send returned
   (`replay/server.py:406`); a quick answer finds nothing to open, against
   `replay/server_requests.py:9`.
3. `episodes_splice` – responses are found by id over the whole cassette (`matching.py:218`) and
   appended sessions reuse ids, against `replay/new_episodes.py:3`.
4. `doors_lost` – `serve --new-episodes` loads the cassette (`cli.py:699`) and takes the claim only
   then (`cli.py:735`); what another writer saves in between is overwritten by the merge, against
   `docs/guide/operations/OP-06-parallel-test-runs.md:7`.

Without a run of their own, because a run here asks one question each and these are smaller or
variations of the same; the definitions named are in the modules:

- `release` compares, then unlinks (`claim.py:251`); a `--force` run in between loses its own claim,
  against `claim.py:79` (`ReleasesOnlyItsOwn` in `ClaimFile`).
- `_finalize` discards the sidecar although it saved nothing (`record/proxy.py:274`), against
  `record/checkpoint.py:46` (`DiscardsOnlyAfterASave` with `Leftover <- {Nothing, Crashed}`).
- A disconnect fault on a gated response cancels a task group whose main loop is in a read that
  cannot be cancelled (`replay/server.py:287`), against
  `docs/guide/how-to/HT-04-inject-faults.md:150` (`DisconnectEnds` on `HangupSetups`).
- An HTTP recording stopped before its first answer saves a cassette of requests only
  (`transports/http/proxy.py:229`), against the comment at `transports/http/proxy.py:210`
  (`NoFileWithoutContact` on `SilentPlans`).
- A failure at first contact discards what a parallel request has recorded, and when its own client
  has gone the 502 raises before the cancel: the run goes on and saves nothing
  (`transports/http/proxy.py:296`).
- A body that breaks off in the middle raises through the handler and ends the whole recording, and a
  real server that does so ends the replay server (`BodyBreaks`, `UpstreamBreaks`).
- Derived sessions share the report path of their origin (`session/__init__.py:347`), so of two that
  ran the misses of the first are overwritten; `BadRunsFail` speaks of sessions that have theirs to
  themselves.
- A session that peeks at the transport before it waits for the claim may replace a recording of the
  other transport that came meanwhile; `Agreeing`, which TLC confirms for the setups of `doors`,
  excludes such a pair.
- Over HTTP an error fault does not release the messages of the listening stream that were recorded
  after the call, while on stdio the notifications still follow.

## 4. What is proved

All of it from the assumptions on the constants that the modules state (`ConstantsAssumption`,
`EpisodesAssumption`): among them that a cassette is a finite sequence, and that an overlay names
the fault types of the code.

**`ClaimFileProofs`**, for any processes, hosts, waits and bounds.
- `TypeCorrect`. Inductive: `TypeInv`, which adds that the loop counters agree with the control
  state (`Control`).
- `SharingNeedsABreak` (`SharedOnlyIfBroken`). Two holders do not contradict anything visible, so
  the invariant `Backed` says what each holder stands on: a process that owns still has its file at
  the path unless its record was removed by another. Two owners would need two files at one path.
- `ExclusionWithoutLiveBreaks` (`MutualExclusion`), assuming `NoLiveBreak`: nobody forces, no claim
  grows old, and a mortal process shares its host with at most one contender, who is then alone.
  `Quiet` adds that whoever is about to unlink a stale claim has no live competitor left.
  `claim_shared` shows why the assumption is needed.
- `ClaimImplementsLock` (`ImplementsLock`): under the same assumption, initial states map to initial
  states and each step to a step of `WriterLock` or a stutter.

**`StdioProxyProofs`**, for any number of requests and whether or not writes fail. Two invariants
that do not meet:
- `Taps` follows a line from its tap to its forwarding: what is being sent, and the request of every
  answer in the pipe, is already in the log. It gives `RecordsBeforeForwarding`
  (`RecordedBeforeSeen`) and, with `LogChanges` (only taps extend the log), `AnswersComeLater`.
- `Ends` follows the files through `_finalize`: before it the cassette is the old one and the claim is
  held; after each step so much is done; and off the hard paths the checkpoint thread has ended. It
  gives `NeverTruncated` (`CassetteIsWhole`) and `EndsCleanly` (`CleanEnd`).
- `DiscardsAfterASave` (`DiscardsOnlyAfterASave`) assumes `NoLeftover`, and adds that a sidecar of this
  session means it has messages; with a leftover the code violates it (section 3).

**`MatchingProofs`**, for any cassette. Lookups pick the first or the last position of a set of
positions; that such a position exists is the well-foundedness of `<` (`HasLeast`, `HasGreatest`).
The messages of a set of positions are a sequence of just these, sorted (`InOrderIsSorted`).
- `MatchIsRecordedAndFresh`: what a lookup matches is a recorded request for the very call, and under
  an ordering that consumes exchanges not one that was consumed.
- `MatchIsTheFirst`: and then no exchange of the same call that is left comes before it.
- `ResponseIsTheLast`: the response of a request is the last answer of the server with its id, none
  only if there is no such answer; so two requests share a response exactly if they share an id. That
  ids are unique in a cassette is not a fact: after an appending session they need not be
  (`episodes_splice`).

**`ReplayServerProofs`**, for any cassettes, overlays, policies, calls and windows. The invariant:
- `TasksOK`: what each task may have in its queue. Only the read loop sends the error of a miss, alone,
  and only of a call that is among the misses; a task that has ended sends nothing.
- `CallInv`: calls leave stdin in their order, so whatever was counted, missed or diverged at is of a
  call before those still waiting; the divergence is the first.
- `MissInv`: under "stop" a miss is the last line shown, because from its write on the read loop is in
  the send or has the event loop, until the group is cancelled.
- `ExitInv`: after the end nothing touches the misses, the report or the exit code.

They give `TypeCorrect` (`TypeOK`) and `HonoursMisses` (`MissesAreHonoured`).

Above it stand three invariants about what the calls are answered with:
- For `PlaysInOrder` (`PlayedInOrder`), `PlayInv`. `Places` says which call a task serves: the read
  loop the latest, a deferred task the one it is named after. `Lines` says what a queue holds: asks and
  notes in their order, then the response of the exchange that is served. `ServeInv`: whatever is
  served or was shown is used up, with everything recorded of that call before it
  (`MatchIsTheFirst`), so a later equal call gets a later recording. `AskInv`: what is still to be
  asked belongs to one task and was not asked.
- For `AnswersCount` (`EveryAnswerCounts`), `Deferred` and `AnswerInv`: while the read loop reads,
  whatever was asked is marked as emitted, so a known answer finds its ask; and per id the answers
  given are those that opened a gate and those that wait.

- For `ResultsAreHeld` (`HeldUntilAnswered`), `HeldInv`: before its response a call has, of what was
  asked inside the exchange, everything in its queue or emitted; behind the gate all of it emitted;
  past the gate all of it opened; and a gate is only opened by an answer to that very ask.

`PlaysInOrder` assumes `UniqueIds`: no two requests of a client in a recording share an id. Without it
a response pairs with the wrong request, which an appending session can bring about
(`episodes_splice`). `AnswersCount` also assumes `PromptAsks`: nothing is asked after a response that
has to wait for an answer. That is exactly what `replay_dropped` breaks; there a deferred task asks
while the read loop reads. TLC confirms both for the recordings of `replay_serve`, and that the one of
`replay_dropped` fails only the second (`MCRecordings`). `ResultsAreHeld` assumes
`UniqueIds` and `PairedOnce`: neither side reuses the id of an ask or a response, and an ask precedes
its answer. With a reused id the answer to one ask may open the gate of the other. `replay_serve` also
checks `HeldUntilAnswered` on such a recording (`MCPaired`), where it holds for the two calls it makes.

**`HttpReplayProofs`**, for any recordings, overlays, calls and listening streams. `TypeCorrect`
(`TypeOK`) comes first; above it each property has an invariant of its own, proved only for the steps
that touch what it speaks of. Which those are is stated once: `WhoChanges`, `WhoMoves` (a call's
phase), `WhoShows` (what its client sees) and `LineSteps` (the listening stream).
- `MissInv`: a call that was shown a miss, or is going to be, is among the misses. With it
  `MissesAreReported` (`MissesFailTheRun`).
- `TapeInv`: a request is on the tape before it is forwarded, its answer before it is shown. With it
  `AnswersAreSaved` (`ShownIsSaved`).
- `WakeupsArrive` (`NoLostWakeup`) is inductive by itself: whoever releases messages wakes the handler.
- `OwnInv`: what is served was recorded for that call. With it `AnswersAreOwn` (`OwnAnswer`).
- `LineInv`: the messages of the listening stream stand in one line, through what was heard, what the
  handler holds and what is ready; those of one call are in order in it and off the plan all at once.
  With it `HeardInOrder` (`HeardOnceInOrder`).
- `ServeInv`, `AskInv` and `Lossless` are for `ServedRight` (`ServedAsRecorded`). The queue of a task is
  what its client has not been shown, in order; what was replied to was emitted and opens its gate;
  and the only listening stream loses nothing. So a gate that holds a result back waits for an ask
  that went out, and only the client can be what it waits for.
- `AfterInv`, for `HeardRight` (`HeardAsRecorded`): what is on the line was recorded before every call
  or after one that was served.

`ServedRight` and `HeardRight` assume `WellRecordings`: no id is used twice, an answer comes after its
request and a response in the exchange of its request, and an exchange speaks to the client on one
stream. JSON-RPC asks the first of both sides, and the recorder gives every HTTP request an exchange
number of its own; TLC confirms the assumption for the recordings of `http_serve`. Where ids *are*
reused, as an appending session may do, a response may be that of another call (`episodes_splice`) and a
gate may wait for the wrong ask: neither `ServedAsRecorded` nor `HeardAsRecorded` is about such recordings. `AnswersAreOwn` and `HeardInOrder` need no such assumption.

**`NewEpisodesProofs`**, for any cassettes, sessions and calls.
- `OrderInv` follows a call through stdin, the reader, the server's pipes and the writer: it is in one
  of them or answered, and live calls keep their order. It gives `AnswersOnce` (`AnsweredOnce`).
- `TapeInv`: a request is on the tape before it is with the server, its answer before it is with the
  client, and the file of a running session is the one it loaded. It gives `SavesWhatWasShown`
  (`ShownIsSaved`) and `OnlyAppends` (`AppendOnly`).

**`HttpProxyProofs`**, for any number of requests, plans and texts.
- `ListenersTakeTurns` (`OneListener`): the flag agrees with the tasks that hold the stream, on every
  way out of a handler.
- `CassetteComesFirst` (`CassetteFirst`): its invariant says for every step of `finalize` what is on
  disk, with the thread of the checkpoint over before the first of them.
- `CheckpointStays` (`CheckpointIsKept`): as long as the proxy is up the cassette is not yet the
  recording, which only grows; then `FinalizeInv` says which file has it. `KeptInv` adds that a
  recording without a message has no checkpoint.
- `TypeCorrect` (`TypeOK`): the parser's recursive functions are shown to exist and to be well typed by
  `Induction` over the set of numbers a claim holds of, which follows from `<` being well founded.
- `SentStaysRecorded` (`SentIsRecorded`) compares the parser, which works token by token on what a chunk
  leaves over, with the events of the text as a whole: its lines are what line feeds end, an event the
  data lines between two blank lines, and the end of a text is a line feed and a blank line more.
  `Knows` is what makes the two agree after every token: the buffer is what stands after the last line
  feed, the kept lines are the data lines that no blank line follows, and the events of the text are
  those returned before and now. `FeedCompletes` carries it through a chunk of any length, and
  `FinishCompletes` to the end. `AnswerInv` says it of every phase of an exchange, for `RecordedMore`
  shows that what another exchange records changes nothing for this one; `RequestInv` says that the
  request stands before.

**`SessionDoorsProofs`**, for any doors and setups; all but `TypeCorrect`, `ClaimEndsWithSession` and
`TransportIsKept` assume `Careful`.
- `Inv` relates three views of one claim. `Places`: where a session is, its program can be. `Holders`:
  who then holds the claim, as its session or as its program, and who does not. `Readers`: a door that
  only reads never gets to where it could write. From these `ClaimFollows` (`ClaimFollowsUse`) and
  `DoorsImplementLock` (`ImplementsLock`). The half of `ClaimFollowsUse` about the end of a session needs
  no careful doors: `ClaimEndsWithSession`, by `GivenBack`, which says where a holder can be.
- `Fresh` adds that the cassette is the one that every door *committed* to replacing it has set out
  from: nobody but the one holder changes the file, and it is committed only once it holds the claim.
  It gives `NothingLost` (`NoLostRecording`).
- `OnceRecords` adds that a `once` session holds the claim for a recording only over a path without a
  cassette, and that what it recorded stays; two such recordings would need the path empty twice.
  It gives `OnlyOneRecords` (`OneRecords`).
- `EndInv` is for `BadRunsAreFailures` (`BadRunsFail`): a verdict is given when nothing can be heard any
  more. `Enclosed`: a session waits for those derived from it. `Rested`: one that has ended, or died,
  runs nothing, for which clients must be patient. `Outermost`: only a session that was not derived ends
  well by itself. `Told`: the report of a session that has its own says what its program heard.
- `OfTransport` is for `TransportIsKept` (`TransportKept`), which assumes `Agreeing`: commands, which look
  at no transport, are of that of the cassette, and where there is no cassette yet all doors are of one.
  Then whoever is past its check, and waits for the claim, is of the transport of whatever the path may
  hold by the time it has it. Without it the theorem is false, in the way section 3 describes.

**Only model-checked**: every liveness property (`NeverWedged`, `SessionEnds`, `RunEnds`,
`EveryCallAnswered`), since fairness and ENABLED are outside what TLAPS proves here. Every safety
property of a passing run is a theorem.

## 5. What is not modelled

- The text of messages, redaction, lint, diff: pure functions without a state two steps could
  disagree about. In `Matching` two calls are the same when their method and params are equal values;
  the normalisation of params is left out.
- Time, except as the three ages of a claim: sleeps are waits of any length.
- Sockets that stop taking data. In `HttpReplay` a write yields before it and not after; were the
  client too slow for the socket's buffer, a chunk could be on its way and its events not yet recorded
  when the server is stopped. HTTP messages are assumed to have an exchange, as the HTTP recorder
  gives each of them one.
- stderr, logging, argument parsing; HTTP requests that change nothing.
- In `NewEpisodes` notifications and the claim; the claim of an appending run is in `SessionDoors`.
- In `SessionDoors` a session hands out one program; a second `server_command` is not modelled, nor is
  a session derived from a derived one (`DoorsAssumption`). What a
  program does while it runs is the subject of the other modules: here it only hears something.
- In `HttpProxy` the parsing of requests (h11), headers, event ids and types. In `check` the exchange
  with the server and its timeout, which are one client and one server in turn.
- The commands that only read and print: `inspect`, `diff`, `lint`, and `check` without `--record`.

## 6. Plan

What would add most, in this order:

1. **Several programs of one session** in `SessionDoors`: a test that calls `server_command` twice has
   two children under one claim and one report.
2. **The refinement of the claim**: `SessionDoors` over `ClaimFile` instead of `WriterLock`, on the
   instances where the file protocol implements the lock.
3. **Redaction of appended messages** in `NewEpisodes`, and its notifications.
