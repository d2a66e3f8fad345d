------------------------- MODULE ReplayServerProofs -------------------------
(***************************************************************************)
(* Proofs about ReplayServer: for any recording, faults and calls, and any *)
(* interleaving of the tasks, a run that leaves the recording says so, and *)
(* what does not leave it is played: to each call a recording of it,       *)
(* repeated calls in the order of theirs, nothing asked twice, no result   *)
(* before what it waits for.                                               *)
(***************************************************************************)
EXTENDS ReplayServer, MatchingProofs

Items == [what : {"ask", "note", "response", "error", "malformed", "miss"},
          call : 0..MaxCalls, seq : Nat]
PlainItems(c) == {i \in Items : i.what # "miss" /\ (i.what = "ask" => i.seq \in Asks(c))}
Jobs == [phase : Phases, call : 0..MaxCalls, ex : Nat, fault : Faults, queue : Seq(Items),
         writing : BOOLEAN]

\* Only Main sends the error of a miss, alone, and only for a call in ms, the misses.
JobOK(t, j, c, ms) ==
    /\ j \in Jobs
    /\ j.phase = "miss" => /\ t = Main
                          /\ \/ j.queue = <<>>
                             \/ \E i \in DOMAIN ms : j.queue = <<Item("miss", ms[i], None)>>
    /\ j.phase # "miss" => j.queue \in Seq(PlainItems(c))
    /\ j.phase \in {"idle", "end"} => j.queue = <<>>
    /\ j.writing => j.queue # <<>>

Rest ==
    /\ setup \in Setups /\ client \in {"open", "done", "gone"}
    /\ sent \in Seq(Calls) /\ Len(sent) <= MaxCalls
    /\ IsSeq(stdin) /\ shown \in Seq(Items) /\ misses \in Seq(1..MaxCalls)
    /\ replied \subseteq Asks(cassette) /\ used \subseteq Exchanges(cassette)
    /\ opened \subseteq emitted /\ emitted \subseteq Asks(cassette)
    /\ counts \in [Methods -> Nat]
    /\ exit \in {"running", "0", "3", "error"}

TasksOK ==
    /\ tasks \in [Task -> Jobs] /\ loop \in Task \cup {Free}
    /\ \A t \in Task : JobOK(t, tasks[t], cassette, misses)

\* The calls are taken in their order, so whatever was recorded of a call is about one
\* before those that wait on stdin.
Pending == {k \in DOMAIN stdin : stdin[k].type = "call"}
CallInv ==
    /\ \A i, j \in Pending : i < j => stdin[i].of < stdin[j].of
    /\ \A k \in Pending :
          /\ stdin[k].of \in DOMAIN sent
          /\ \A m \in Methods : counts[m] < stdin[k].of
          /\ \A i \in DOMAIN misses : misses[i] < stdin[k].of
          /\ divergence.step < stdin[k].of
    /\ \A m \in Methods : counts[m] <= Len(sent)
    /\ \A i \in DOMAIN misses : misses[i] \in DOMAIN sent
    /\ divergence.step \in 0..Len(sent)
    /\ divergence = NoDivergence => \A i \in DOMAIN misses : IsInitialize(sent[misses[i]])
    /\ DivergesAtTheFirstMiss

\* Under "stop" the task that sends the error of a miss keeps the lock, then the event
\* loop, until the group is cancelled.
MissInv ==
    /\ \A k \in DOMAIN shown :
          shown[k].what = "miss" => \E i \in DOMAIN misses : misses[i] = shown[k].call
    /\ policy = "stop" =>
          \A k \in DOMAIN shown : shown[k].what = "miss" =>
              /\ k = Len(shown)
              /\ \/ scope = "cancelled"
                 \/ tasks[Main].phase = "miss" /\ (tasks[Main].writing \/ loop = Main)

\* Nothing happens to the report, the misses and the exit code once the run is over.
ExitInv ==
    exit # "running" =>
        /\ scope = "cancelled" /\ loop = Free
        /\ \A t \in Task : tasks[t].phase \in {"idle", "end"}
        /\ exit # "error" => report = misses /\ (exit = "3" <=> misses # <<>> /\ ~hangup)

-----------------------------------------------------------------------------
(* What the operators return *)

LEMMA ReplayIsTyped ==
    ASSUME Rest
    PROVE  /\ IsSeq(cassette) /\ Len(cassette) \in Nat /\ DOMAIN cassette = 1..Len(cassette)
           /\ DOMAIN overlay \subseteq Nat \ {0}
           /\ \A k \in DOMAIN overlay : overlay[k].type \in Faults
           /\ ordering \in {"per_method", "strict", "none"} /\ policy \in {"stop", "error"}
  <1>1. IsSeq(cassette) /\ IsSeq(overlay)
    BY ConstantsAssumption DEF Rest, cassette, overlay
  <1>2. Len(cassette) \in Nat /\ DOMAIN cassette = 1..Len(cassette)
    BY <1>1 DEF IsSeq
  <1>3. DOMAIN overlay \subseteq Nat \ {0}
    BY <1>1 DEF IsSeq
  <1> QED
    BY <1>1, <1>2, <1>3, ConstantsAssumption DEF Rest, overlay, ordering, policy

LEMMA FaultIsTyped ==
    ASSUME Rest, NEW method
    PROVE  FaultFor(method) \in Faults
  <1> DEFINE S == {k \in DOMAIN overlay :
                    overlay[k].method = method /\ overlay[k].nth \in {0, counts[method] + 1}}
  <1>1. S \in SUBSET Nat
    BY ReplayIsTyped
  <1>2. First(S) \in S \cup {None}
    <2> HIDE DEF S
    <2> QED
      BY <1>1, FirstOf
  <1>3. FaultFor(method) = IF First(S) = None THEN "none" ELSE overlay[First(S)].type
    BY DEF FaultFor
  <1>4. First(S) # None => overlay[First(S)].type \in Faults
    BY <1>2, ReplayIsTyped
  <1> HIDE DEF S
  <1> QED
    BY <1>3, <1>4 DEF Faults

LEMMA MatchIsTyped ==
    ASSUME Rest, NEW n
    PROVE  Match(n) \in Nat /\ (Match(n) # None => Match(n) \in Exchanges(cassette))
  <1>1. Match(n) # None => Match(n) \in Exchanges(cassette)
    BY ReplayIsTyped, MatchIsRecordedAndFresh DEF Match, IsSeq
  <1> QED
    BY <1>1, ReplayIsTyped DEF Exchanges, Sent, None

LEMMA InitializeIsTyped == Rest => Initialize \in Nat
  <1> SUFFICES ASSUME Rest PROVE Initialize \in Nat
    OBVIOUS
  <1> DEFINE S == {ex \in Exchanges(cassette) : IsInitialize(cassette[ex].call)}
  <1>1. S \in SUBSET Nat
    BY ReplayIsTyped DEF Exchanges, Sent
  <1> HIDE DEF S
  <1>2. First(S) \in S \cup {None}
    BY <1>1, FirstOf
  <1>3. First(S) \in Nat
    BY <1>1, <1>2, NoneIsNat
  <1> QED
    BY <1>3 DEF Initialize, S

LEMMA ResponseIsTyped ==
    ASSUME Rest, NEW ex
    PROVE  Response(cassette, ex) \in Nat
  <1> DEFINE S == {m \in Sent(cassette, "server", "response") :
                    ex # None /\ cassette[m].id = cassette[ex].id}
  <1>1. S \in SUBSET (1..Len(cassette)) /\ Len(cassette) \in Nat /\ S \subseteq Nat
    BY ReplayIsTyped DEF Sent
  <1> HIDE DEF S
  <1>2. Latest(S) \in S \cup {None}
    BY <1>1, LatestOf
  <1>3. Latest(S) \in Nat
    BY <1>1, <1>2, NoneIsNat
  <1> QED
    BY <1>3 DEF Response, S

LEMMA PositionsInOrder ==
    ASSUME Rest, NEW S \in SUBSET DOMAIN cassette
    PROVE  InOrder(S) \in Seq(S)
  BY ReplayIsTyped, InOrderIsOfThem

LEMMA AskIsTyped ==
    ASSUME Rest, NEW ex, NEW trigger
    PROVE  Ask(ex, trigger) \in Seq(PlainItems(cassette))
  <1> DEFINE asks == Triggered(cassette, ex, trigger, emitted)
             S == {s \in Asks(cassette) \ emitted :
                    Anchor(cassette, s) = ex /\ Trigger(cassette, s) = trigger}
  <1>1. S \in SUBSET DOMAIN cassette /\ S \subseteq Asks(cassette) /\ S \subseteq Nat
    BY ReplayIsTyped DEF Asks, Sent
  <1>2. asks = InOrder(S)
    BY DEF Triggered
  <1> HIDE DEF S
  <1>3. asks \in Seq(S)
    BY <1>1, <1>2, PositionsInOrder
  <1> HIDE DEF asks
  <1>4. \A k \in DOMAIN asks : Item("ask", None, asks[k]) \in PlainItems(cassette)
    BY <1>1, <1>3, ConstantsAssumption DEF Item, PlainItems, Items, None
  <1>5. Len(asks) \in Nat /\ DOMAIN asks = 1..Len(asks)
    BY <1>3
  <1>6. Ask(ex, trigger) \in [1..Len(asks) -> PlainItems(cassette)]
    BY <1>4, <1>5 DEF Ask, asks
  <1> QED
    BY <1>5, <1>6, SeqDef

LEMMA NotesAreTyped ==
    ASSUME Rest, NEW ex
    PROVE  Notes(Notifications(cassette, ex)) \in Seq(PlainItems(cassette))
  <1> DEFINE seqs == Notifications(cassette, ex)
             S == {m \in Sent(cassette, "server", "notification") : Anchor(cassette, m) = ex}
  <1>1. S \in SUBSET DOMAIN cassette /\ S \subseteq Nat
    BY ReplayIsTyped DEF Sent
  <1>2. seqs = InOrder(S)
    BY DEF Notifications
  <1> HIDE DEF S
  <1>3. seqs \in Seq(S)
    BY <1>1, <1>2, PositionsInOrder
  <1> HIDE DEF seqs
  <1>4. \A k \in DOMAIN seqs : Item("note", None, seqs[k]) \in PlainItems(cassette)
    BY <1>1, <1>3, ConstantsAssumption DEF Item, PlainItems, Items, None
  <1>5. Len(seqs) \in Nat /\ DOMAIN seqs = 1..Len(seqs)
    BY <1>3
  <1>6. Notes(seqs) \in [1..Len(seqs) -> PlainItems(cassette)]
    BY <1>4, <1>5 DEF Notes
  <1>7. Notes(seqs) \in Seq(PlainItems(cassette))
    BY <1>5, <1>6, SeqDef
  <1> QED
    BY <1>7 DEF seqs

LEMMA ReplyIsTyped ==
    ASSUME Rest, NEW n \in 0..MaxCalls, NEW ex, NEW fault \in Faults
    PROVE  Reply(n, ex, fault) \in Seq(PlainItems(cassette))
  <1> DEFINE notes == Notes(Notifications(cassette, ex))
             answer(what) == <<Item(what, n, Response(cassette, ex))>>
  <1>1. notes \in Seq(PlainItems(cassette))
    BY NotesAreTyped
  <1>2. \A what \in {"response", "error", "malformed"} :
          answer(what) \in Seq(PlainItems(cassette))
    <2>1. \A what \in {"response", "error", "malformed"} :
            Item(what, n, Response(cassette, ex)) \in PlainItems(cassette)
      BY ResponseIsTyped DEF Item, PlainItems, Items
    <2> QED
      BY <2>1
  <1>3. Reply(n, ex, fault) \in {answer("response") \o notes, answer("error") \o notes,
                                 answer("malformed") \o notes, answer("response"), <<>>}
    BY DEF Reply, Faults
  <1> HIDE DEF notes, answer
  <1>4. answer("response") \in Seq(PlainItems(cassette))
    BY <1>2
  <1>5. answer("response") \o notes \in Seq(PlainItems(cassette))
    BY <1>1, <1>2
  <1>6. answer("error") \o notes \in Seq(PlainItems(cassette))
    BY <1>1, <1>2
  <1>7. answer("malformed") \o notes \in Seq(PlainItems(cassette))
    BY <1>1, <1>2
  <1>8. <<>> \in Seq(PlainItems(cassette))
    OBVIOUS
  <1> QED
    BY <1>3, <1>4, <1>5, <1>6, <1>7, <1>8

LEMMA ConsultIsTyped ==
    ASSUME Rest, NEW m, Consulted(m)
    PROVE  counts' \in [Methods -> Nat]
  <1>1. counts \in [Methods -> Nat] /\ counts' = [counts EXCEPT ![m] = @ + 1]
    BY DEF Rest, Consulted
  <1>2. CASE m \in Methods
    BY <1>1, <1>2
  <1>3. CASE m \notin Methods
    <2>1. counts' = counts
      BY <1>1, <1>3
    <2> QED
      BY <1>1, <2>1
  <1> QED
    BY <1>2, <1>3

LEMMA RestStep ==
    ASSUME Rest, TasksOK, [Next]_vars
    PROVE  Rest'
  <1> USE DEF world, matcher, tracker, running, outcome, cassette, ordering, overlay, policy
  <1>1. ASSUME NEW call \in Calls, ClientCall(call) PROVE Rest'
    <2>1. /\ sent' = Append(sent, call) /\ Len(sent) < MaxCalls
          /\ stdin' = Append(stdin, Call(Len(sent) + 1))
      BY <1>1 DEF ClientCall
    <2>2. sent \in Seq(Calls) /\ IsSeq(stdin)
      BY DEF Rest
    <2>3. sent' \in Seq(Calls) /\ Len(sent') <= MaxCalls
      BY <2>1, <2>2, ConstantsAssumption
    <2>4. IsSeq(stdin')
      BY <2>1, <2>2, AppendedAny
    <2> QED
      BY <1>1, <2>3, <2>4 DEF ClientCall, Rest
  <1>2. ASSUME NEW ask \in Asks(cassette), ClientAnswer(ask) PROVE Rest'
    <2>1. IsSeq(stdin')
      BY <1>2, AppendedAny DEF ClientAnswer, Rest
    <2> QED
      BY <1>2, <2>1 DEF ClientAnswer, Rest
  <1>3. ASSUME NEW how \in {"done", "gone"}, ClientLeave(how) PROVE Rest'
    BY <1>3 DEF ClientLeave, Rest
  <1>4. ASSUME NEW n \in 1..MaxCalls, HandleInitialize(n) PROVE Rest'
    <2>1. IsSeq(stdin')
      BY <1>4, TailOfAny DEF HandleInitialize, Takes, Rest
    <2>2. misses' \in Seq(1..MaxCalls)
      <3>1. misses' = misses \/ misses' = Append(misses, n)
        BY <1>4 DEF HandleInitialize
      <3>2. misses \in Seq(1..MaxCalls)
        BY DEF Rest
      <3>3. n \in 1..MaxCalls
        BY <1>4
      <3>4. CASE misses' = misses
        BY <3>2, <3>4
      <3>5. CASE misses' = Append(misses, n)
        BY <3>2, <3>3, <3>5, Appended
      <3> QED
        BY <3>1, <3>4, <3>5
    <2>3. counts' \in [Methods -> Nat]
      BY <1>4, SMTT(60) DEF HandleInitialize, Consulted, Rest
    <2> QED
      BY <1>4, <2>1, <2>2, <2>3 DEF HandleInitialize, Rest
  <1>5. ASSUME NEW n \in 1..MaxCalls, HandleHit(n) PROVE Rest'
    <2>1. IsSeq(stdin')
      BY <1>5, TailOfAny DEF HandleHit, Takes, Rest
    <2>2. Match(n) # None
      BY <1>5, ReplayIsTyped, ResponseBelongs DEF HandleHit, IsSeq
    <2>3. used' \subseteq Exchanges(cassette)
      BY <1>5, <2>2, MatchIsTyped DEF HandleHit, Consume, Rest
    <2>4. counts' \in [Methods -> Nat]
      BY <1>5, ConsultIsTyped DEF HandleHit
    <2> QED
      BY <1>5, <2>1, <2>3, <2>4 DEF HandleHit, Rest
  <1>6. ASSUME NEW n \in 1..MaxCalls, HandleMiss(n) PROVE Rest'
    <2>1. IsSeq(stdin')
      BY <1>6, TailOfAny DEF HandleMiss, Takes, Rest
    <2>2. misses' \in Seq(1..MaxCalls)
      BY <1>6 DEF HandleMiss, Rest
    <2>3. used' \subseteq Exchanges(cassette)
      BY <1>6, MatchIsTyped DEF HandleMiss, Consume, Rest
    <2> QED
      BY <1>6, <2>1, <2>2, <2>3 DEF HandleMiss, Rest
  <1>7. CASE OnAnswer
    <2>1. IsSeq(stdin')
      BY <1>7, TailOfAny DEF OnAnswer, Rest
    <2>2. WithId(cassette, emitted \ opened, Head(stdin).of) \in SUBSET Nat
      BY ReplayIsTyped DEF WithId, Rest, Asks, Sent
    <2>3. First(WithId(cassette, emitted \ opened, Head(stdin).of)) \in emitted \cup {None}
      BY <2>2, FirstOf DEF WithId
    <2>4. opened' \subseteq emitted'
      BY <1>7, <2>3 DEF OnAnswer, Rest
    <2> QED
      BY <1>7, <2>1, <2>4 DEF OnAnswer, Rest
  <1>8. CASE Eof
    BY <1>8 DEF Eof, Rest
  <1>9. CASE StartReply
    BY <1>9 DEF StartReply, Rest
  <1>10. CASE Defer
    BY <1>10 DEF Defer, Rest
  <1>11. CASE Greet
    BY <1>11 DEF Greet, Rest
  <1>12. CASE Stop
    BY <1>12 DEF Stop, Rest
  <1>13. ASSUME NEW t \in Task, Write(t) PROVE Rest'
    <2>1. tasks[t].queue \in Seq(Items) /\ tasks[t].queue # <<>>
      BY <1>13 DEF Write, TasksOK, Jobs
    <2>2. Head(tasks[t].queue) \in Items
      BY <2>1
    <2>3. shown' \in Seq(Items)
      BY <1>13, <2>2 DEF Write, Rest
    <2> QED
      BY <1>13, <2>3 DEF Write, Rest
  <1>14. ASSUME NEW t \in Task, Resume(t) PROVE Rest'
    <2> DEFINE q == tasks[t].queue
    <2>1. q # <<>> /\ JobOK(t, tasks[t], cassette, misses)
      BY <1>14 DEF Resume, TasksOK, JobOK
    <2>2. Head(q).what = "ask" => Head(q).seq \in Asks(cassette)
      <3>1. CASE tasks[t].phase = "miss"
        <4>1. PICK i \in DOMAIN misses : q = <<Item("miss", misses[i], None)>>
          BY <2>1, <3>1 DEF JobOK
        <4>2. Head(q).what = "miss"
          BY <4>1 DEF Item
        <4> QED
          BY <4>2
      <3>2. CASE tasks[t].phase # "miss"
        <4>1. q \in Seq(PlainItems(cassette))
          BY <2>1, <3>2 DEF JobOK
        <4>2. Head(q) \in PlainItems(cassette)
          BY <2>1, <4>1, HeadAndTail
        <4> QED
          BY <4>2 DEF PlainItems
      <3> QED
        BY <3>1, <3>2
    <2>3. emitted \subseteq emitted' /\ emitted' \subseteq Asks(cassette)
      BY <1>14, <2>2 DEF Resume, Rest
    <2> QED
      BY <1>14, <2>3 DEF Resume, Rest
  <1>15. ASSUME NEW t \in Task, SendFails(t) PROVE Rest'
    BY <1>15 DEF SendFails, Rest
  <1>16. ASSUME NEW t \in Task, PassGate(t) PROVE Rest'
    BY <1>16 DEF PassGate, Rest
  <1>17. ASSUME NEW t \in Task, Disconnect(t) PROVE Rest'
    BY <1>17 DEF Disconnect, Rest
  <1>18. ASSUME NEW t \in Task, SendAsks(t) PROVE Rest'
    BY <1>18 DEF SendAsks, Rest
  <1>19. ASSUME NEW t \in Task, Done(t) PROVE Rest'
    BY <1>19 DEF Done, Rest
  <1>20. ASSUME NEW t \in Task, Cancel(t) PROVE Rest'
    BY <1>20 DEF Cancel, Rest
  <1>21. CASE Exit
    BY <1>21 DEF Exit, Rest
  <1>22. CASE UNCHANGED vars
    BY <1>22 DEF vars, Rest
  <1> QED
    BY <1>1, <1>2, <1>3, <1>4, <1>5, <1>6, <1>7, <1>8, <1>9, <1>10, <1>11,
       <1>12, <1>13, <1>14, <1>15, <1>16, <1>17, <1>18, <1>19, <1>20, <1>21, <1>22
    DEF Next, Client, Handle, MainStep, Send, TaskStep

-----------------------------------------------------------------------------
(* Jobs *)

LEMMA PlainIsTyped ==
    ASSUME NEW q \in Seq(PlainItems(cassette))
    PROVE  q \in Seq(Items)
  <1>1. PlainItems(cassette) \subseteq Items
    BY DEF PlainItems
  <1> QED
    BY <1>1, SeqMonotonic

LEMMA JobIsOK ==
    ASSUME NEW t, NEW ms, NEW phase \in Phases \ {"miss", "idle", "end"}, NEW n \in 0..MaxCalls,
           NEW ex \in Nat, NEW fault \in Faults, NEW q \in Seq(PlainItems(cassette))
    PROVE  JobOK(t, Job(phase, n, ex, fault, q), cassette, ms)
  <1>1. q \in Seq(Items)
    BY PlainIsTyped
  <1> QED
    BY <1>1 DEF JobOK, Job, Jobs

LEMMA IdleIsOK ==
    ASSUME NEW t, NEW ms, NEW phase \in Phases \ {"miss"}
    PROVE  JobOK(t, Idle(phase), cassette, ms)
  <1>1. <<>> \in Seq(Items) /\ <<>> \in Seq(PlainItems(cassette))
    OBVIOUS
  <1> QED
    BY <1>1, ConstantsAssumption DEF JobOK, Idle, Job, Jobs, Faults, None

\* A task becomes something else, and the misses may grow.
LEMMA BecomesOK ==
    ASSUME TasksOK, NEW t \in Task, NEW job, Become(t, job),
           JobOK(t, job, cassette, misses'), setup' = setup,
           DOMAIN misses \subseteq DOMAIN misses', \A i \in DOMAIN misses : misses'[i] = misses[i]
    PROVE  TasksOK'
  <1>1. job \in Jobs
    BY DEF JobOK
  <1>2. tasks' = [tasks EXCEPT ![t] = job] /\ loop' \in {t, Free}
    BY DEF Become
  <1>3. tasks \in [Task -> Jobs] /\ \A u \in Task : JobOK(u, tasks[u], cassette, misses)
    BY DEF TasksOK
  <1>4. tasks' \in [Task -> Jobs]
    BY <1>1, <1>2, <1>3
  <1>5. ASSUME NEW u \in Task PROVE JobOK(u, tasks'[u], cassette, misses')
    <2>1. CASE u = t
      BY <1>2, <1>3, <2>1
    <2>2. CASE u # t
      <3>1. tasks'[u] = tasks[u] /\ JobOK(u, tasks[u], cassette, misses)
        BY <1>2, <1>3, <2>2
      <3> QED
        BY <3>1 DEF JobOK
    <2> QED
      BY <2>1, <2>2
  <1> QED
    BY <1>2, <1>4, <1>5 DEF TasksOK, cassette

LEMMA StageOK ==
    ASSUME Rest, TasksOK, NEW t \in Task, NEW phase \in Phases \ {"miss", "idle", "end"},
           NEW q \in Seq(PlainItems(cassette)), Stage(t, phase, q), UNCHANGED <<setup, misses>>
    PROVE  TasksOK'
  <1>1. tasks[t] \in Jobs
    BY DEF TasksOK
  <1>2. JobOK(t, Job(phase, tasks[t].call, tasks[t].ex, tasks[t].fault, q), cassette, misses)
    BY <1>1, JobIsOK DEF Jobs
  <1> QED
    BY <1>2, BecomesOK DEF Stage

LEMMA IdlesOK ==
    ASSUME TasksOK, NEW t \in Task, NEW phase \in Phases \ {"miss"},
           Become(t, Idle(phase)), UNCHANGED <<setup, misses>>
    PROVE  TasksOK'
  BY IdleIsOK, BecomesOK

LEMMA MissesOK ==
    ASSUME Rest, TasksOK, NEW n \in 1..MaxCalls, NEW ex \in Nat,
           Missed(n, ex), misses' = Append(misses, n), setup' = setup
    PROVE  TasksOK'
  <1> DEFINE item == Item("miss", n, None)
             job == Job("miss", n, ex, "none", <<item>>)
  <1>1. misses \in Seq(1..MaxCalls)
    BY DEF Rest
  <1>2. /\ DOMAIN misses \subseteq DOMAIN misses' /\ \A i \in DOMAIN misses : misses'[i] = misses[i]
        /\ Len(misses) + 1 \in DOMAIN misses' /\ misses'[Len(misses) + 1] = n
    BY <1>1, Appended
  <1>3. item \in Items /\ Main \in Task /\ n \in 0..MaxCalls
    BY ConstantsAssumption DEF Item, Items, None, Main, Task
  <1>4. <<item>> \in Seq(Items)
    <2> HIDE DEF item
    <2> QED
      BY <1>3
  <1>5. job \in Jobs
    BY <1>3, <1>4 DEF Job, Jobs, Phases, Faults
  <1>6. JobOK(Main, job, cassette, misses')
    BY <1>2, <1>5 DEF JobOK, Job
  <1>7. Become(Main, job)
    BY DEF Missed
  <1> HIDE DEF job
  <1> QED
    BY <1>2, <1>3, <1>6, <1>7, BecomesOK

LEMMA TasksStep ==
    ASSUME Rest, TasksOK, [Next]_vars
    PROVE  TasksOK'
  <1>0. Main \in Task
    BY ConstantsAssumption DEF Main, Task
  <1> USE DEF world, matcher, tracker, running, outcome
  <1>1. ASSUME NEW call \in Calls, ClientCall(call) PROVE TasksOK'
    BY <1>1 DEF ClientCall, TasksOK, cassette
  <1>2. ASSUME NEW ask \in Asks(cassette), ClientAnswer(ask) PROVE TasksOK'
    BY <1>2 DEF ClientAnswer, TasksOK, cassette
  <1>3. ASSUME NEW how \in {"done", "gone"}, ClientLeave(how) PROVE TasksOK'
    BY <1>3 DEF ClientLeave, TasksOK, cassette
  <1>4. ASSUME NEW n \in 1..MaxCalls, HandleInitialize(n) PROVE TasksOK'
    <2>1. CASE Response(cassette, Initialize) # None
      <3> DEFINE fault == FaultFor("initialize")
                 job == Job("reply", n, Initialize, fault, Reply(n, Initialize, fault))
      <3>1. Become(Main, job) /\ UNCHANGED <<setup, misses>>
        BY <1>4, <2>1 DEF HandleInitialize
      <3>2. fault \in Faults /\ Initialize \in Nat /\ n \in 0..MaxCalls
        BY FaultIsTyped, InitializeIsTyped, ConstantsAssumption
      <3>3. Reply(n, Initialize, fault) \in Seq(PlainItems(cassette))
        BY <3>2, ReplyIsTyped
      <3>4. JobOK(Main, job, cassette, misses)
        BY <3>2, <3>3, JobIsOK DEF Phases
      <3> QED
        BY <1>0, <3>1, <3>4, BecomesOK
    <2>2. CASE Response(cassette, Initialize) = None
      <3>1. Missed(n, Initialize) /\ misses' = Append(misses, n) /\ setup' = setup
        BY <1>4, <2>2 DEF HandleInitialize
      <3> QED
        BY <3>1, InitializeIsTyped, MissesOK
    <2> QED
      BY <2>1, <2>2
  <1>5. ASSUME NEW n \in 1..MaxCalls, HandleHit(n) PROVE TasksOK'
    <2> DEFINE ex == Match(n)
               fault == FaultFor(sent[n].method)
               job == Job("during", n, ex, fault, Ask(ex, "during"))
    <2>1. Become(Main, job) /\ UNCHANGED <<setup, misses>>
      BY <1>5 DEF HandleHit
    <2>2. fault \in Faults /\ ex \in Nat /\ n \in 0..MaxCalls
      BY FaultIsTyped, MatchIsTyped, ConstantsAssumption
    <2>3. Ask(ex, "during") \in Seq(PlainItems(cassette))
      BY AskIsTyped
    <2>4. JobOK(Main, job, cassette, misses)
      BY <2>2, <2>3, JobIsOK DEF Phases
    <2> QED
      BY <1>0, <2>1, <2>4, BecomesOK
  <1>6. ASSUME NEW n \in 1..MaxCalls, HandleMiss(n) PROVE TasksOK'
    <2>1. Missed(n, Match(n)) /\ misses' = Append(misses, n) /\ setup' = setup
      BY <1>6 DEF HandleMiss
    <2> QED
      BY <2>1, MatchIsTyped, MissesOK
  <1>7. CASE OnAnswer
    BY <1>7 DEF OnAnswer, AtRead, TasksOK, cassette
  <1>8. CASE Eof
    <2>1. Become(Main, Idle("end")) /\ UNCHANGED <<setup, misses>>
      BY <1>8 DEF Eof
    <2> QED
      BY <1>0, <2>1, IdlesOK DEF Phases
  <1>9. CASE StartReply
    <2> DEFINE j == tasks[Main]
    <2>1. Stage(Main, "reply", Reply(j.call, j.ex, j.fault)) /\ UNCHANGED <<setup, misses>>
      BY <1>9 DEF StartReply
    <2>2. j.call \in 0..MaxCalls /\ j.fault \in Faults
      BY <1>0 DEF TasksOK, Jobs
    <2>3. Reply(j.call, j.ex, j.fault) \in Seq(PlainItems(cassette))
      BY <2>2, ReplyIsTyped
    <2> QED
      BY <1>0, <2>1, <2>3, StageOK DEF Phases
  <1>10. CASE Defer
    <2> DEFINE j == tasks[Main]
               k == [j EXCEPT !.phase = "gate"]
    <2>1. /\ tasks' = [tasks EXCEPT ![Main] = Idle("read"), ![j.call] = k]
          /\ loop' = Free /\ UNCHANGED <<setup, misses>> /\ j.phase = "during"
      BY <1>10 DEF Defer, At
    <2>2. JobOK(Main, j, cassette, misses) /\ j \in Jobs /\ j.call \in Task
      BY <1>0 DEF TasksOK, Jobs, Task
    <2>3. k \in Jobs /\ k.queue = j.queue /\ k.phase = "gate" /\ k.writing = j.writing
      BY <2>2 DEF Jobs, Phases
    <2>4. \A u \in Task : JobOK(u, k, cassette, misses)
      BY <2>1, <2>2, <2>3 DEF JobOK
    <2>5. JobOK(Main, Idle("read"), cassette, misses)
      BY IdleIsOK DEF Phases
    <2>6. Idle("read") \in Jobs
      BY <2>5 DEF JobOK
    <2>7. \A u \in Task : JobOK(u, tasks[u], cassette, misses) /\ tasks \in [Task -> Jobs]
      BY DEF TasksOK
    <2> HIDE DEF k, j
    <2>8. tasks' \in [Task -> Jobs]
      BY <1>0, <2>1, <2>2, <2>3, <2>6, <2>7
    <2>9. \A u \in Task : tasks'[u] \in {k, Idle("read"), tasks[u]}
                         /\ (tasks'[u] = Idle("read") => u = Main \/ tasks'[u] \in {k, tasks[u]})
      BY <1>0, <2>1, <2>2, <2>7
    <2>10. \A u \in Task : JobOK(u, tasks'[u], cassette, misses)
      BY <2>4, <2>5, <2>7, <2>9
    <2> QED
      BY <2>1, <2>8, <2>10 DEF TasksOK, cassette
  <1>11. CASE Greet
    <2> DEFINE q == IF greeted THEN <<>> ELSE Notes(Leading(cassette))
    <2>1. Stage(Main, "leading", q) /\ UNCHANGED <<setup, misses>>
      BY <1>11 DEF Greet
    <2>2. Notes(Leading(cassette)) \in Seq(PlainItems(cassette))
      BY NotesAreTyped DEF Leading
    <2>3. q \in Seq(PlainItems(cassette))
      BY <2>2
    <2> QED
      BY <1>0, <2>1, <2>3, StageOK DEF Phases
  <1>12. CASE Stop
    <2>1. Become(Main, Idle("end")) /\ UNCHANGED <<setup, misses>>
      BY <1>12 DEF Stop
    <2> QED
      BY <1>0, <2>1, IdlesOK DEF Phases
  <1>13. ASSUME NEW t \in Task, Write(t) PROVE TasksOK'
    <2>1. /\ tasks' = [tasks EXCEPT ![t].writing = TRUE] /\ tasks[t].queue # <<>>
          /\ UNCHANGED <<setup, misses, loop>>
      BY <1>13 DEF Write
    <2>2. tasks \in [Task -> Jobs] /\ \A u \in Task : JobOK(u, tasks[u], cassette, misses)
      BY DEF TasksOK
    <2>3. tasks' \in [Task -> Jobs]
      BY <1>13, <2>1, <2>2 DEF Jobs
    <2>4. \A u \in Task : u # t => tasks'[u] = tasks[u]
      BY <2>1, <2>2
    <2>5. /\ tasks'[t].phase = tasks[t].phase /\ tasks'[t].queue = tasks[t].queue
          /\ tasks'[t] \in Jobs
      BY <1>13, <2>1, <2>2, <2>3 DEF Jobs
    <2>6. JobOK(t, tasks'[t], cassette, misses)
      BY <1>13, <2>1, <2>2, <2>5 DEF JobOK
    <2> QED
      BY <2>1, <2>2, <2>3, <2>4, <2>6 DEF TasksOK, cassette
  <1>14. ASSUME NEW t \in Task, Resume(t) PROVE TasksOK'
    <2> DEFINE j == tasks[t]
               job == [j EXCEPT !.queue = Tail(@), !.writing = FALSE]
    <2>1. Become(t, job) /\ UNCHANGED <<setup, misses>> /\ j.writing
      BY <1>14 DEF Resume
    <2>2. JobOK(t, j, cassette, misses) /\ j \in Jobs /\ j.queue # <<>>
      BY <1>14, <2>1 DEF TasksOK, JobOK
    <2>3. /\ job \in Jobs /\ job.phase = j.phase /\ job.queue = Tail(j.queue)
          /\ ~job.writing
      <3>1. j.queue \in Seq(Items)
        BY <2>2 DEF Jobs
      <3>2. Tail(j.queue) \in Seq(Items)
        BY <2>2, <3>1, HeadAndTail
      <3> HIDE DEF j
      <3> QED
        BY <2>2, <3>2 DEF Jobs
    <2>4. j.phase = "miss" => t = Main /\ Tail(j.queue) = <<>>
      <3>1. ASSUME NEW x PROVE Tail(<<x>>) = <<>>
        OBVIOUS
      <3> HIDE DEF j
      <3> QED
        BY <2>2, <3>1 DEF JobOK
    <2>5. j.phase # "miss" => Tail(j.queue) \in Seq(PlainItems(cassette))
      BY <2>2 DEF JobOK
    <2> HIDE DEF job
    <2>6. JobOK(t, job, cassette, misses)
      BY <2>2, <2>3, <2>4, <2>5 DEF JobOK
    <2> QED
      BY <1>14, <2>1, <2>6, BecomesOK
  <1>15. ASSUME NEW t \in Task, SendFails(t) PROVE TasksOK'
    <2>1. Become(t, Idle("end")) /\ UNCHANGED <<setup, misses>>
      BY <1>15 DEF SendFails
    <2> QED
      BY <1>15, <2>1, IdlesOK DEF Phases
  <1>16. ASSUME NEW t \in Task, PassGate(t) PROVE TasksOK'
    <2> DEFINE j == tasks[t]
    <2>1. Stage(t, "reply", Reply(j.call, j.ex, j.fault)) /\ UNCHANGED <<setup, misses>>
      BY <1>16 DEF PassGate
    <2>2. j.call \in 0..MaxCalls /\ j.fault \in Faults
      BY <1>16 DEF TasksOK, Jobs
    <2>3. Reply(j.call, j.ex, j.fault) \in Seq(PlainItems(cassette))
      BY <2>2, ReplyIsTyped
    <2> QED
      BY <1>16, <2>1, <2>3, StageOK DEF Phases
  <1>17. ASSUME NEW t \in Task, Disconnect(t) PROVE TasksOK'
    <2>1. Become(t, Idle("end")) /\ UNCHANGED <<setup, misses>>
      BY <1>17 DEF Disconnect
    <2> QED
      BY <1>17, <2>1, IdlesOK DEF Phases
  <1>18. ASSUME NEW t \in Task, SendAsks(t) PROVE TasksOK'
    <2>1. \/ Stage(t, "after", Ask(tasks[t].ex, "after"))
          \/ Stage(t, "initialize", Ask(None, "initialize"))
          \/ Stage(t, "during", Ask(tasks[t].ex, "during"))
      BY <1>18 DEF SendAsks, NextAsks
    <2>2. UNCHANGED <<setup, misses>>
      BY <1>18 DEF SendAsks
    <2> QED
      BY <1>18, <2>1, <2>2, AskIsTyped, StageOK DEF Phases
  <1>19. ASSUME NEW t \in Task, Done(t) PROVE TasksOK'
    <2>1. Become(t, Idle(IF t = Main THEN "read" ELSE "idle")) /\ UNCHANGED <<setup, misses>>
      BY <1>19 DEF Done
    <2>2. (IF t = Main THEN "read" ELSE "idle") \in Phases \ {"miss"}
      BY DEF Phases
    <2> QED
      BY <1>19, <2>1, <2>2, IdlesOK
  <1>20. ASSUME NEW t \in Task, Cancel(t) PROVE TasksOK'
    <2>1. Become(t, Idle("end")) /\ UNCHANGED <<setup, misses>>
      BY <1>20 DEF Cancel
    <2> QED
      BY <1>20, <2>1, IdlesOK DEF Phases
  <1>21. CASE Exit
    BY <1>21 DEF Exit, TasksOK, cassette
  <1>22. CASE UNCHANGED vars
    BY <1>22 DEF vars, TasksOK, cassette
  <1> QED
    BY <1>1, <1>2, <1>3, <1>4, <1>5, <1>6, <1>7, <1>8, <1>9, <1>10, <1>11,
       <1>12, <1>13, <1>14, <1>15, <1>16, <1>17, <1>18, <1>19, <1>20, <1>21, <1>22
    DEF Next, Client, Handle, MainStep, Send, TaskStep

-----------------------------------------------------------------------------
(* Calls in their order *)

LEMMA CallStill ==
    ASSUME CallInv, UNCHANGED <<sent, stdin, counts, misses, divergence>>
    PROVE  CallInv'
  BY DEF CallInv, Pending, DivergesAtTheFirstMiss

\* The call that is taken is later than all that were recorded, and earlier than all
\* that still wait.
LEMMA TakesTheNext ==
    ASSUME Rest, CallInv, NEW n, Takes(n)
    PROVE  /\ n \in DOMAIN sent /\ n \in Nat /\ n <= Len(sent)
           /\ \A m \in Methods : counts[m] < n
           /\ \A i \in DOMAIN misses : misses[i] < n
           /\ divergence.step < n
           /\ \A k \in Pending' : stdin'[k].of \in DOMAIN sent /\ n < stdin'[k].of
           /\ \A i, j \in Pending' : i < j => stdin'[i].of < stdin'[j].of
  <1>1. stdin # <<>> /\ Head(stdin) = Call(n) /\ stdin' = Tail(stdin) /\ IsSeq(stdin)
    BY DEF Takes, Rest
  <1>2. 1 \in DOMAIN stdin /\ stdin[1] = Call(n)
    BY <1>1, TailOfAny
  <1>3. 1 \in Pending /\ stdin[1].of = n
    BY <1>2 DEF Pending, Call
  <1>4. \A k \in Pending' : k \in Nat \ {0} /\ k + 1 \in Pending /\ stdin'[k] = stdin[k + 1]
    BY <1>1, TailOfAny DEF Pending
  <1>5. n \in DOMAIN sent /\ n \in Nat /\ n <= Len(sent)
    BY <1>3 DEF CallInv, Rest
  <1>6. \A k \in Pending' : stdin'[k].of \in DOMAIN sent /\ n < stdin'[k].of
    BY <1>3, <1>4 DEF CallInv
  <1>7. \A i, j \in Pending' : i < j => stdin'[i].of < stdin'[j].of
    BY <1>4 DEF CallInv
  <1> QED
    BY <1>3, <1>5, <1>6, <1>7 DEF CallInv

LEMMA CountIsBelow ==
    ASSUME Rest, NEW n \in Nat, \A m \in Methods : counts[m] < n, NEW method, Consulted(method)
    PROVE  \A m \in Methods : counts'[m] <= n
  <1>1. counts \in [Methods -> Nat] /\ counts' = [counts EXCEPT ![method] = @ + 1]
    BY DEF Rest, Consulted
  <1>2. ASSUME NEW m \in Methods PROVE counts'[m] <= n
    <2>1. CASE m = method
      BY <1>1, <2>1
    <2>2. CASE m # method
      BY <1>1, <2>2
    <2> QED
      BY <2>1, <2>2
  <1> QED
    BY <1>2

LEMMA CallStep ==
    ASSUME Rest, CallInv, [Next]_vars
    PROVE  CallInv'
  <1> USE DEF world, matcher, tracker, running, outcome
  <1>1. ASSUME NEW call \in Calls, ClientCall(call) PROVE CallInv'
    <2> DEFINE n == Len(sent) + 1
    <2>1. /\ sent' = Append(sent, call) /\ stdin' = Append(stdin, Call(n))
          /\ UNCHANGED <<counts, misses, divergence>>
      BY <1>1 DEF ClientCall
    <2>2. /\ sent \in Seq(Calls) /\ IsSeq(stdin) /\ misses \in Seq(1..MaxCalls)
          /\ counts \in [Methods -> Nat] /\ call \in Calls /\ Len(sent) \in Nat
      BY <1>1 DEF Rest
    <2>3. /\ Len(sent') = n /\ DOMAIN sent' = DOMAIN sent \cup {n}
          /\ \A k \in DOMAIN sent : sent'[k] = sent[k] /\ k < n
      BY <2>1, <2>2, Appended
    <2>4. \A k \in Pending' :
             \/ k \in Pending /\ stdin'[k] = stdin[k] /\ k < Len(stdin) + 1
             \/ k = Len(stdin) + 1 /\ stdin'[k].of = n
      BY <2>1, <2>2, AppendedAny DEF Pending, Call
    <2>5. \A i \in DOMAIN misses : misses[i] \in DOMAIN sent /\ misses[i] < n
      BY <2>2, <2>3 DEF CallInv
    <2>6. /\ \A m \in Methods : counts[m] <= Len(sent) /\ counts[m] \in Nat
          /\ divergence.step \in 0..Len(sent)
      BY <2>2 DEF CallInv
    <2>7. \A k \in Pending : stdin[k].of \in DOMAIN sent /\ stdin[k].of < n
      BY <2>2, <2>3 DEF CallInv
    <2>8. Len(stdin) \in Nat /\ DOMAIN stdin \subseteq Nat
      BY <2>2 DEF IsSeq
    <2> HIDE DEF n
    <2>9. \A i, j \in Pending' : i < j => stdin'[i].of < stdin'[j].of
      BY <2>4, <2>7, <2>8 DEF CallInv, Pending
    <2>10. \A k \in Pending' :
              /\ stdin'[k].of \in DOMAIN sent'
              /\ \A m \in Methods : counts[m] < stdin'[k].of
              /\ \A i \in DOMAIN misses : misses[i] < stdin'[k].of
              /\ divergence.step < stdin'[k].of
      <3>1. n = Len(sent) + 1
        BY DEF n
      <3> QED
        BY <2>2, <2>3, <2>4, <2>5, <2>6, <2>7, <3>1 DEF CallInv
    <2>11. DivergesAtTheFirstMiss'
      <3>1. \A k \in 1..(divergence.step - 1) : k \in DOMAIN sent /\ sent'[k] = sent[k]
        BY <2>2, <2>3, <2>6
      <3> QED
        BY <2>1, <3>1 DEF CallInv, DivergesAtTheFirstMiss
    <2>12. divergence' = NoDivergence => \A i \in DOMAIN misses' : IsInitialize(sent'[misses'[i]])
      BY <2>1, <2>3, <2>5 DEF CallInv
    <2>13. /\ \A m \in Methods : counts'[m] <= Len(sent')
           /\ divergence'.step \in 0..Len(sent')
           /\ \A i \in DOMAIN misses' : misses'[i] \in DOMAIN sent'
      <3>1. n = Len(sent) + 1
        BY DEF n
      <3> QED
        BY <2>1, <2>2, <2>3, <2>5, <2>6, <3>1
    <2> QED
      BY <2>1, <2>9, <2>10, <2>11, <2>12, <2>13 DEF CallInv
  <1>2. ASSUME NEW ask \in Asks(cassette), ClientAnswer(ask) PROVE CallInv'
    <2>1. /\ stdin' = Append(stdin, AnswerTo(cassette[ask].id)) /\ IsSeq(stdin)
          /\ UNCHANGED <<sent, counts, misses, divergence>>
      BY <1>2 DEF ClientAnswer, Rest
    <2>2. \A k \in Pending' : k \in Pending /\ stdin'[k] = stdin[k]
      BY <2>1, AppendedAny DEF Pending, AnswerTo
    <2> QED
      BY <2>1, <2>2 DEF CallInv, DivergesAtTheFirstMiss
  <1>3. ASSUME NEW how \in {"done", "gone"}, ClientLeave(how) PROVE CallInv'
    BY <1>3, CallStill DEF ClientLeave
  <1>4. ASSUME NEW n \in 1..MaxCalls, HandleInitialize(n) PROVE CallInv'
    <2>1. /\ n \in DOMAIN sent /\ n \in Nat /\ n <= Len(sent)
          /\ \A m \in Methods : counts[m] < n
          /\ \A i \in DOMAIN misses : misses[i] < n
          /\ divergence.step < n
          /\ \A k \in Pending' : stdin'[k].of \in DOMAIN sent /\ n < stdin'[k].of
          /\ \A i, j \in Pending' : i < j => stdin'[i].of < stdin'[j].of
      BY <1>4, TakesTheNext DEF HandleInitialize
    <2>2. /\ sent \in Seq(Calls) /\ misses \in Seq(1..MaxCalls) /\ counts \in [Methods -> Nat]
          /\ \A i \in DOMAIN misses : misses[i] \in DOMAIN sent /\ misses[i] \in Nat
          /\ divergence.step \in 0..Len(sent) /\ \A k \in DOMAIN sent : k \in Nat
      BY DEF Rest, CallInv
    <2>3. UNCHANGED <<sent, divergence>> /\ IsInitialize(sent[n])
      BY <1>4 DEF HandleInitialize
    <2>4. \A m \in Methods : counts'[m] <= n /\ counts'[m] \in Nat
      <3>1. CASE Consulted("initialize")
        BY <2>1, <3>1, CountIsBelow, ConsultIsTyped
      <3>2. CASE counts' = counts
        BY <2>1, <2>2, <3>2
      <3> QED
        BY <1>4, <3>1, <3>2 DEF HandleInitialize
    <2>5. \A i \in DOMAIN misses' :
             \/ i \in DOMAIN misses /\ misses'[i] = misses[i]
             \/ misses'[i] = n
      <3>1. n \in 1..MaxCalls
        BY <1>4
      <3>2. CASE misses' = Append(misses, n)
        BY <2>2, <3>1, <3>2, Appended
      <3>3. CASE misses' = misses
        BY <3>3
      <3> QED
        BY <1>4, <3>2, <3>3 DEF HandleInitialize
    <2>6. \A k \in Pending' :
             /\ \A m \in Methods : counts'[m] < stdin'[k].of
             /\ \A i \in DOMAIN misses' : misses'[i] < stdin'[k].of
             /\ divergence.step < stdin'[k].of
      BY <2>1, <2>2, <2>4, <2>5, SMTT(60)
    <2>7. \A m \in Methods : counts'[m] <= Len(sent)
      BY <2>1, <2>2, <2>4
    <2>8. \A i \in DOMAIN misses' : misses'[i] \in DOMAIN sent
      BY <2>1, <2>2, <2>5
    <2>9. divergence = NoDivergence => \A i \in DOMAIN misses' : IsInitialize(sent[misses'[i]])
      BY <2>3, <2>5 DEF CallInv
    <2>10. DivergesAtTheFirstMiss'
      BY <2>1, <2>2, <2>3, <2>5 DEF CallInv, DivergesAtTheFirstMiss
    <2> QED
      BY <2>1, <2>2, <2>3, <2>6, <2>7, <2>8, <2>9, <2>10 DEF CallInv
  <1>5. ASSUME NEW n \in 1..MaxCalls, HandleHit(n) PROVE CallInv'
    <2>1. /\ n \in DOMAIN sent /\ n \in Nat /\ n <= Len(sent)
          /\ \A m \in Methods : counts[m] < n
          /\ \A i \in DOMAIN misses : misses[i] < n
          /\ divergence.step < n
          /\ \A k \in Pending' : stdin'[k].of \in DOMAIN sent /\ n < stdin'[k].of
          /\ \A i, j \in Pending' : i < j => stdin'[i].of < stdin'[j].of
      BY <1>5, TakesTheNext DEF HandleHit
    <2>2. /\ sent \in Seq(Calls) /\ misses \in Seq(1..MaxCalls) /\ counts \in [Methods -> Nat]
          /\ \A i \in DOMAIN misses : misses[i] \in DOMAIN sent /\ misses[i] \in Nat
          /\ divergence.step \in 0..Len(sent) /\ \A k \in DOMAIN sent : k \in Nat
      BY DEF Rest, CallInv
    <2>3. UNCHANGED <<sent, misses, divergence>>
      BY <1>5 DEF HandleHit
    <2>4. \A m \in Methods : counts'[m] <= n /\ counts'[m] \in Nat
      BY <1>5, <2>1, CountIsBelow, ConsultIsTyped DEF HandleHit
    <2>5. \A k \in Pending' :
             /\ \A m \in Methods : counts'[m] < stdin'[k].of
             /\ \A i \in DOMAIN misses : misses[i] < stdin'[k].of
             /\ divergence.step < stdin'[k].of
      BY <2>1, <2>2, <2>4
    <2>6. \A m \in Methods : counts'[m] <= Len(sent)
      BY <2>1, <2>2, <2>4
    <2> QED
      BY <2>1, <2>3, <2>5, <2>6 DEF CallInv, DivergesAtTheFirstMiss
  <1>6. ASSUME NEW n \in 1..MaxCalls, HandleMiss(n) PROVE CallInv'
    <2>1. /\ n \in DOMAIN sent /\ n \in Nat /\ n <= Len(sent)
          /\ \A m \in Methods : counts[m] < n
          /\ \A i \in DOMAIN misses : misses[i] < n
          /\ divergence.step < n
          /\ \A k \in Pending' : stdin'[k].of \in DOMAIN sent /\ n < stdin'[k].of
          /\ \A i, j \in Pending' : i < j => stdin'[i].of < stdin'[j].of
      BY <1>6, TakesTheNext DEF HandleMiss
    <2>2. /\ sent \in Seq(Calls) /\ misses \in Seq(1..MaxCalls) /\ counts \in [Methods -> Nat]
          /\ \A i \in DOMAIN misses : misses[i] \in DOMAIN sent /\ misses[i] \in Nat
          /\ divergence.step \in 0..Len(sent) /\ \A k \in DOMAIN sent : k \in Nat
      BY DEF Rest, CallInv
    <2>3. UNCHANGED <<sent, counts>> /\ misses' = Append(misses, n)
      BY <1>6 DEF HandleMiss
    <2>4. \A i \in DOMAIN misses' :
             \/ i \in DOMAIN misses /\ misses'[i] = misses[i]
             \/ misses'[i] = n
      BY <1>6, <2>2, <2>3, Appended
    <2>5. \/ divergence # NoDivergence /\ divergence' = divergence
          \/ divergence = NoDivergence /\ divergence'.step = n
      BY <1>6 DEF HandleMiss
    <2>6. divergence'.step \in 0..Len(sent) /\ divergence'.step <= n /\ divergence' # NoDivergence
      BY <1>6, <2>1, <2>2, <2>5 DEF NoDivergence
    <2>7. \A k \in Pending' :
             /\ \A m \in Methods : counts[m] < stdin'[k].of
             /\ \A i \in DOMAIN misses' : misses'[i] < stdin'[k].of
             /\ divergence'.step < stdin'[k].of
      BY <2>1, <2>2, <2>4, <2>6, SMTT(60)
    <2>8. \A i \in DOMAIN misses' : misses'[i] \in DOMAIN sent
      BY <2>1, <2>2, <2>4
    <2>9. DivergesAtTheFirstMiss'
      <3>1. CASE divergence # NoDivergence /\ divergence' = divergence
        BY <2>1, <2>2, <2>3, <2>4, <3>1 DEF CallInv, DivergesAtTheFirstMiss
      <3>2. CASE divergence = NoDivergence /\ divergence'.step = n
        <4>1. \A i \in DOMAIN misses : IsInitialize(sent[misses[i]])
          BY <3>2 DEF CallInv
        <4> QED
          BY <2>1, <2>2, <2>3, <2>4, <3>2, <4>1 DEF DivergesAtTheFirstMiss
      <3> QED
        BY <2>5, <3>1, <3>2
    <2> QED
      BY <2>1, <2>3, <2>6, <2>7, <2>8, <2>9 DEF CallInv
  <1>7. CASE OnAnswer
    <2>1. /\ stdin # <<>> /\ stdin' = Tail(stdin) /\ IsSeq(stdin)
          /\ UNCHANGED <<sent, counts, misses, divergence>>
      BY <1>7 DEF OnAnswer, Rest
    <2>2. \A k \in Pending' : k \in Nat /\ k + 1 \in Pending /\ stdin'[k] = stdin[k + 1]
      BY <2>1, TailOfAny DEF Pending
    <2>3. \A i, j \in Pending' : i < j => stdin'[i].of < stdin'[j].of
      <3>1. \A i, j \in Pending' : i < j => i + 1 < j + 1
        BY <2>2
      <3> QED
        BY <2>2, <3>1 DEF CallInv
    <2> HIDE DEF Pending
    <2> QED
      BY <2>1, <2>2, <2>3 DEF CallInv, DivergesAtTheFirstMiss
  <1>8. CASE Eof
    BY <1>8, CallStill DEF Eof
  <1>9. CASE StartReply
    BY <1>9, CallStill DEF StartReply
  <1>10. CASE Defer
    BY <1>10, CallStill DEF Defer
  <1>11. CASE Greet
    BY <1>11, CallStill DEF Greet
  <1>12. CASE Stop
    BY <1>12, CallStill DEF Stop
  <1>13. ASSUME NEW t \in Task, Write(t) PROVE CallInv'
    BY <1>13, CallStill DEF Write
  <1>14. ASSUME NEW t \in Task, Resume(t) PROVE CallInv'
    BY <1>14, CallStill DEF Resume
  <1>15. ASSUME NEW t \in Task, SendFails(t) PROVE CallInv'
    BY <1>15, CallStill DEF SendFails
  <1>16. ASSUME NEW t \in Task, PassGate(t) PROVE CallInv'
    BY <1>16, CallStill DEF PassGate
  <1>17. ASSUME NEW t \in Task, Disconnect(t) PROVE CallInv'
    BY <1>17, CallStill DEF Disconnect
  <1>18. ASSUME NEW t \in Task, SendAsks(t) PROVE CallInv'
    BY <1>18, CallStill DEF SendAsks
  <1>19. ASSUME NEW t \in Task, Done(t) PROVE CallInv'
    BY <1>19, CallStill DEF Done
  <1>20. ASSUME NEW t \in Task, Cancel(t) PROVE CallInv'
    BY <1>20, CallStill DEF Cancel
  <1>21. CASE Exit
    BY <1>21, CallStill DEF Exit
  <1>22. CASE UNCHANGED vars
    BY <1>22, CallStill DEF vars
  <1> QED
    BY <1>1, <1>2, <1>3, <1>4, <1>5, <1>6, <1>7, <1>8, <1>9, <1>10, <1>11,
       <1>12, <1>13, <1>14, <1>15, <1>16, <1>17, <1>18, <1>19, <1>20, <1>21, <1>22
    DEF Next, Client, Handle, MainStep, Send, TaskStep

-----------------------------------------------------------------------------
(* The end that a miss makes *)

LEMMA MainIsATask == Main \in Task /\ Free \notin Task /\ Main # Free
  BY ConstantsAssumption DEF Main, Free, Task

Held ==
    \/ scope = "cancelled"
    \/ tasks[Main].phase = "miss" /\ (tasks[Main].writing \/ loop = Main)

LEMMA MissKept ==
    ASSUME MissInv, UNCHANGED <<setup, shown>>, policy = "stop" /\ Held => Held',
           DOMAIN misses \subseteq DOMAIN misses', \A i \in DOMAIN misses : misses'[i] = misses[i]
    PROVE  MissInv'
  BY DEF MissInv, Held, policy

LEMMA OtherTask ==
    ASSUME TasksOK, NEW t \in Task, NEW job, Become(t, job), t # Main
    PROVE  tasks'[Main] = tasks[Main]
  BY MainIsATask DEF Become, TasksOK

LEMMA MissStep ==
    ASSUME Rest, TasksOK, MissInv, [Next]_vars
    PROVE  MissInv'
  <1> USE DEF world, matcher, tracker, running, outcome
  <1>1. ASSUME NEW call \in Calls, ClientCall(call) PROVE MissInv'
    <2>1. UNCHANGED <<setup, shown, misses>>
      BY <1>1 DEF ClientCall
    <2>2. policy = "stop" /\ Held => Held'
      BY <1>1 DEF ClientCall, Held
    <2> QED
      BY <2>1, <2>2, MissKept
  <1>2. ASSUME NEW ask \in Asks(cassette), ClientAnswer(ask) PROVE MissInv'
    <2>1. UNCHANGED <<setup, shown, misses>>
      BY <1>2 DEF ClientAnswer
    <2>2. policy = "stop" /\ Held => Held'
      BY <1>2 DEF ClientAnswer, Held
    <2> QED
      BY <2>1, <2>2, MissKept
  <1>3. ASSUME NEW how \in {"done", "gone"}, ClientLeave(how) PROVE MissInv'
    <2>1. UNCHANGED <<setup, shown, misses>>
      BY <1>3 DEF ClientLeave
    <2>2. policy = "stop" /\ Held => Held'
      BY <1>3 DEF ClientLeave, Held
    <2> QED
      BY <2>1, <2>2, MissKept
  <1>4. ASSUME NEW n \in 1..MaxCalls, HandleInitialize(n) PROVE MissInv'
    <2>1. UNCHANGED <<setup, shown>> /\ (policy = "stop" /\ Held => Held')
      BY <1>4 DEF HandleInitialize, Takes, AtRead, Held
    <2>2. n \in 1..MaxCalls /\ misses \in Seq(1..MaxCalls)
      BY <1>4 DEF Rest
    <2>3. misses' = misses \/ misses' = Append(misses, n)
      BY <1>4 DEF HandleInitialize
    <2>4. DOMAIN misses \subseteq DOMAIN misses' /\ \A i \in DOMAIN misses : misses'[i] = misses[i]
      <3>1. CASE misses' = misses
        BY <3>1
      <3>2. CASE misses' = Append(misses, n)
        BY <2>2, <3>2, Appended
      <3> QED
        BY <2>3, <3>1, <3>2
    <2> QED
      BY <2>1, <2>4, MissKept
  <1>5. ASSUME NEW n \in 1..MaxCalls, HandleHit(n) PROVE MissInv'
    <2>1. UNCHANGED <<setup, shown, misses>>
      BY <1>5 DEF HandleHit
    <2>2. policy = "stop" /\ Held => Held'
      BY <1>5 DEF HandleHit, Takes, AtRead, Held
    <2> QED
      BY <2>1, <2>2, MissKept
  <1>6. ASSUME NEW n \in 1..MaxCalls, HandleMiss(n) PROVE MissInv'
    <2>1. UNCHANGED <<setup, shown>> /\ (policy = "stop" /\ Held => Held')
      BY <1>6 DEF HandleMiss, Takes, AtRead, Held
    <2>2. n \in 1..MaxCalls /\ misses \in Seq(1..MaxCalls)
      BY <1>6 DEF Rest
    <2>3. misses' = misses \/ misses' = Append(misses, n)
      BY <1>6 DEF HandleMiss
    <2>4. DOMAIN misses \subseteq DOMAIN misses' /\ \A i \in DOMAIN misses : misses'[i] = misses[i]
      <3>1. CASE misses' = misses
        BY <3>1
      <3>2. CASE misses' = Append(misses, n)
        BY <2>2, <3>2, Appended
      <3> QED
        BY <2>3, <3>1, <3>2
    <2> QED
      BY <2>1, <2>4, MissKept
  <1>7. CASE OnAnswer
    <2>1. UNCHANGED <<setup, shown, misses>>
      BY <1>7 DEF OnAnswer
    <2>2. policy = "stop" /\ Held => Held'
      BY <1>7 DEF OnAnswer, Held
    <2> QED
      BY <2>1, <2>2, MissKept
  <1>8. CASE Eof
    <2>1. UNCHANGED <<setup, shown, misses>>
      BY <1>8 DEF Eof
    <2>2. policy = "stop" /\ Held => Held'
      BY <1>8 DEF Eof, Held
    <2> QED
      BY <2>1, <2>2, MissKept
  <1>9. CASE StartReply
    <2>1. UNCHANGED <<setup, shown, misses>>
      BY <1>9 DEF StartReply
    <2>2. policy = "stop" /\ Held => Held'
      BY <1>9 DEF StartReply, At, Held
    <2> QED
      BY <2>1, <2>2, MissKept
  <1>10. CASE Defer
    <2>1. UNCHANGED <<setup, shown, misses>>
      BY <1>10 DEF Defer
    <2>2. policy = "stop" /\ Held => Held'
      BY <1>10 DEF Defer, At, Held
    <2> QED
      BY <2>1, <2>2, MissKept
  <1>11. CASE Greet
    <2>1. UNCHANGED <<setup, shown, misses>>
      BY <1>11 DEF Greet
    <2>2. policy = "stop" /\ Held => Held'
      BY <1>11 DEF Greet, At, Held
    <2> QED
      BY <2>1, <2>2, MissKept
  <1>12. CASE Stop
    <2>1. UNCHANGED <<setup, shown, misses>>
      BY <1>12 DEF Stop
    <2>2. policy = "stop" /\ Held => Held'
      BY <1>12 DEF Stop, Held
    <2> QED
      BY <2>1, <2>2, MissKept
  <1>13. ASSUME NEW t \in Task, Write(t) PROVE MissInv'
    <2> DEFINE q == tasks[t].queue
    <2>1. /\ scope = "open" /\ loop = Free /\ q # <<>> /\ shown' = Append(shown, Head(q))
          /\ tasks' = [tasks EXCEPT ![t].writing = TRUE] /\ ~tasks[Main].writing
          /\ UNCHANGED <<setup, misses>>
      BY <1>13, MainIsATask DEF Write, LockFree
    <2>2. JobOK(t, tasks[t], cassette, misses) /\ tasks[t] \in Jobs
      BY <1>13 DEF TasksOK
    <2>3. ~Held
      BY <2>1, MainIsATask DEF Held
    <2>4. policy = "stop" => \A k \in DOMAIN shown : shown[k].what # "miss"
      BY <2>3 DEF MissInv, Held
    <2>5. Head(q) \in Items /\ shown \in Seq(Items)
      BY <2>1, <2>2 DEF Jobs, Rest
    <2>6. /\ Len(shown') = Len(shown) + 1
          /\ \A k \in DOMAIN shown' :
                \/ k \in DOMAIN shown /\ shown'[k] = shown[k]
                \/ k = Len(shown) + 1 /\ shown'[k] = Head(q)
      BY <2>1, <2>5, Appended
    <2>7. ASSUME Head(q).what = "miss"
          PROVE  /\ \E i \in DOMAIN misses : misses[i] = Head(q).call
                 /\ t = Main /\ tasks[t].phase = "miss"
      <3>1. CASE tasks[t].phase = "miss"
        <4>1. PICK i \in DOMAIN misses : q = <<Item("miss", misses[i], None)>>
          BY <2>1, <2>2, <3>1 DEF JobOK
        <4>2. Head(q) = Item("miss", misses[i], None)
          BY <4>1
        <4>3. Head(q).call = misses[i]
          BY <4>2 DEF Item
        <4> QED
          BY <2>2, <3>1, <4>3 DEF JobOK
      <3>2. CASE tasks[t].phase # "miss"
        <4>1. q \in Seq(PlainItems(cassette))
          BY <2>2, <3>2 DEF JobOK
        <4>2. Head(q) \in PlainItems(cassette)
          BY <2>1, <4>1, HeadAndTail
        <4> QED
          BY <2>7, <4>2 DEF PlainItems
      <3> QED
        BY <3>1, <3>2
    <2>8. tasks'[t].writing /\ tasks'[t].phase = tasks[t].phase
      BY <1>13, <2>1, <2>2 DEF TasksOK, Jobs
    <2>9. Head(q).what = "miss" => Held'
      BY <2>7, <2>8 DEF Held
    <2> HIDE DEF q
    <2>10. policy' = policy
      BY <2>1 DEF policy
    <2> QED
      BY <2>1, <2>4, <2>6, <2>7, <2>9, <2>10 DEF MissInv, Held
  <1>14. ASSUME NEW t \in Task, Resume(t) PROVE MissInv'
    <2>1. UNCHANGED <<setup, shown, misses>>
      BY <1>14 DEF Resume
    <2>2. policy = "stop" /\ Held => Held'
      <3> DEFINE job == [tasks[t] EXCEPT !.queue = Tail(@), !.writing = FALSE]
      <3>1. Become(t, job) /\ loop = Free /\ scope' = scope /\ tasks[t].writing
        BY <1>14 DEF Resume
      <3>2. CASE t = Main
        <4>1. SUFFICES ASSUME tasks[Main].phase = "miss"
                       PROVE  tasks'[Main].phase = "miss" /\ loop' = Main
          BY <3>1, MainIsATask DEF Held
        <4>2. JobOK(Main, tasks[Main], cassette, misses) /\ tasks[Main] \in Jobs
          BY MainIsATask DEF TasksOK
        <4>3. PICK i \in DOMAIN misses : tasks[Main].queue = <<Item("miss", misses[i], None)>>
          BY <3>1, <3>2, <4>1, <4>2 DEF JobOK
        <4>4. job.phase = "miss" /\ job.queue = Tail(tasks[Main].queue)
          BY <3>2, <4>1, <4>2 DEF Jobs
        <4>5. job.queue = <<>>
          <5>1. ASSUME NEW x PROVE Tail(<<x>>) = <<>>
            OBVIOUS
          <5> HIDE DEF job
          <5> QED
            BY <4>3, <4>4, <5>1
        <4> HIDE DEF job
        <4>6. tasks' = [tasks EXCEPT ![Main] = job] /\ loop' = Main
          BY <3>1, <3>2, <4>4, <4>5 DEF Become, Waiting
        <4>7. tasks'[Main] = job
          BY <4>6, MainIsATask DEF TasksOK
        <4> QED
          BY <4>4, <4>6, <4>7
      <3>3. CASE t # Main
        <4> HIDE DEF job
        <4>1. tasks'[Main] = tasks[Main]
          BY <1>14, <3>1, <3>3, OtherTask
        <4> QED
          BY <3>1, <4>1, MainIsATask DEF Held
      <3> QED
        BY <3>2, <3>3
    <2> QED
      BY <2>1, <2>2, MissKept
  <1>15. ASSUME NEW t \in Task, SendFails(t) PROVE MissInv'
    <2>1. UNCHANGED <<setup, shown, misses>>
      BY <1>15 DEF SendFails
    <2>2. policy = "stop" /\ Held => Held'
      BY <1>15 DEF SendFails, Held
    <2> QED
      BY <2>1, <2>2, MissKept
  <1>16. ASSUME NEW t \in Task, PassGate(t) PROVE MissInv'
    <2>1. UNCHANGED <<setup, shown, misses>>
      BY <1>16 DEF PassGate
    <2>2. policy = "stop" /\ Held => Held'
      <3>1. CASE t = Main
        BY <1>16, <3>1, MainIsATask DEF PassGate, Stage, Held
      <3>2. CASE t # Main
        <4>1. tasks'[Main] = tasks[Main]
          BY <1>16, <3>2, OtherTask DEF PassGate, Stage
        <4>2. loop \in {t, Free} /\ scope' = scope
          BY <1>16 DEF PassGate, Stage
        <4> QED
          BY <3>2, <4>1, <4>2, MainIsATask DEF Held
      <3> QED
        BY <3>1, <3>2
    <2> QED
      BY <2>1, <2>2, MissKept
  <1>17. ASSUME NEW t \in Task, Disconnect(t) PROVE MissInv'
    <2>1. UNCHANGED <<setup, shown, misses>>
      BY <1>17 DEF Disconnect
    <2>2. policy = "stop" /\ Held => Held'
      BY <1>17 DEF Disconnect, Held
    <2> QED
      BY <2>1, <2>2, MissKept
  <1>18. ASSUME NEW t \in Task, SendAsks(t) PROVE MissInv'
    <2>1. UNCHANGED <<setup, shown, misses>>
      BY <1>18 DEF SendAsks
    <2>2. policy = "stop" /\ Held => Held'
      <3>1. CASE t = Main
        BY <1>18, <3>1, MainIsATask DEF SendAsks, NextAsks, Stage, At, Held
      <3>2. CASE t # Main
        <4>1. tasks'[Main] = tasks[Main]
          BY <1>18, <3>2, OtherTask DEF SendAsks, NextAsks, Stage, At
        <4>2. loop \in {t, Free} /\ scope' = scope
          BY <1>18 DEF SendAsks, NextAsks, Stage, At
        <4> QED
          BY <3>2, <4>1, <4>2, MainIsATask DEF Held
      <3> QED
        BY <3>1, <3>2
    <2> QED
      BY <2>1, <2>2, MissKept
  <1>19. ASSUME NEW t \in Task, Done(t) PROVE MissInv'
    <2>1. UNCHANGED <<setup, shown, misses>>
      BY <1>19 DEF Done
    <2>2. policy = "stop" /\ Held => Held'
      <3>1. CASE t = Main
        BY <1>19, <3>1, MainIsATask DEF Done, At, Held
      <3>2. CASE t # Main
        <4>1. tasks'[Main] = tasks[Main]
          BY <1>19, <3>2, OtherTask DEF Done
        <4>2. loop = t /\ scope' = scope
          BY <1>19 DEF Done, At
        <4> QED
          BY <3>2, <4>1, <4>2, MainIsATask DEF Held
      <3> QED
        BY <3>1, <3>2
    <2> QED
      BY <2>1, <2>2, MissKept
  <1>20. ASSUME NEW t \in Task, Cancel(t) PROVE MissInv'
    <2>1. UNCHANGED <<setup, shown, misses>>
      BY <1>20 DEF Cancel
    <2>2. policy = "stop" /\ Held => Held'
      BY <1>20 DEF Cancel, Held
    <2> QED
      BY <2>1, <2>2, MissKept
  <1>21. CASE Exit
    <2>1. UNCHANGED <<setup, shown, misses>>
      BY <1>21 DEF Exit
    <2>2. policy = "stop" /\ Held => Held'
      BY <1>21 DEF Exit, Held
    <2> QED
      BY <2>1, <2>2, MissKept
  <1>22. CASE UNCHANGED vars
    BY <1>22 DEF vars, MissInv, policy
  <1> QED
    BY <1>1, <1>2, <1>3, <1>4, <1>5, <1>6, <1>7, <1>8, <1>9, <1>10, <1>11,
       <1>12, <1>13, <1>14, <1>15, <1>16, <1>17, <1>18, <1>19, <1>20, <1>21, <1>22
    DEF Next, Client, Handle, MainStep, Send, TaskStep

LEMMA ExitStep ==
    ASSUME Rest, TasksOK, ExitInv, [Next]_vars
    PROVE  ExitInv'
  <1>0. /\ Main \in Task /\ Free \notin Task
        /\ \A t \in Task : tasks[t].phase \in {"idle", "end"} => ~tasks[t].writing
    BY MainIsATask DEF TasksOK, JobOK
  <1> USE DEF world, matcher, tracker, running, outcome
  <1>1. ASSUME NEW call \in Calls, ClientCall(call) PROVE ExitInv'
    BY <1>1, <1>0 DEF ClientCall, ExitInv
  <1>2. ASSUME NEW ask \in Asks(cassette), ClientAnswer(ask) PROVE ExitInv'
    BY <1>2, <1>0 DEF ClientAnswer, ExitInv
  <1>3. ASSUME NEW how \in {"done", "gone"}, ClientLeave(how) PROVE ExitInv'
    BY <1>3, <1>0 DEF ClientLeave, ExitInv
  <1>4. ASSUME NEW n \in 1..MaxCalls, HandleInitialize(n) PROVE ExitInv'
    BY <1>4, <1>0 DEF HandleInitialize, ExitInv, Takes, AtRead
  <1>5. ASSUME NEW n \in 1..MaxCalls, HandleHit(n) PROVE ExitInv'
    BY <1>5, <1>0 DEF HandleHit, ExitInv, Takes, AtRead
  <1>6. ASSUME NEW n \in 1..MaxCalls, HandleMiss(n) PROVE ExitInv'
    BY <1>6, <1>0 DEF HandleMiss, ExitInv, Takes, AtRead
  <1>7. CASE OnAnswer
    BY <1>7, <1>0 DEF OnAnswer, ExitInv, AtRead
  <1>8. CASE Eof
    BY <1>8, <1>0 DEF Eof, ExitInv, AtRead
  <1>9. CASE StartReply
    BY <1>9, <1>0 DEF StartReply, ExitInv, At
  <1>10. CASE Defer
    BY <1>10, <1>0 DEF Defer, ExitInv, At
  <1>11. CASE Greet
    BY <1>11, <1>0 DEF Greet, ExitInv, At
  <1>12. CASE Stop
    BY <1>12, <1>0 DEF Stop, ExitInv, At
  <1>13. ASSUME NEW t \in Task, Write(t) PROVE ExitInv'
    BY <1>13, <1>0 DEF Write, ExitInv
  <1>14. ASSUME NEW t \in Task, Resume(t) PROVE ExitInv'
    BY <1>14, <1>0 DEF Resume, ExitInv
  <1>15. ASSUME NEW t \in Task, SendFails(t) PROVE ExitInv'
    BY <1>15, <1>0 DEF SendFails, ExitInv
  <1>16. ASSUME NEW t \in Task, PassGate(t) PROVE ExitInv'
    BY <1>16, <1>0 DEF PassGate, ExitInv
  <1>17. ASSUME NEW t \in Task, Disconnect(t) PROVE ExitInv'
    BY <1>17, <1>0 DEF Disconnect, ExitInv, At
  <1>18. ASSUME NEW t \in Task, SendAsks(t) PROVE ExitInv'
    BY <1>18, <1>0 DEF SendAsks, ExitInv, NextAsks, At
  <1>19. ASSUME NEW t \in Task, Done(t) PROVE ExitInv'
    BY <1>19, <1>0 DEF Done, ExitInv, At
  <1>20. ASSUME NEW t \in Task, Cancel(t) PROVE ExitInv'
    BY <1>20, <1>0 DEF Cancel, ExitInv
  <1>21. CASE Exit
    BY <1>21, <1>0 DEF Exit, ExitInv
  <1>22. CASE UNCHANGED vars
    BY <1>22, <1>0 DEF vars, ExitInv
  <1> QED
    BY <1>1, <1>2, <1>3, <1>4, <1>5, <1>6, <1>7, <1>8, <1>9, <1>10, <1>11,
       <1>12, <1>13, <1>14, <1>15, <1>16, <1>17, <1>18, <1>19, <1>20, <1>21, <1>22
    DEF Next, Client, Handle, MainStep, Send, TaskStep

-----------------------------------------------------------------------------
Inv == Rest /\ TasksOK /\ CallInv /\ MissInv /\ ExitInv

LEMMA Invariance == Spec => []Inv
  <1>1. Init => Inv
    <2> SUFFICES ASSUME Init PROVE Inv
      OBVIOUS
    <2> USE DEF Init
    <2>1. \A t \in Task : LET phase == IF t = Main THEN "read" ELSE "idle"
                         IN  /\ phase \in Phases \ {"miss"} /\ tasks[t] = Idle(phase)
                             /\ JobOK(t, Idle(phase), cassette, misses)
      BY IdleIsOK DEF Phases
    <2>2. \A t \in Task : tasks[t] \in Jobs
      BY <2>1 DEF JobOK
    <2>3. TasksOK
      BY <2>1, <2>2 DEF TasksOK
    <2>4. IsSeq(stdin)
      <3>1. <<>> \in Seq({})
        OBVIOUS
      <3> QED
        BY <3>1, SequencesAreSeq
    <2>5. Rest
      BY <2>4, ConstantsAssumption DEF Rest
    <2>6. CallInv
      BY DEF CallInv, Pending, NoDivergence, DivergesAtTheFirstMiss
    <2>7. MissInv /\ ExitInv
      BY DEF MissInv, ExitInv
    <2> QED
      BY <2>3, <2>5, <2>6, <2>7 DEF Inv
  <1>2. Inv /\ [Next]_vars => Inv'
    BY RestStep, TasksStep, CallStep, MissStep, ExitStep DEF Inv
  <1> QED
    BY <1>1, <1>2, PTL DEF Spec

\* Every reachable state is well typed: among it, an answer only ever opens a gate whose
\* ask was emitted (opened is part of emitted), and no fault is counted more often than
\* there are calls.
THEOREM TypeCorrect == Spec => []TypeOK
  <1>1. Inv => TypeOK
    <2> SUFFICES ASSUME Inv PROVE TypeOK
      OBVIOUS
    <2>1. /\ \A n \in DOMAIN sent : sent[n] \in Calls
          /\ \A m \in Methods : counts[m] \in 0..MaxCalls
      BY ConstantsAssumption DEF Inv, Rest, CallInv
    <2>2. counts \in [Methods -> 0..MaxCalls]
      BY <2>1 DEF Inv, Rest
    <2>3. \A t \in Task : /\ tasks[t].phase \in Phases
                          /\ tasks[t].writing => tasks[t].queue # <<>>
      BY DEF Inv, TasksOK, JobOK, Jobs
    <2>4. Rest /\ TasksOK
      BY DEF Inv
    <2>5. /\ Len(sent) <= MaxCalls
          /\ replied \subseteq Asks(cassette) /\ used \subseteq Exchanges(cassette)
      BY <2>4 DEF Rest
    <2>6. opened \subseteq emitted /\ emitted \subseteq Asks(cassette) /\ loop \in Task \cup {Free}
      BY <2>4 DEF Rest, TasksOK
    <2>7. /\ setup \in Setups /\ client \in {"open", "done", "gone"}
          /\ exit \in {"running", "0", "3", "error"}
      BY <2>4 DEF Rest
    <2> QED
      BY <2>1, <2>2, <2>3, <2>5, <2>6, <2>7 DEF TypeOK
  <1> QED
    BY <1>1, Invariance, PTL

\* The CI-visible failure signal of a replay: a miss the client was shown fails the run
\* in the exit code and the report, nothing follows it under "stop", and the divergence
\* names the first call that left the recording.
THEOREM HonoursMisses == Spec => []MissesAreHonoured
  <1>1. Inv => MissesFailTheRun
    BY DEF Inv, ExitInv, MissInv, MissesFailTheRun
  <1>2. Inv => StopsAtTheMiss
    BY DEF Inv, MissInv, StopsAtTheMiss
  <1>3. Inv => DivergesAtTheFirstMiss
    BY DEF Inv, CallInv
  <1> QED
    BY <1>1, <1>2, <1>3, Invariance, PTL DEF MissesAreHonoured

-----------------------------------------------------------------------------
(* What calls are answered with *)

\* A call is being served with an exchange, or was.
Serving == {"during", "gate", "reply", "leading", "initialize", "after"}
Replies == {"response", "error", "malformed"}
Asking == {"during", "initialize", "after"}
Runs(n, ex) ==
    \E t \in Task : tasks[t].phase \in Serving /\ tasks[t].call = n /\ tasks[t].ex = ex
Showed(n, ex) == \E k \in Responses : shown[k].call = n /\ RequestOf(shown[k].seq) = ex
Served(n, ex) == Runs(n, ex) \/ Showed(n, ex)

\* What of the call n was recorded before ex is used up, and ex with it.
UsedUp(n, ex) ==
    ~IsInitialize(sent[n]) /\ ordering # "none" =>
        /\ ex \in used
        /\ \A e \in Exchanges(cassette) \ used : cassette[e].call = sent[n] => ex < e

ServeInv ==
    /\ \A n \in Task, ex \in Nat : Served(n, ex) =>
          /\ n \in DOMAIN sent /\ ex \in Exchanges(cassette) /\ Response(cassette, ex) # None
          /\ Recorded(sent[n], ex)
          /\ \A k \in Pending : n < stdin[k].of
          /\ UsedUp(n, ex)
    /\ \A m, n \in Task, ex, fx \in Nat :
          Served(m, ex) /\ Served(n, fx) /\ m < n /\ sent[m] = sent[n]
          /\ ~IsInitialize(sent[m]) /\ ordering # "none" => ex < fx

\* Main serves the latest call, a deferred task the call it is named after; a handshake
\* is never deferred.
Places ==
    /\ \A t \in Task : t # Main =>
          /\ tasks[t].phase \in {"idle", "end", "gate", "reply", "after"}
          /\ tasks[t].phase \in Serving =>
                /\ tasks[t].call = t /\ ~IsInitialize(sent[t])
                /\ tasks[Main].phase \in Serving => t < tasks[Main].call
    /\ tasks[Main].phase # "gate"
    /\ tasks[Main].phase \in {"leading", "initialize"} => ForInitialize(Main)
    /\ loop \in Task => tasks[loop].queue = <<>>

\* What a task has to send, by what it is doing.
LineOK(j, c) ==
    \A i \in DOMAIN j.queue :
        /\ j.phase \in Asking \cup {"reply", "leading", "miss"}
        /\ j.phase \in Asking <=> j.queue[i].what = "ask"
        /\ j.queue[i].what \in Replies =>
              /\ j.phase = "reply" /\ j.queue[i].call = j.call
              /\ j.queue[i].seq = Response(c, j.ex)
Lines == \A t \in Task : LineOK(tasks[t], cassette)

-----------------------------------------------------------------------------
(* Steps, by what they do to the tasks *)

Elsewhere == UNCHANGED <<setup, tasks, loop, shown, used, emitted>>

EndsJob(t) ==
    /\ \E phase \in {"read", "idle", "end"} :
          /\ Become(t, Idle(phase))
          /\ phase = "read" => t = Main
    /\ ~tasks[t].writing
    /\ UNCHANGED <<setup, sent, stdin, shown, used, emitted>>

GoesOn(t, phase, q) ==
    /\ Stage(t, phase, q) /\ tasks[t].phase \in Serving /\ ~tasks[t].writing
    /\ UNCHANGED <<setup, sent, stdin, shown, used, emitted>>
    /\ \/ /\ phase = "reply" /\ Blockers(tasks[t].ex) = {}
          /\ \/ tasks[t].phase = "gate"
             \/ t = Main /\ tasks[t].phase = "during" /\ tasks[t].queue = <<>>
          /\ q = Reply(tasks[t].call, tasks[t].ex, tasks[t].fault)
       \/ phase = "leading" /\ t = Main /\ ForInitialize(t) /\ q \in {<<>>, Notes(Leading(cassette))}
       \/ phase = "initialize" /\ tasks[t].phase = "leading" /\ q = Ask(None, "initialize")
       \/ phase = "during" /\ tasks[t].phase = "initialize" /\ q = Ask(tasks[t].ex, "during")
       \/ phase = "after" /\ q = Ask(tasks[t].ex, "after")

LEMMA Steps ==
    ASSUME Rest, TasksOK, Places, Lines, [Next]_vars
    PROVE  \/ Elsewhere \/ Defer
           \/ \E n \in 1..MaxCalls : HandleInitialize(n) \/ HandleHit(n) \/ HandleMiss(n)
           \/ \E t \in Task : Write(t) \/ Resume(t) \/ EndsJob(t)
           \/ \E t \in Task, phase \in Phases, q \in Seq(Items) : GoesOn(t, phase, q)
  <1>0. /\ Main \in Task /\ \A t \in Task : tasks[t].writing => tasks[t].queue # <<>>
        /\ \A t \in Task : tasks[t].queue \in Seq(Items)
        /\ \A t \in Task : loop = t => ~tasks[t].writing
        /\ \A t \in Task : tasks[t].phase \in {"gate", "read"} => ~tasks[t].writing
    <2>1. \A t \in Task : tasks[t].queue \in Seq(Items) /\ (tasks[t].writing => tasks[t].queue # <<>>)
      BY DEF TasksOK, JobOK, Jobs
    <2>2. \A t \in Task : loop = t => ~tasks[t].writing
      BY <2>1 DEF Places
    <2>3. \A t \in Task : tasks[t].phase \in {"gate", "read"} => ~tasks[t].writing
      <3> TAKE t \in Task
      <3>1. tasks[t].queue # <<>> => 1 \in DOMAIN tasks[t].queue
        BY <2>1, HeadAndTail
      <3>2. 1 \in DOMAIN tasks[t].queue => tasks[t].phase \notin {"gate", "read"}
        BY DEF Lines, LineOK, Asking
      <3> QED
        BY <2>1, <3>1, <3>2
    <2> QED
      BY <2>1, <2>2, <2>3, MainIsATask
  <1> USE DEF world, matcher, tracker, running, outcome
  <1>1. ASSUME Client PROVE Elsewhere
    BY <1>1 DEF Client, ClientCall, ClientAnswer, ClientLeave, Elsewhere
  <1>2. ASSUME OnAnswer \/ Exit \/ UNCHANGED vars PROVE Elsewhere
    BY <1>2 DEF OnAnswer, Exit, vars, Elsewhere
  <1>3. ASSUME Eof \/ Stop PROVE EndsJob(Main)
    BY <1>0, <1>3 DEF Eof, AtRead, Stop, At, EndsJob
  <1>4. ASSUME NEW t \in Task, SendFails(t) \/ Disconnect(t) \/ Done(t) \/ Cancel(t)
        PROVE  EndsJob(t)
    <2>1. CASE SendFails(t)
      BY <1>4, <2>1 DEF SendFails, LockFree, EndsJob
    <2>2. CASE Disconnect(t)
      BY <1>0, <1>4, <2>2 DEF Disconnect, At, EndsJob
    <2>3. CASE Done(t)
      BY <1>0, <1>4, <2>3 DEF Done, At, EndsJob
    <2>4. CASE Cancel(t)
      BY <1>4, <2>4 DEF Cancel, EndsJob
    <2> QED
      BY <1>4, <2>1, <2>2, <2>3, <2>4
  <1>5. ASSUME NEW t \in Task, (StartReply /\ t = Main) \/ PassGate(t)
        PROVE  \E phase \in Phases, q \in Seq(Items) : GoesOn(t, phase, q)
    <2> DEFINE q == Reply(tasks[t].call, tasks[t].ex, tasks[t].fault)
    <2>1. tasks[t].call \in 0..MaxCalls /\ tasks[t].fault \in Faults
      BY <1>5 DEF TasksOK, Jobs
    <2>2. q \in Seq(PlainItems(cassette))
      BY <2>1, ReplyIsTyped
    <2>3. q \in Seq(Items) /\ "reply" \in Phases
      BY <2>2, PlainIsTyped DEF Phases
    <2>4. GoesOn(t, "reply", q)
      <3>1. loop = t => tasks[t].queue = <<>>
        BY <1>5 DEF Places
      <3> QED
        BY <1>0, <1>5, <3>1 DEF StartReply, PassGate, At, GoesOn, Serving
    <2> HIDE DEF q
    <2> QED
      BY <2>3, <2>4
  <1>6. ASSUME Greet PROVE \E phase \in Phases, q \in Seq(Items) : GoesOn(Main, phase, q)
    <2> DEFINE q == IF greeted THEN <<>> ELSE Notes(Leading(cassette))
    <2>1. Notes(Leading(cassette)) \in Seq(PlainItems(cassette))
      BY NotesAreTyped DEF Leading
    <2>2. q \in Seq(Items) /\ "leading" \in Phases
      BY <2>1, PlainIsTyped DEF Phases
    <2>3. GoesOn(Main, "leading", q)
      BY <1>0, <1>6 DEF Greet, At, GoesOn, Serving
    <2> HIDE DEF q
    <2> QED
      BY <2>2, <2>3
  <1>7. ASSUME NEW t \in Task, SendAsks(t)
        PROVE  \E phase \in Phases, q \in Seq(Items) : GoesOn(t, phase, q)
    <2>1. PICK phase \in {"after", "initialize", "during"},
               q \in {Ask(tasks[t].ex, "after"), Ask(None, "initialize"), Ask(tasks[t].ex, "during")} :
               GoesOn(t, phase, q)
      BY <1>0, <1>7 DEF SendAsks, NextAsks, At, GoesOn, Serving
    <2>2. q \in Seq(Items) /\ phase \in Phases
      <3>1. q \in Seq(PlainItems(cassette))
        BY <2>1, AskIsTyped
      <3> QED
        BY <2>1, <3>1, PlainIsTyped DEF Phases
    <2> QED
      BY <2>1, <2>2
  <1> QED
    BY <1>0, <1>1, <1>2, <1>3, <1>4, <1>5, <1>6, <1>7
    DEF Next, Handle, MainStep, Send, TaskStep

-----------------------------------------------------------------------------
(* What the tasks have to send *)

\* A task becomes job, or another one does.
LEMMA BecameOr ==
    ASSUME TasksOK, NEW t \in Task, NEW job, Become(t, job)
    PROVE  /\ tasks'[t] = job /\ \A u \in Task \ {t} : tasks'[u] = tasks[u]
           /\ loop' \in {t, Free} /\ (loop' \in Task => loop' = t /\ job.queue = <<>>)
  BY MainIsATask DEF Become, TasksOK

LEMMA AskItems ==
    ASSUME Rest, NEW ex, NEW trigger
    PROVE  LET q == Ask(ex, trigger)
           IN  /\ \A i \in DOMAIN q :
                     /\ q[i].what = "ask" /\ q[i].seq \in Asks(cassette) \ emitted
                     /\ Anchor(cassette, q[i].seq) = ex /\ Trigger(cassette, q[i].seq) = trigger
               /\ \A i, k \in DOMAIN q : i < k => q[i].seq < q[k].seq
  <1> DEFINE asks == Triggered(cassette, ex, trigger, emitted)
             S == {s \in Asks(cassette) \ emitted :
                    Anchor(cassette, s) = ex /\ Trigger(cassette, s) = trigger}
  <1>1. S \in SUBSET (1..Len(cassette)) /\ Len(cassette) \in Nat
    BY ReplayIsTyped DEF Asks, Sent
  <1>2. asks = InOrder(S)
    BY DEF Triggered
  <1>3. asks \in Seq(S) /\ \A i, k \in DOMAIN asks : i < k => asks[i] < asks[k]
    <2> HIDE DEF S
    <2>1. InOrder(S) \in Seq(S)
      BY <1>1, InOrderIsOfThem
    <2>2. \A i, k \in DOMAIN InOrder(S) : i < k => InOrder(S)[i] < InOrder(S)[k]
      BY <1>1, InOrderIsSorted
    <2> QED
      BY <1>2, <2>1, <2>2
  <1>4. \A i \in DOMAIN asks : asks[i] \in S
    BY <1>3
  <1> HIDE DEF asks
  <1>5. Ask(ex, trigger) = [k \in DOMAIN asks |-> Item("ask", None, asks[k])]
    BY DEF Ask, asks
  <1>6. \A i \in DOMAIN asks : Ask(ex, trigger)[i].what = "ask" /\ Ask(ex, trigger)[i].seq = asks[i]
    BY <1>5 DEF Item
  <1>7. DOMAIN Ask(ex, trigger) = DOMAIN asks
    BY <1>5
  <1> QED
    BY <1>3, <1>4, <1>6, <1>7

LEMMA ReplyItems ==
    ASSUME Rest, NEW n \in 0..MaxCalls, NEW ex, NEW fault \in Faults
    PROVE  LET q == Reply(n, ex, fault)
           IN  \A i \in DOMAIN q :
                  /\ q[i].what # "ask"
                  /\ q[i].what \in Replies => q[i].call = n /\ q[i].seq = Response(cassette, ex)
  <1> DEFINE P == {item \in Items :
                     /\ item.what # "ask"
                     /\ item.what \in Replies =>
                           item.call = n /\ item.seq = Response(cassette, ex)}
             seqs == Notifications(cassette, ex)
             notes == Notes(seqs)
             answer(what) == <<Item(what, n, Response(cassette, ex))>>
  <1>1. \A k \in DOMAIN seqs : notes[k] = Item("note", None, seqs[k])
    BY DEF Notes
  <1>2. notes \in Seq(P)
    <2>1. notes \in Seq(Items) /\ DOMAIN notes = DOMAIN seqs
      BY NotesAreTyped, PlainIsTyped DEF Notes
    <2> HIDE DEF notes
    <2>2. \A k \in DOMAIN notes : notes[k] \in Items /\ notes[k].what = "note"
      BY <1>1, <2>1 DEF Item
    <2>3. \A k \in DOMAIN notes : notes[k] \in P
      BY <2>2 DEF Replies
    <2>4. Len(notes) \in Nat /\ DOMAIN notes = 1..Len(notes) /\ notes \in [DOMAIN notes -> Items]
      BY <2>1
    <2> HIDE DEF P
    <2>5. notes \in [1..Len(notes) -> P]
      BY <2>3, <2>4
    <2> QED
      BY <2>4, <2>5, SeqDef
  <1>3. \A what \in {"response", "error", "malformed"} :
           Item(what, n, Response(cassette, ex)) \in P
    BY ResponseIsTyped DEF Item, Items
  <1>4. Reply(n, ex, fault) \in {answer("response") \o notes, answer("error") \o notes,
                                 answer("malformed") \o notes, answer("response"), <<>>}
    BY DEF Reply, Faults
  <1> HIDE DEF P, notes
  <1>5. \A what \in {"response", "error", "malformed"} : answer(what) \in Seq(P)
    BY <1>3
  <1> HIDE DEF answer
  <1>6. /\ answer("response") \o notes \in Seq(P) /\ answer("error") \o notes \in Seq(P)
        /\ answer("malformed") \o notes \in Seq(P) /\ <<>> \in Seq(P) /\ answer("response") \in Seq(P)
    BY <1>2, <1>5
  <1>7. Reply(n, ex, fault) \in Seq(P)
    BY <1>4, <1>6
  <1>8. \A i \in DOMAIN Reply(n, ex, fault) : Reply(n, ex, fault)[i] \in P
    BY <1>7
  <1> QED
    BY <1>8 DEF P

LEMMA NoteItems ==
    ASSUME NEW seqs
    PROVE  \A i \in DOMAIN Notes(seqs) : Notes(seqs)[i].what = "note"
  BY DEF Notes, Item

LEMMA IdleLine ==
    ASSUME NEW c, NEW phase
    PROVE  LineOK(Idle(phase), c)
  BY DEF LineOK, Idle, Job

LEMMA LinesStep ==
    ASSUME Rest, TasksOK, Places, Lines, [Next]_vars
    PROVE  Lines'
  <1>0. /\ \A t \in Task : tasks[t] \in Jobs /\ LineOK(tasks[t], cassette)
        /\ setup' = setup /\ Main \in Task
    <2>1. setup' = setup
      BY DEF Next, vars, Client, Handle, MainStep, Send, TaskStep, ClientCall, ClientAnswer,
         ClientLeave, HandleInitialize, HandleHit, HandleMiss, OnAnswer, Eof, StartReply, Defer,
         Greet, Stop, Write, Resume, SendFails, PassGate, Disconnect, SendAsks, Done, Cancel, Exit
    <2> QED
      BY <2>1, MainIsATask DEF TasksOK, Lines
  <1>1. SUFFICES ASSUME NEW u \in Task PROVE LineOK(tasks'[u], cassette)
    BY <1>0 DEF Lines, cassette
  <1>2. CASE Elsewhere
    BY <1>0, <1>2 DEF Elsewhere
  <1>3. CASE Defer
    <2> DEFINE j == tasks[Main]
               k == [j EXCEPT !.phase = "gate"]
    <2>1. tasks' = [tasks EXCEPT ![Main] = Idle("read"), ![j.call] = k] /\ loop = Main
      BY <1>3 DEF Defer, At
    <2>2. k.queue = <<>>
      BY <1>0, <2>1 DEF Places, Jobs
    <2>3. LineOK(k, cassette)
      BY <2>2 DEF LineOK
    <2> HIDE DEF k
    <2>4. tasks'[u] \in {k, Idle("read"), tasks[u]}
      BY <2>1 DEF TasksOK
    <2> QED
      BY <1>0, <2>3, <2>4, IdleLine
  <1>4. ASSUME NEW n \in 1..MaxCalls, HandleInitialize(n) PROVE LineOK(tasks'[u], cassette)
    <2> DEFINE fault == FaultFor("initialize")
               hit == Job("reply", n, Initialize, fault, Reply(n, Initialize, fault))
               miss == Job("miss", n, Initialize, "none", <<Item("miss", n, None)>>)
    <2>1. Become(Main, hit) \/ Become(Main, miss)
      BY <1>4 DEF HandleInitialize, Missed
    <2>2. LineOK(hit, cassette)
      <3>1. fault \in Faults /\ n \in 0..MaxCalls
        BY FaultIsTyped, ConstantsAssumption
      <3> HIDE DEF fault
      <3> QED
        BY <3>1, ReplyItems DEF LineOK, Job, Asking, Replies
    <2>3. LineOK(miss, cassette)
      BY DEF LineOK, Job, Item, Asking, Replies
    <2> HIDE DEF hit, miss
    <2>4. tasks'[u] \in {hit, miss, tasks[u]}
      BY <1>0, <2>1, BecameOr
    <2> QED
      BY <1>0, <2>2, <2>3, <2>4
  <1>5. ASSUME NEW n \in 1..MaxCalls, HandleHit(n) PROVE LineOK(tasks'[u], cassette)
    <2> DEFINE job == Job("during", n, Match(n), FaultFor(sent[n].method), Ask(Match(n), "during"))
    <2>1. Become(Main, job)
      BY <1>5 DEF HandleHit
    <2>2. LineOK(job, cassette)
      BY AskItems DEF LineOK, Job, Asking, Replies
    <2> HIDE DEF job
    <2> QED
      BY <1>0, <2>1, <2>2, BecameOr
  <1>6. ASSUME NEW n \in 1..MaxCalls, HandleMiss(n) PROVE LineOK(tasks'[u], cassette)
    <2> DEFINE miss == Job("miss", n, Match(n), "none", <<Item("miss", n, None)>>)
    <2>1. Become(Main, miss)
      BY <1>6 DEF HandleMiss, Missed
    <2>2. LineOK(miss, cassette)
      BY DEF LineOK, Job, Item, Asking, Replies
    <2> HIDE DEF miss
    <2> QED
      BY <1>0, <2>1, <2>2, BecameOr
  <1>7. ASSUME NEW t \in Task, Write(t) PROVE LineOK(tasks'[u], cassette)
    <2>1. tasks' = [tasks EXCEPT ![t].writing = TRUE] /\ tasks \in [Task -> Jobs]
      BY <1>7 DEF Write, TasksOK
    <2>2. /\ tasks'[u].phase = tasks[u].phase /\ tasks'[u].queue = tasks[u].queue
          /\ tasks'[u].call = tasks[u].call /\ tasks'[u].ex = tasks[u].ex
      BY <2>1 DEF Jobs
    <2> QED
      BY <1>0, <2>2 DEF LineOK
  <1>8. ASSUME NEW t \in Task, Resume(t) PROVE LineOK(tasks'[u], cassette)
    <2> DEFINE j == tasks[t]
               job == [j EXCEPT !.queue = Tail(@), !.writing = FALSE]
    <2>1. Become(t, job) /\ j \in Jobs /\ j.queue # <<>>
      BY <1>8 DEF Resume, TasksOK, JobOK
    <2>2. /\ job.phase = j.phase /\ job.queue = Tail(j.queue)
          /\ job.call = j.call /\ job.ex = j.ex
      BY <2>1 DEF Jobs
    <2>3. \A k \in DOMAIN Tail(j.queue) : k + 1 \in DOMAIN j.queue /\ Tail(j.queue)[k] = j.queue[k + 1]
      <3>1. j.queue \in Seq(Items)
        BY <2>1 DEF Jobs
      <3> QED
        BY <2>1, <3>1, HeadAndTail
    <2>4. LineOK(j, cassette)
      BY <1>0
    <2> HIDE DEF j, job
    <2>5. LineOK(job, cassette)
      BY <2>2, <2>3, <2>4 DEF LineOK
    <2> QED
      BY <1>0, <2>1, <2>5, BecameOr
  <1>9. ASSUME NEW t \in Task, EndsJob(t) PROVE LineOK(tasks'[u], cassette)
    BY <1>0, <1>9, BecameOr, IdleLine DEF EndsJob
  <1>10. ASSUME NEW t \in Task, NEW phase \in Phases, NEW q \in Seq(Items), GoesOn(t, phase, q)
         PROVE  LineOK(tasks'[u], cassette)
    <2> DEFINE j == tasks[t]
               job == Job(phase, j.call, j.ex, j.fault, q)
    <2>1. Become(t, job) /\ j.call \in 0..MaxCalls /\ j.fault \in Faults
      BY <1>0, <1>10 DEF GoesOn, Stage, Jobs
    <2>2. LineOK(job, cassette)
      <3>1. CASE phase = "reply" /\ q = Reply(j.call, j.ex, j.fault)
        <4> HIDE DEF j
        <4> QED
          BY <2>1, <3>1, ReplyItems DEF LineOK, Job, Asking, Replies
      <3>2. CASE phase = "leading" /\ q \in {<<>>, Notes(Leading(cassette))}
        <4>1. \A i \in DOMAIN q : q[i].what = "note"
          BY <3>2, NoteItems
        <4> QED
          BY <3>2, <4>1 DEF LineOK, Job, Asking, Replies
      <3>3. CASE phase = "initialize" /\ q = Ask(None, "initialize")
        BY <3>3, AskItems DEF LineOK, Job, Asking, Replies
      <3>4. CASE phase = "during" /\ q = Ask(j.ex, "during")
        BY <3>4, AskItems DEF LineOK, Job, Asking, Replies
      <3>5. CASE phase = "after" /\ q = Ask(j.ex, "after")
        BY <3>5, AskItems DEF LineOK, Job, Asking, Replies
      <3> QED
        BY <1>10, <3>1, <3>2, <3>3, <3>4, <3>5 DEF GoesOn
    <2> HIDE DEF job
    <2> QED
      BY <1>0, <2>1, <2>2, BecameOr
  <1> QED
    BY <1>2, <1>3, <1>4, <1>5, <1>6, <1>7, <1>8, <1>9, <1>10, Steps

-----------------------------------------------------------------------------
(* Which calls are served *)

\* A call that was taken stays what it is, and before the calls that wait.
LEMMA TakenStays ==
    ASSUME Rest, CallInv, [Next]_vars, NEW n \in DOMAIN sent, \A k \in Pending : n < stdin[k].of
    PROVE  n \in DOMAIN sent' /\ sent'[n] = sent[n] /\ \A k \in Pending' : n < stdin'[k].of
  <1>0. sent \in Seq(Calls) /\ Len(sent) \in Nat /\ IsSeq(stdin) /\ n \in 1..Len(sent)
    BY DEF Rest
  <1> USE DEF world, matcher, tracker, running, outcome
  <1>1. ASSUME NEW call \in Calls, ClientCall(call)
        PROVE  n \in DOMAIN sent' /\ sent'[n] = sent[n] /\ \A k \in Pending' : n < stdin'[k].of
    <2>1. sent' = Append(sent, call) /\ stdin' = Append(stdin, Call(Len(sent) + 1))
      BY <1>1 DEF ClientCall
    <2>2. n \in DOMAIN sent' /\ sent'[n] = sent[n]
      BY <1>0, <1>1, <2>1, Appended
    <2>3. \A k \in Pending' : (k \in Pending /\ stdin'[k] = stdin[k]) \/ stdin'[k].of = Len(sent) + 1
      BY <1>0, <2>1, AppendedAny DEF Pending, Call
    <2> QED
      BY <1>0, <2>2, <2>3
  <1>2. ASSUME NEW ask \in Asks(cassette), ClientAnswer(ask)
        PROVE  sent' = sent /\ \A k \in Pending' : n < stdin'[k].of
    <2>1. sent' = sent /\ stdin' = Append(stdin, AnswerTo(cassette[ask].id))
      BY <1>2 DEF ClientAnswer
    <2>2. \A k \in Pending' : k \in Pending /\ stdin'[k] = stdin[k]
      BY <1>0, <2>1, AppendedAny DEF Pending, AnswerTo
    <2> QED
      BY <2>1, <2>2
  <1>3. ASSUME stdin # <<>>, stdin' = Tail(stdin)
        PROVE  \A k \in Pending' : n < stdin'[k].of
    <2>1. \A k \in Pending' : k + 1 \in Pending /\ stdin'[k] = stdin[k + 1]
      BY <1>0, <1>3, TailOfAny DEF Pending
    <2> QED
      BY <2>1
  <1>4. ASSUME NEW m \in 1..MaxCalls, HandleInitialize(m) \/ HandleHit(m) \/ HandleMiss(m)
        PROVE  sent' = sent /\ stdin # <<>> /\ stdin' = Tail(stdin)
    BY <1>4 DEF HandleInitialize, HandleHit, HandleMiss, Takes
  <1>5. ASSUME OnAnswer PROVE sent' = sent /\ stdin # <<>> /\ stdin' = Tail(stdin)
    BY <1>5 DEF OnAnswer
  <1>6. ASSUME \/ \E how \in {"done", "gone"} : ClientLeave(how)
               \/ Eof \/ MainStep \/ Exit \/ (\E t \in Task : TaskStep(t)) \/ UNCHANGED vars
        PROVE  UNCHANGED <<sent, stdin>>
    BY <1>6 DEF ClientLeave, Eof, MainStep, StartReply, Defer, Greet, Stop, Exit, TaskStep, Send,
       Write, Resume, SendFails, PassGate, Disconnect, SendAsks, Done, Cancel, vars
  <1>7. UNCHANGED <<sent, stdin>> => \A k \in Pending' : n < stdin'[k].of
    BY DEF Pending
  <1> QED
    BY <1>1, <1>2, <1>3, <1>4, <1>5, <1>6, <1>7 DEF Next, Client, Handle

\* The call that is taken is after all that were.
LEMMA TakenAfter ==
    ASSUME Rest, NEW n, Takes(n), NEW m, \A k \in Pending : m < stdin[k].of
    PROVE  m < n
  <1>1. 1 \in Pending /\ stdin[1].of = n
    BY TailOfAny DEF Takes, Rest, Pending, Call
  <1> QED
    BY <1>1

LEMMA WhatRuns ==
    ASSUME TasksOK, ServeInv, NEW t \in Task, tasks[t].phase \in Serving
    PROVE  LET n == tasks[t].call
               ex == tasks[t].ex
           IN  /\ n \in Task /\ ex \in Nat /\ Served(n, ex)
               /\ n \in DOMAIN sent /\ ex \in Exchanges(cassette)
               /\ Response(cassette, ex) # None /\ Recorded(sent[n], ex)
               /\ \A k \in Pending : n < stdin[k].of
  <1>1. tasks[t].call \in Task /\ tasks[t].ex \in Nat
    BY DEF TasksOK, Jobs, Task
  <1>2. Served(tasks[t].call, tasks[t].ex)
    BY DEF Served, Runs
  <1> QED
    BY <1>1, <1>2 DEF ServeInv

LEMMA PlacesStep ==
    ASSUME Rest, TasksOK, CallInv, Places, Lines, ServeInv, [Next]_vars
    PROVE  Places'
  <1>0. Main \in Task /\ Main # Free /\ Free \notin Task
    BY MainIsATask
  <1>1. ASSUME NEW t \in Task, tasks[t].phase \in Serving
        PROVE  LET n == tasks[t].call
               IN  /\ n \in DOMAIN sent /\ n \in DOMAIN sent' /\ sent'[n] = sent[n] /\ n # Main
                   /\ \A k \in Pending : n < stdin[k].of
    <2>1. tasks[t].call \in DOMAIN sent /\ \A k \in Pending : tasks[t].call < stdin[k].of
      BY <1>1, WhatRuns
    <2>2. tasks[t].call \in DOMAIN sent' /\ sent'[tasks[t].call] = sent[tasks[t].call]
      BY <2>1, TakenStays
    <2>3. tasks[t].call # Main
      BY <2>1 DEF Rest, Main
    <2> QED
      BY <2>1, <2>2, <2>3
  <1>2. CASE Elsewhere
    BY <1>0, <1>1, <1>2 DEF Elsewhere, Places, ForInitialize, Serving
  <1>3. CASE Defer
    <2> DEFINE j == tasks[Main]
               k == [j EXCEPT !.phase = "gate"]
    <2>1. /\ tasks' = [tasks EXCEPT ![Main] = Idle("read"), ![j.call] = k]
          /\ loop' = Free /\ j.phase = "during" /\ ~ForInitialize(Main)
      BY <1>3 DEF Defer, At
    <2>2. j \in Jobs /\ j.call \in Task /\ j.call # Main /\ tasks \in [Task -> Jobs]
      BY <1>0, <1>1, <2>1 DEF TasksOK, Jobs, Task, Serving
    <2>3. k.phase = "gate" /\ k.call = j.call
      BY <2>2 DEF Jobs
    <2>4. ~IsInitialize(sent'[j.call])
      BY <1>0, <1>1, <2>1 DEF ForInitialize, Serving
    <2> HIDE DEF k, j
    <2>5. tasks'[Main] = Idle("read") /\ tasks'[j.call] = k
      BY <1>0, <2>1, <2>2
    <2>6. \A u \in Task \ {Main, j.call} : tasks'[u] = tasks[u]
      BY <2>1, <2>2
    <2>7. tasks'[Main].phase = "read" /\ loop' \notin Task
      BY <1>0, <2>1, <2>5 DEF Idle, Job
    <2>8. ASSUME NEW u \in Task \ {Main}
          PROVE  /\ tasks'[u].phase \in {"idle", "end", "gate", "reply", "after"}
                 /\ tasks'[u].phase \in Serving => tasks'[u].call = u /\ ~IsInitialize(sent'[u])
      <3>1. CASE u = j.call
        BY <2>3, <2>4, <2>5, <3>1
      <3>2. CASE u # j.call
        <4>1. tasks'[u] = tasks[u]
          BY <2>6, <3>2
        <4>2. tasks[u].phase \in Serving => sent'[tasks[u].call] = sent[tasks[u].call]
          BY <1>1
        <4> QED
          BY <4>1, <4>2 DEF Places
      <3> QED
        BY <3>1, <3>2
    <2> QED
      BY <2>7, <2>8 DEF Places, Serving
  <1>4. ASSUME NEW n \in 1..MaxCalls, HandleInitialize(n) \/ HandleHit(n) \/ HandleMiss(n)
        PROVE  Places'
    <2>1. Takes(n)
      BY <1>4 DEF HandleInitialize, HandleHit, HandleMiss
    <2>2. PICK phase \in {"during", "reply", "miss"}, ex \in Nat, fault \in Faults, q \in Seq(Items) :
              Become(Main, Job(phase, n, ex, fault, q))
      <3>1. /\ "none" \in Faults /\ <<Item("miss", n, None)>> \in Seq(Items)
            /\ Initialize \in Nat /\ Match(n) \in Nat /\ \A m : FaultFor(m) \in Faults
        <4>1. Item("miss", n, None) \in Items
          BY ConstantsAssumption DEF Item, Items, None
        <4> HIDE DEF Item
        <4> QED
          BY <4>1, InitializeIsTyped, MatchIsTyped, FaultIsTyped DEF Faults
      <3>2. CASE HandleInitialize(n)
        <4>1. n \in 0..MaxCalls
          BY ConstantsAssumption
        <4>2. Reply(n, Initialize, FaultFor("initialize")) \in Seq(Items)
          BY <3>1, <4>1, ReplyIsTyped, PlainIsTyped
        <4> QED
          BY <3>1, <3>2, <4>2 DEF HandleInitialize, Missed
      <3>3. CASE HandleHit(n)
        <4>1. Ask(Match(n), "during") \in Seq(Items)
          BY AskIsTyped, PlainIsTyped
        <4> QED
          BY <3>1, <3>3, <4>1 DEF HandleHit
      <3>4. CASE HandleMiss(n)
        BY <3>1, <3>4 DEF HandleMiss, Missed
      <3> QED
        BY <1>4, <3>2, <3>3, <3>4
    <2> DEFINE job == Job(phase, n, ex, fault, q)
    <2>3. /\ job.phase = phase /\ job.call = n
      BY DEF Job
    <2> HIDE DEF job
    <2>4. /\ tasks'[Main] = job /\ \A u \in Task \ {Main} : tasks'[u] = tasks[u]
          /\ loop' \in Task => loop' = Main /\ job.queue = <<>>
      BY <1>0, <2>2, BecameOr DEF job
    <2>5. \A u \in Task : tasks[u].phase \in Serving => tasks[u].call < n
      BY <1>1, <2>1, TakenAfter
    <2> QED
      BY <1>0, <1>1, <2>3, <2>4, <2>5 DEF Places, Serving
  <1>5. ASSUME NEW t \in Task, Write(t) PROVE Places'
    <2>1. /\ tasks' = [tasks EXCEPT ![t].writing = TRUE] /\ tasks \in [Task -> Jobs]
          /\ loop = Free /\ loop' = loop
      BY <1>5 DEF Write, TasksOK
    <2>2. \A u \in Task : tasks'[u].phase = tasks[u].phase /\ tasks'[u].call = tasks[u].call
      BY <2>1 DEF Jobs
    <2> QED
      BY <1>0, <1>1, <2>1, <2>2 DEF Places, ForInitialize, Serving
  <1>6. ASSUME NEW t \in Task, Resume(t) PROVE Places'
    <2> DEFINE j == tasks[t]
               job == [j EXCEPT !.queue = Tail(@), !.writing = FALSE]
    <2>1. Become(t, job) /\ j \in Jobs
      BY <1>6 DEF Resume, TasksOK
    <2>2. job.phase = j.phase /\ job.call = j.call
      BY <2>1 DEF Jobs
    <2> HIDE DEF job
    <2>3. /\ tasks'[t] = job /\ \A u \in Task \ {t} : tasks'[u] = tasks[u]
          /\ loop' \in Task => loop' = t /\ job.queue = <<>>
      BY <2>1, BecameOr
    <2>4. \A u \in Task : tasks'[u].phase = tasks[u].phase /\ tasks'[u].call = tasks[u].call
      BY <2>2, <2>3
    <2> QED
      BY <1>0, <1>1, <2>3, <2>4 DEF Places, ForInitialize, Serving
  <1>7. ASSUME NEW t \in Task, EndsJob(t) PROVE Places'
    <2>1. PICK phase \in {"read", "idle", "end"} : Become(t, Idle(phase)) /\ (phase = "read" => t = Main)
      BY <1>7 DEF EndsJob
    <2>2. /\ tasks'[t] = Idle(phase) /\ \A u \in Task \ {t} : tasks'[u] = tasks[u]
          /\ loop' \in Task => loop' = t /\ Idle(phase).queue = <<>>
      BY <2>1, BecameOr
    <2>3. Idle(phase).phase = phase
      BY DEF Idle, Job
    <2> QED
      BY <1>0, <1>1, <2>1, <2>2, <2>3 DEF Places, ForInitialize, Serving
  <1>8. ASSUME NEW t \in Task, NEW phase \in Phases, NEW q \in Seq(Items), GoesOn(t, phase, q)
        PROVE  Places'
    <2> DEFINE j == tasks[t]
               job == Job(phase, j.call, j.ex, j.fault, q)
    <2>1. Become(t, job) /\ j.phase \in Serving /\ job.phase = phase /\ job.call = j.call
      BY <1>8 DEF GoesOn, Stage, Job
    <2> HIDE DEF job
    <2>2. /\ tasks'[t] = job /\ \A u \in Task \ {t} : tasks'[u] = tasks[u]
          /\ loop' \in Task => loop' = t /\ job.queue = <<>>
      BY <2>1, BecameOr
    <2>3. t # Main => phase \in {"reply", "after"}
      BY <1>8 DEF GoesOn, Places
    <2>4. /\ t = Main => phase # "gate"
          /\ t = Main /\ phase \in {"leading", "initialize"} => ForInitialize(Main)
      BY <1>8 DEF GoesOn, Places
    <2> QED
      BY <1>0, <1>1, <2>1, <2>2, <2>3, <2>4 DEF Places, ForInitialize, Serving
  <1> QED
    BY <1>2, <1>3, <1>4, <1>5, <1>6, <1>7, <1>8, Steps

LEMMA RequestOfResponse ==
    ASSUME UniqueIds, Rest, NEW ex \in Exchanges(cassette), Response(cassette, ex) # None
    PROVE  RequestOf(Response(cassette, ex)) = ex
  <1> DEFINE S == {e \in Exchanges(cassette) : Response(cassette, e) = Response(cassette, ex)}
  <1>1. cassette \in Seq({cassette[k] : k \in DOMAIN cassette})
    BY ReplayIsTyped DEF IsSeq
  <1>2. \A e \in S : e = ex
    <2> TAKE e \in S
    <2>1. cassette[Response(cassette, ex)].id = cassette[ex].id
      BY <1>1, ResponseBelongs
    <2>2. cassette[Response(cassette, e)].id = cassette[e].id
      BY <1>1, ResponseBelongs
    <2> QED
      BY <2>1, <2>2 DEF UniqueIds, Rest, cassette
  <1>3. S \in SUBSET Nat /\ ex \in S
    BY ReplayIsTyped DEF Exchanges, Sent
  <1> HIDE DEF S
  <1>4. First(S) = ex
    BY <1>2, <1>3, FirstOf
  <1> QED
    BY <1>4 DEF RequestOf, S

\* A step that makes the call n one that is served with ex.
Serves(n, ex) ==
    \/ HandleHit(n) /\ ex = Match(n)
    \/ HandleInitialize(n) /\ ex = Initialize /\ Response(cassette, ex) # None

LEMMA SetupStays == [Next]_vars => setup' = setup /\ used \subseteq used'
  BY DEF Next, vars, Client, Handle, MainStep, Send, TaskStep, ClientCall, ClientAnswer,
     ClientLeave, HandleInitialize, HandleHit, HandleMiss, OnAnswer, Eof, StartReply, Defer,
     Greet, Stop, Write, Resume, SendFails, PassGate, Disconnect, SendAsks, Done, Cancel, Exit,
     Consume, matcher

\* What is served was served before, or is from now on.
LEMMA ServedBefore ==
    ASSUME UniqueIds, Rest, TasksOK, Places, Lines, ServeInv, [Next]_vars,
           NEW n, NEW ex, Served(n, ex)'
    PROVE  \/ Served(n, ex)
           \/ n \in 1..MaxCalls /\ Serves(n, ex)
  <1>0. /\ setup' = setup /\ Main \in Task /\ tasks \in [Task -> Jobs]
        /\ cassette' = cassette
    BY SetupStays, MainIsATask DEF TasksOK, cassette
  <1>1. ASSUME shown' = shown, Showed(n, ex)' PROVE Served(n, ex)
    BY <1>0, <1>1 DEF Served, Showed, Responses, RequestOf
  <1>2. ASSUME \A u \in Task : tasks'[u].phase \in Serving =>
                  \E t \in Task : /\ tasks[t].phase \in Serving
                                  /\ tasks[t].call = tasks'[u].call /\ tasks[t].ex = tasks'[u].ex,
               Runs(n, ex)'
        PROVE  Served(n, ex)
    BY <1>2 DEF Served, Runs
  <1>3. CASE Elsewhere
    BY <1>1, <1>2, <1>3 DEF Elsewhere, Served
  <1>4. CASE Defer
    <2> DEFINE j == tasks[Main]
               k == [j EXCEPT !.phase = "gate"]
    <2>1. /\ tasks' = [tasks EXCEPT ![Main] = Idle("read"), ![j.call] = k]
          /\ j.phase = "during" /\ shown' = shown
      BY <1>4 DEF Defer, At
    <2>2. j \in Jobs
      BY <1>0
    <2>3. k.call = j.call /\ k.ex = j.ex
      BY <2>2 DEF Jobs
    <2> HIDE DEF k, j
    <2>4. \A u \in Task : tasks'[u] \in {k, Idle("read"), tasks[u]}
      BY <1>0, <2>1
    <2>5. Idle("read").phase \notin Serving
      BY DEF Idle, Job, Serving
    <2>6. j.phase \in Serving /\ Main \in Task
      BY <1>0, <2>1 DEF Serving
    <2>7. \A u \in Task : tasks'[u].phase \in Serving =>
             \E t \in Task : /\ tasks[t].phase \in Serving
                             /\ tasks[t].call = tasks'[u].call /\ tasks[t].ex = tasks'[u].ex
      BY <2>3, <2>4, <2>5, <2>6 DEF j
    <2> QED
      BY <1>1, <1>2, <2>1, <2>7 DEF Served
  <1>5. ASSUME NEW m \in 1..MaxCalls, HandleInitialize(m) \/ HandleHit(m) \/ HandleMiss(m)
        PROVE  Served(n, ex) \/ (n \in 1..MaxCalls /\ Serves(n, ex))
    <2>1. shown' = shown
      BY <1>5 DEF HandleInitialize, HandleHit, HandleMiss
    <2>2. PICK job : /\ Become(Main, job)
                     /\ job.phase \in Serving => Serves(job.call, job.ex) /\ job.call = m
      <3>1. CASE HandleInitialize(m)
        <4>1. CASE Response(cassette, Initialize) # None
          <5> DEFINE fault == FaultFor("initialize")
                     job == Job("reply", m, Initialize, fault, Reply(m, Initialize, fault))
          <5>1. Become(Main, job)
            BY <3>1, <4>1 DEF HandleInitialize
          <5>2. Serves(job.call, job.ex) /\ job.call = m
            BY <3>1, <4>1 DEF Serves, Job
          <5> HIDE DEF job
          <5> QED
            BY <5>1, <5>2
        <4>2. CASE Response(cassette, Initialize) = None
          BY <3>1, <4>2 DEF HandleInitialize, Missed, Serving, Job
        <4> QED
          BY <4>1, <4>2
      <3>2. CASE HandleHit(m)
        <4> DEFINE job == Job("during", m, Match(m), FaultFor(sent[m].method), Ask(Match(m), "during"))
        <4>1. Become(Main, job)
          BY <3>2 DEF HandleHit
        <4>2. Serves(job.call, job.ex) /\ job.call = m
          BY <3>2 DEF Serves, Job
        <4> HIDE DEF job
        <4> QED
          BY <4>1, <4>2
      <3>3. CASE HandleMiss(m)
        BY <3>3 DEF HandleMiss, Missed, Serving, Job
      <3> QED
        BY <1>5, <3>1, <3>2, <3>3
    <2>3. tasks'[Main] = job /\ \A u \in Task \ {Main} : tasks'[u] = tasks[u]
      BY <1>0, <2>2, BecameOr
    <2>4. CASE Showed(n, ex)'
      BY <1>1, <2>1, <2>4
    <2>5. CASE Runs(n, ex)'
      <3>1. PICK u \in Task : tasks'[u].phase \in Serving /\ tasks'[u].call = n /\ tasks'[u].ex = ex
        BY <2>5 DEF Runs
      <3>2. CASE u = Main
        <4>1. job.call = n /\ job.ex = ex /\ n = m
          BY <2>2, <2>3, <3>1, <3>2
        <4>2. Serves(n, ex)
          BY <2>2, <2>3, <3>1, <3>2, <4>1
        <4> QED
          BY <1>5, <4>1, <4>2
      <3>3. CASE u # Main
        BY <2>3, <3>1, <3>3 DEF Served, Runs
      <3> QED
        BY <3>2, <3>3
    <2> QED
      BY <2>4, <2>5 DEF Served
  <1>6. ASSUME NEW t \in Task, Write(t) PROVE Served(n, ex)
    <2> DEFINE q == tasks[t].queue
    <2>1. /\ shown' = Append(shown, Head(q)) /\ q # <<>>
          /\ tasks' = [tasks EXCEPT ![t].writing = TRUE]
      BY <1>6 DEF Write
    <2>2. \A u \in Task : /\ tasks'[u].phase = tasks[u].phase /\ tasks'[u].call = tasks[u].call
                          /\ tasks'[u].ex = tasks[u].ex
      BY <1>0, <2>1 DEF Jobs
    <2>3. CASE Runs(n, ex)'
      BY <1>2, <2>2, <2>3
    <2>4. CASE Showed(n, ex)'
      <3>1. PICK k \in Responses' : shown'[k].call = n /\ RequestOf(shown'[k].seq) = ex
        BY <1>0, <2>4 DEF Showed, RequestOf
      <3>2. q \in Seq(Items) /\ shown \in Seq(Items)
        BY <1>0, <1>6 DEF Jobs, Rest
      <3>3. Head(q) = q[1] /\ Head(q) \in Items /\ 1 \in DOMAIN q
        BY <2>1, <3>2, HeadAndTail
      <3>4. \/ k \in DOMAIN shown /\ shown'[k] = shown[k]
            \/ shown'[k] = Head(q)
        BY <2>1, <3>1, <3>2, <3>3, Appended DEF Responses
      <3>5. CASE k \in DOMAIN shown /\ shown'[k] = shown[k]
        BY <3>1, <3>5 DEF Served, Showed, Responses
      <3>6. CASE shown'[k] = Head(q)
        <4>1. q[1].what = "response"
          BY <3>1, <3>3, <3>6 DEF Responses
        <4>2. /\ tasks[t].phase = "reply" /\ q[1].call = tasks[t].call
              /\ q[1].seq = Response(cassette, tasks[t].ex)
          BY <3>3, <4>1 DEF Lines, LineOK, Replies
        <4>3. RequestOf(Response(cassette, tasks[t].ex)) = tasks[t].ex
          <5>1. tasks[t].ex \in Exchanges(cassette) /\ Response(cassette, tasks[t].ex) # None
            BY <4>2, WhatRuns DEF Serving
          <5> QED
            BY <5>1, RequestOfResponse
        <4> QED
          BY <3>1, <3>3, <3>6, <4>2, <4>3 DEF Served, Runs, Serving
      <3> QED
        BY <3>4, <3>5, <3>6
    <2> QED
      BY <2>3, <2>4 DEF Served
  <1>7. ASSUME NEW t \in Task, Resume(t) PROVE Served(n, ex)
    <2> DEFINE j == tasks[t]
               job == [j EXCEPT !.queue = Tail(@), !.writing = FALSE]
    <2>1. Become(t, job) /\ j \in Jobs /\ shown' = shown
      BY <1>0, <1>7 DEF Resume
    <2>2. job.phase = j.phase /\ job.call = j.call /\ job.ex = j.ex
      BY <2>1 DEF Jobs
    <2> HIDE DEF job
    <2>3. tasks'[t] = job /\ \A u \in Task \ {t} : tasks'[u] = tasks[u]
      BY <2>1, BecameOr
    <2> QED
      BY <1>1, <1>2, <2>1, <2>2, <2>3 DEF Served
  <1>8. ASSUME NEW t \in Task, EndsJob(t) PROVE Served(n, ex)
    <2>1. PICK phase \in {"read", "idle", "end"} : Become(t, Idle(phase))
      BY <1>8 DEF EndsJob
    <2>2. tasks'[t] = Idle(phase) /\ \A u \in Task \ {t} : tasks'[u] = tasks[u]
      BY <2>1, BecameOr
    <2>3. Idle(phase).phase \notin Serving /\ shown' = shown
      BY <1>8 DEF EndsJob, Idle, Job, Serving
    <2> QED
      BY <1>1, <1>2, <2>2, <2>3 DEF Served
  <1>9. ASSUME NEW t \in Task, NEW phase \in Phases, NEW q \in Seq(Items), GoesOn(t, phase, q)
        PROVE  Served(n, ex)
    <2> DEFINE j == tasks[t]
               job == Job(phase, j.call, j.ex, j.fault, q)
    <2>1. /\ Become(t, job) /\ j.phase \in Serving /\ shown' = shown
          /\ job.call = j.call /\ job.ex = j.ex
      BY <1>9 DEF GoesOn, Stage, Job
    <2> HIDE DEF job
    <2>2. tasks'[t] = job /\ \A u \in Task \ {t} : tasks'[u] = tasks[u]
      BY <2>1, BecameOr
    <2> QED
      BY <1>1, <1>2, <2>1, <2>2 DEF Served
  <1> QED
    BY <1>3, <1>4, <1>5, <1>6, <1>7, <1>8, <1>9, Steps

\* A call that starts to be served is later than all that were, and gets the first
\* recording of it that is left.
LEMMA StartsToBeServed ==
    ASSUME Rest, CallInv, NEW n \in 1..MaxCalls, NEW ex, Serves(n, ex)
    PROVE  /\ Takes(n) /\ sent' = sent /\ n \in DOMAIN sent
           /\ ex \in Exchanges(cassette) /\ Response(cassette, ex) # None /\ Recorded(sent[n], ex)
           /\ ~IsInitialize(sent[n]) /\ ordering # "none" =>
                 /\ ex \notin used /\ used' = used \cup {ex} /\ cassette[ex].call = sent[n]
                 /\ \A e \in Exchanges(cassette) \ used : cassette[e].call = sent[n] => ex <= e
  <1>0. /\ cassette \in Seq({cassette[k] : k \in DOMAIN cassette})
        /\ ordering \in {"per_method", "strict", "none"}
    BY ReplayIsTyped DEF IsSeq
  <1>1. Takes(n) /\ sent' = sent
    BY DEF Serves, HandleHit, HandleInitialize, world
  <1>2. n \in DOMAIN sent
    BY <1>1, TakesTheNext
  <1>3. CASE HandleHit(n) /\ ex = Match(n)
    <2>1. Response(cassette, ex) # None /\ ~IsInitialize(sent[n])
          /\ used' = Consume(used, ex, ordering)
      BY <1>3 DEF HandleHit
    <2>2. ex # None
      BY <1>0, <2>1, ResponseBelongs
    <2>3. ex \in Exchanges(cassette) /\ cassette[ex].call = sent[n]
          /\ (ordering # "none" => ex \notin used)
      BY <1>0, <1>3, <2>2, MatchIsRecordedAndFresh DEF Match
    <2>4. ordering # "none" =>
             \A e \in Exchanges(cassette) \ used : cassette[e].call = sent[n] => ex <= e
      <3>1. SUFFICES ASSUME ordering # "none"
                     PROVE  \A e \in Exchanges(cassette) \ used :
                                cassette[e].call = sent[n] => ex <= e
        OBVIOUS
      <3>2. ordering \in {"per_method", "strict"} /\ Lookup(cassette, used, sent[n], ordering) # None
        BY <1>0, <1>3, <2>2, <3>1 DEF Match
      <3> QED
        BY <1>0, <1>3, <2>1, <3>2, MatchIsTheFirst DEF Match
    <2> QED
      BY <1>1, <1>2, <2>1, <2>3, <2>4 DEF Recorded, Consume
  <1>4. CASE HandleInitialize(n) /\ ex = Initialize /\ Response(cassette, ex) # None
    <2> DEFINE S == {e \in Exchanges(cassette) : IsInitialize(cassette[e].call)}
    <2>1. ex # None
      BY <1>0, <1>4, ResponseBelongs
    <2>2. S \in SUBSET Nat
      BY ReplayIsTyped DEF Exchanges, Sent
    <2>3. Initialize \in S \cup {None}
      <3>1. Initialize = First(S)
        BY DEF Initialize
      <3> HIDE DEF S
      <3> QED
        BY <2>2, <3>1, FirstOf
    <2>4. IsInitialize(sent[n])
      BY <1>4 DEF HandleInitialize
    <2> QED
      BY <1>1, <1>2, <1>4, <2>1, <2>3, <2>4 DEF Recorded
  <1> QED
    BY <1>3, <1>4 DEF Serves

LEMMA ServeStep ==
    ASSUME UniqueIds, Rest, TasksOK, CallInv, Places, Lines, ServeInv, [Next]_vars
    PROVE  ServeInv'
  <1>0. cassette' = cassette /\ ordering' = ordering /\ used \subseteq used'
    BY SetupStays DEF cassette, ordering
  <1>1. \A n \in Task : /\ n \in DOMAIN sent /\ \A k \in Pending : n < stdin[k].of
                        => /\ n \in DOMAIN sent' /\ sent'[n] = sent[n]
                           /\ \A k \in Pending' : n < stdin'[k].of
    BY TakenStays
  <1>2. \A n \in 1..MaxCalls : n \in Task
    BY DEF Task
  <1>3. ASSUME NEW n \in Task, NEW ex \in Nat, Served(n, ex)'
        PROVE  /\ n \in DOMAIN sent' /\ ex \in Exchanges(cassette) /\ Response(cassette, ex) # None
               /\ \/ cassette[ex].call = sent'[n]
                  \/ IsInitialize(cassette[ex].call) /\ IsInitialize(sent'[n])
               /\ \A k \in Pending' : n < stdin'[k].of
               /\ UsedUp(n, ex)'
    <2>1. CASE Served(n, ex)
      <3>1. /\ n \in DOMAIN sent /\ ex \in Exchanges(cassette) /\ Response(cassette, ex) # None
            /\ Recorded(sent[n], ex) /\ \A k \in Pending : n < stdin[k].of
            /\ UsedUp(n, ex)
        BY <2>1 DEF ServeInv
      <3>2. /\ n \in DOMAIN sent' /\ sent'[n] = sent[n] /\ \A k \in Pending' : n < stdin'[k].of
        BY <1>1, <3>1
      <3>3. UsedUp(n, ex)'
        BY <1>0, <3>1, <3>2 DEF UsedUp
      <3> QED
        BY <3>1, <3>2, <3>3 DEF Recorded
    <2>2. CASE n \in 1..MaxCalls /\ Serves(n, ex)
      <3>1. \A k \in Pending' : n < stdin'[k].of
        BY <2>2, StartsToBeServed, TakesTheNext
      <3>2. /\ sent' = sent /\ n \in DOMAIN sent
            /\ ex \in Exchanges(cassette) /\ Response(cassette, ex) # None /\ Recorded(sent[n], ex)
        BY <2>2, StartsToBeServed
      <3>3. ~IsInitialize(sent[n]) /\ ordering # "none" =>
              /\ used' = used \cup {ex}
              /\ \A e \in Exchanges(cassette) \ used : cassette[e].call = sent[n] => ex <= e
        BY <2>2, StartsToBeServed
      <3>4. Exchanges(cassette) \subseteq Nat
        BY ReplayIsTyped DEF Exchanges, Sent
      <3>5. UsedUp(n, ex)'
        BY <1>0, <3>2, <3>3, <3>4 DEF UsedUp
      <3> QED
        BY <3>1, <3>2, <3>5 DEF Recorded
    <2> QED
      BY <1>3, <2>1, <2>2, ServedBefore
  <1>4. ASSUME NEW m \in Task, NEW n \in Task, NEW ex \in Nat, NEW fx \in Nat,
               Served(m, ex)', Served(n, fx)', m < n, sent'[m] = sent'[n],
               ~IsInitialize(sent'[m]), ordering # "none"
        PROVE  ex < fx
    <2>1. CASE Served(m, ex) /\ Served(n, fx)
      <3>1. sent'[m] = sent[m] /\ sent'[n] = sent[n]
        BY <1>1, <2>1 DEF ServeInv
      <3> QED
        BY <1>4, <2>1, <3>1 DEF ServeInv
    <2>2. CASE Served(m, ex) /\ n \in 1..MaxCalls /\ Serves(n, fx)
      <3>1. /\ sent' = sent /\ fx \in Exchanges(cassette) \ used /\ cassette[fx].call = sent[n]
        BY <1>4, <2>2, StartsToBeServed
      <3>2. UsedUp(m, ex)
        BY <2>2 DEF ServeInv
      <3> QED
        BY <1>4, <3>1, <3>2 DEF UsedUp
    <2>3. CASE m \in 1..MaxCalls /\ Serves(m, ex) /\ Served(n, fx)
      <3>1. Takes(m) /\ \A k \in Pending : n < stdin[k].of
        BY <2>3, StartsToBeServed DEF ServeInv
      <3>2. n < m
        BY <3>1, TakenAfter
      <3> QED
        BY <1>4, <3>2 DEF Task
    <2>4. CASE m \in 1..MaxCalls /\ n \in 1..MaxCalls /\ Serves(m, ex) /\ Serves(n, fx)
      <3>1. Takes(m) /\ Takes(n)
        BY <2>4, StartsToBeServed
      <3>2. m = n
        BY <3>1 DEF Takes, Call
      <3> QED
        BY <1>4, <3>2 DEF Task
    <2> QED
      BY <1>4, <2>1, <2>2, <2>3, <2>4, ServedBefore
  <1> QED
    BY <1>0, <1>3, <1>4 DEF ServeInv, Recorded

-----------------------------------------------------------------------------
(* What the server asks *)

\* What a task is going to ask belongs to its exchange and to what it is doing, and was
\* not asked yet.
AskLine(j, c, asked) ==
    /\ \A i \in DOMAIN j.queue :
          /\ j.queue[i].seq \in Asks(c) \ asked /\ Trigger(c, j.queue[i].seq) = j.phase
          /\ Anchor(c, j.queue[i].seq) = IF j.phase = "initialize" THEN None ELSE j.ex
    /\ \A i, k \in DOMAIN j.queue : i < k => j.queue[i].seq < j.queue[k].seq

\* What was asked was marked as emitted, or its send has not returned.
AskInv ==
    /\ ordering # "none" =>
          \A t \in Task : tasks[t].phase \in Asking => AskLine(tasks[t], cassette, emitted)
    /\ \A k \in DOMAIN shown : shown[k].what = "ask" =>
          \/ shown[k].seq \in emitted
          \/ \E t \in Task : tasks[t].writing /\ Head(tasks[t].queue) = shown[k]
    /\ AskedOnce

\* No two tasks serve one exchange.
LEMMA TasksDiffer ==
    ASSUME TasksOK, Places, ServeInv, ordering # "none",
           NEW t \in Task, tasks[t].phase \in Serving, t # Main,
           NEW u \in Task, tasks[u].phase \in Serving, u # t
    PROVE  tasks[t].ex # tasks[u].ex
  <1> DEFINE m == tasks[t].call
             n == tasks[u].call
             ex == tasks[t].ex
  <1>1. SUFFICES ASSUME tasks[u].ex = ex PROVE FALSE
    OBVIOUS
  <1>2. /\ m \in Task /\ ex \in Nat /\ Served(m, ex) /\ Recorded(sent[m], ex)
        /\ n \in Task /\ Served(n, ex) /\ Recorded(sent[n], ex)
    BY <1>1, WhatRuns
  <1>3. m # n /\ ~IsInitialize(sent[m])
    <2>1. m = t /\ ~IsInitialize(sent[m]) /\ (tasks[Main].phase \in Serving => t < tasks[Main].call)
      BY DEF Places
    <2>2. u # Main => n = u
      BY DEF Places
    <2>3. \A x \in Nat : ~(x < x)
      OBVIOUS
    <2> QED
      BY <2>1, <2>2, <2>3 DEF Task
  <1>4. sent[m] = sent[n]
    BY <1>2, <1>3 DEF Recorded
  <1>5. m < n \/ n < m
    BY <1>2, <1>3 DEF Task
  <1> HIDE DEF m, n, ex
  <1>6. ex < ex
    BY <1>2, <1>3, <1>4, <1>5 DEF ServeInv
  <1> QED
    BY <1>2, <1>6

\* So no two of them ask the same.
LEMMA AsksDiffer ==
    ASSUME Rest, TasksOK, Places, ServeInv, AskInv, ordering # "none",
           NEW t \in Task, tasks[t].phase \in Asking, NEW u \in Task, tasks[u].phase \in Asking,
           NEW i \in DOMAIN tasks[t].queue, NEW k \in DOMAIN tasks[u].queue,
           tasks[t].queue[i].seq = tasks[u].queue[k].seq
    PROVE  t = u
  <1>1. SUFFICES ASSUME t # u PROVE FALSE
    OBVIOUS
  <1>2. AskLine(tasks[t], cassette, emitted) /\ AskLine(tasks[u], cassette, emitted)
    BY DEF AskInv
  <1>3. tasks[t].phase = tasks[u].phase
    BY <1>2 DEF AskLine
  <1>4. tasks[t].phase # "initialize"
    BY <1>1, <1>3 DEF Places
  <1>5. tasks[t].ex = tasks[u].ex
    BY <1>2, <1>3, <1>4 DEF AskLine
  <1>6. t # Main \/ u # Main
    BY <1>1
  <1> QED
    BY <1>1, <1>5, <1>6, TasksDiffer DEF Serving, Asking

\* A new line of asks.
LEMMA AsksAreDue ==
    ASSUME Rest, NEW phase \in Asking, NEW n, NEW ex, NEW fault, NEW q,
           \/ phase = "initialize" /\ q = Ask(None, "initialize")
           \/ phase \in {"during", "after"} /\ q = Ask(ex, phase)
    PROVE  AskLine(Job(phase, n, ex, fault, q), cassette, emitted)
  <1>1. CASE phase = "initialize" /\ q = Ask(None, "initialize")
    BY <1>1, AskItems DEF AskLine, Job
  <1>2. CASE phase \in {"during", "after"} /\ q = Ask(ex, phase)
    BY <1>2, AskItems DEF AskLine, Job
  <1> QED
    BY <1>1, <1>2

\* A task that was not in a send becomes something else.
LEMMA AskKept ==
    ASSUME TasksOK, AskInv, UNCHANGED <<setup, shown, emitted>>,
           \A u \in Task :
              \/ tasks'[u] = tasks[u]
              \/ /\ ~tasks[u].writing
                 /\ tasks'[u].phase \in Asking => AskLine(tasks'[u], cassette, emitted)
    PROVE  AskInv'
  <1>1. cassette' = cassette /\ ordering' = ordering
    BY DEF cassette, ordering
  <1>2. SUFFICES /\ ordering # "none" => \A t \in Task : tasks'[t].phase \in Asking =>
                       AskLine(tasks'[t], cassette, emitted)
                 /\ \A k \in DOMAIN shown : shown[k].what = "ask" =>
                       \/ shown[k].seq \in emitted
                       \/ \E t \in Task : tasks'[t].writing /\ Head(tasks'[t].queue) = shown[k]
                 /\ AskedOnce
    BY <1>1 DEF AskInv, AskedOnce
  <1>3. ordering # "none" =>
          \A t \in Task : tasks'[t].phase \in Asking => AskLine(tasks'[t], cassette, emitted)
    BY DEF AskInv
  <1>4. \A t \in Task : tasks[t].writing => tasks'[t] = tasks[t]
    OBVIOUS
  <1> QED
    BY <1>3, <1>4 DEF AskInv

LEMMA AskStep ==
    ASSUME Rest, TasksOK, CallInv, Places, Lines, ServeInv, AskInv, [Next]_vars
    PROVE  AskInv'
  <1>0. /\ Main \in Task /\ tasks \in [Task -> Jobs] /\ cassette' = cassette /\ ordering' = ordering
        /\ setup' = setup
        /\ \A t \in Task : tasks[t].writing => tasks[t].queue # <<>>
        /\ \A t \in Task : tasks[t].queue \in Seq(Items)
    BY SetupStays, MainIsATask DEF TasksOK, JobOK, Jobs, cassette, ordering
  <1>1. \A t \in Task : tasks[t].phase \in {"read", "idle", "end", "gate"} => ~tasks[t].writing
    <2> TAKE t \in Task
    <2>1. tasks[t].writing => 1 \in DOMAIN tasks[t].queue
      BY <1>0, HeadAndTail
    <2> QED
      BY <2>1 DEF Lines, LineOK, Asking
  <1>2. CASE Elsewhere
    BY <1>2, AskKept DEF Elsewhere
  <1>3. CASE Defer
    <2> DEFINE j == tasks[Main]
               k == [j EXCEPT !.phase = "gate"]
    <2>1. /\ tasks' = [tasks EXCEPT ![Main] = Idle("read"), ![j.call] = k]
          /\ loop = Main /\ j.phase = "during" /\ UNCHANGED <<setup, shown, emitted>>
      BY <1>3 DEF Defer, At, tracker
    <2>2. ~j.writing /\ k.phase = "gate" /\ Idle("read").phase = "read"
      BY <1>0, <2>1 DEF Places, Jobs, Idle, Job
    <2>3. ~tasks[j.call].writing /\ j.call \in Task
      <3>1. j.call \in Task /\ j.call \in DOMAIN sent
        BY <1>0, <2>1, WhatRuns DEF Serving
      <3>2. j.call # Main
        BY <3>1 DEF Rest, Main
      <3>3. tasks[j.call].phase \notin Serving
        <4>1. \A x \in Nat : ~(x < x)
          OBVIOUS
        <4> QED
          BY <2>1, <3>1, <3>2, <4>1 DEF Places, Serving, Task
      <3>4. tasks[j.call].phase \in {"idle", "end"}
        BY <3>1, <3>2, <3>3 DEF Places, Serving
      <3> QED
        BY <1>1, <3>1, <3>4
    <2> HIDE DEF k
    <2>4. \A u \in Task : tasks'[u] = tasks[u] \/ (~tasks[u].writing /\ tasks'[u].phase \notin Asking)
      <3> TAKE u \in Task
      <3>1. tasks'[u] \in {k, Idle("read")} \/ (tasks'[u] = tasks[u])
        BY <1>0, <2>1
      <3>2. u \notin {Main, j.call} => tasks'[u] = tasks[u]
        BY <1>0, <2>1
      <3> QED
        BY <2>2, <2>3, <3>1, <3>2 DEF Asking
    <2> QED
      BY <2>1, <2>4, AskKept
  <1>4. ASSUME NEW n \in 1..MaxCalls, HandleInitialize(n) \/ HandleHit(n) \/ HandleMiss(n)
        PROVE  AskInv'
    <2>1. tasks[Main].phase = "read" /\ UNCHANGED <<setup, shown, emitted>>
      BY <1>4 DEF HandleInitialize, HandleHit, HandleMiss, Takes, AtRead, tracker
    <2>2. PICK job : /\ Become(Main, job)
                     /\ job.phase \in Asking => AskLine(job, cassette, emitted)
      <3>1. CASE HandleInitialize(n)
        <4> DEFINE hit == Job("reply", n, Initialize, FaultFor("initialize"),
                              Reply(n, Initialize, FaultFor("initialize")))
                   miss == Job("miss", n, Initialize, "none", <<Item("miss", n, None)>>)
        <4>1. Become(Main, hit) \/ Become(Main, miss)
          BY <3>1 DEF HandleInitialize, Missed
        <4>2. hit.phase = "reply" /\ miss.phase = "miss"
          BY DEF Job
        <4> HIDE DEF hit, miss
        <4> QED
          BY <4>1, <4>2 DEF Asking
      <3>2. CASE HandleHit(n)
        <4> DEFINE job == Job("during", n, Match(n), FaultFor(sent[n].method), Ask(Match(n), "during"))
        <4>1. Become(Main, job)
          BY <3>2 DEF HandleHit
        <4>2. AskLine(job, cassette, emitted)
          BY AsksAreDue DEF Asking
        <4> HIDE DEF job
        <4> QED
          BY <4>1, <4>2
      <3>3. CASE HandleMiss(n)
        <4> DEFINE miss == Job("miss", n, Match(n), "none", <<Item("miss", n, None)>>)
        <4>1. Become(Main, miss)
          BY <3>3 DEF HandleMiss, Missed
        <4>2. miss.phase = "miss"
          BY DEF Job
        <4> HIDE DEF miss
        <4> QED
          BY <4>1, <4>2 DEF Asking
      <3> QED
        BY <1>4, <3>1, <3>2, <3>3
    <2>3. tasks'[Main] = job /\ \A u \in Task \ {Main} : tasks'[u] = tasks[u]
      BY <1>0, <2>2, BecameOr
    <2> QED
      BY <1>0, <1>1, <2>1, <2>2, <2>3, AskKept
  <1>5. ASSUME NEW t \in Task, EndsJob(t) PROVE AskInv'
    <2>1. PICK phase \in {"read", "idle", "end"} : Become(t, Idle(phase))
      BY <1>5 DEF EndsJob
    <2>2. tasks'[t] = Idle(phase) /\ \A u \in Task \ {t} : tasks'[u] = tasks[u]
      BY <2>1, BecameOr
    <2>3. Idle(phase).phase \notin Asking
      BY DEF Idle, Job, Asking
    <2> QED
      BY <1>5, <2>2, <2>3, AskKept DEF EndsJob
  <1>6. ASSUME NEW t \in Task, NEW phase \in Phases, NEW q \in Seq(Items), GoesOn(t, phase, q)
        PROVE  AskInv'
    <2> DEFINE j == tasks[t]
               job == Job(phase, j.call, j.ex, j.fault, q)
    <2>1. Become(t, job) /\ ~j.writing /\ job.phase = phase /\ UNCHANGED <<setup, shown, emitted>>
      BY <1>6 DEF GoesOn, Stage, Job
    <2>2. phase \in Asking => AskLine(job, cassette, emitted)
      <3>1. phase \in Asking =>
              \/ phase = "initialize" /\ q = Ask(None, "initialize")
              \/ phase \in {"during", "after"} /\ q = Ask(j.ex, phase)
        BY <1>6 DEF GoesOn, Asking
      <3> QED
        BY <3>1, AsksAreDue
    <2> HIDE DEF job
    <2>3. tasks'[t] = job /\ \A u \in Task \ {t} : tasks'[u] = tasks[u]
      BY <2>1, BecameOr
    <2> QED
      BY <2>1, <2>2, <2>3, AskKept
  <1>7. ASSUME NEW t \in Task, Write(t) PROVE AskInv'
    <2> DEFINE q == tasks[t].queue
    <2>1. /\ shown' = Append(shown, Head(q)) /\ q # <<>> /\ emitted' = emitted
          /\ tasks' = [tasks EXCEPT ![t].writing = TRUE] /\ \A u \in Task : ~tasks[u].writing
      BY <1>7 DEF Write, LockFree, tracker
    <2>2. \A u \in Task : /\ tasks'[u].phase = tasks[u].phase /\ tasks'[u].queue = tasks[u].queue
                          /\ tasks'[u].ex = tasks[u].ex
      BY <1>0, <2>1 DEF Jobs
    <2>3. tasks'[t].writing
      BY <1>0, <1>7, <2>1
    <2>4. shown \in Seq(Items) /\ q[1] = Head(q) /\ 1 \in DOMAIN q /\ Head(q) \in Items
      BY <1>0, <2>1, HeadAndTail DEF Rest
    <2>5. \A k \in DOMAIN shown' : \/ k \in DOMAIN shown /\ shown'[k] = shown[k]
                                   \/ k = Len(shown) + 1 /\ shown'[k] = Head(q)
      BY <2>1, <2>4, Appended
    <2>6. ordering # "none" =>
            \A u \in Task : tasks'[u].phase \in Asking => AskLine(tasks'[u], cassette, emitted)
      BY <2>2 DEF AskInv, AskLine
    <2>7. \A k \in DOMAIN shown : shown[k].what = "ask" => shown[k].seq \in emitted
      BY <2>1 DEF AskInv
    <2>8. ordering # "none" /\ Head(q).what = "ask" => Head(q).seq \notin emitted
      BY <2>4 DEF AskInv, AskLine, Lines, LineOK
    <2>9. AskedOnce'
      BY <1>0, <2>5, <2>7, <2>8 DEF AskInv, AskedOnce
    <2>10. \A k \in DOMAIN shown' : shown'[k].what = "ask" =>
              \/ shown'[k].seq \in emitted
              \/ \E u \in Task : tasks'[u].writing /\ Head(tasks'[u].queue) = shown'[k]
      BY <1>7, <2>2, <2>3, <2>5, <2>7
    <2> QED
      BY <1>0, <2>1, <2>6, <2>9, <2>10 DEF AskInv
  <1>8. ASSUME NEW t \in Task, Resume(t) PROVE AskInv'
    <2> DEFINE j == tasks[t]
               h == Head(j.queue)
               job == [j EXCEPT !.queue = Tail(@), !.writing = FALSE]
    <2>1. /\ Become(t, job) /\ j \in Jobs /\ j.queue # <<>> /\ UNCHANGED <<setup, shown>>
          /\ emitted' = IF h.what = "ask" THEN emitted \cup {h.seq} ELSE emitted
      BY <1>0, <1>8 DEF Resume
    <2>2. job.phase = j.phase /\ job.ex = j.ex /\ job.queue = Tail(j.queue)
      BY <2>1 DEF Jobs
    <2>3. /\ h = j.queue[1] /\ 1 \in DOMAIN j.queue /\ DOMAIN j.queue \subseteq Nat
          /\ \A k \in DOMAIN Tail(j.queue) : /\ k + 1 \in DOMAIN j.queue /\ 1 < k + 1
                                             /\ Tail(j.queue)[k] = j.queue[k + 1]
      BY <1>0, <2>1, HeadAndTail
    <2>4. h.what = "ask" <=> j.phase \in Asking
      BY <2>3 DEF Lines, LineOK
    <2> HIDE DEF job
    <2>5. tasks'[t] = job /\ \A u \in Task \ {t} : tasks'[u] = tasks[u]
      BY <2>1, BecameOr
    <2>6. SUFFICES /\ ordering # "none" => \A u \in Task : tasks'[u].phase \in Asking =>
                         AskLine(tasks'[u], cassette, emitted')
                   /\ \A k \in DOMAIN shown : shown[k].what = "ask" =>
                         \/ shown[k].seq \in emitted'
                         \/ \E u \in Task : /\ tasks'[u].writing
                                            /\ Head(tasks'[u].queue) = shown[k]
                   /\ AskedOnce
      BY <1>0, <2>1 DEF AskInv, AskedOnce
    <2>7. ASSUME ordering # "none", j.phase \in Asking PROVE AskLine(job, cassette, emitted')
      <3>1. AskLine(j, cassette, emitted) /\ emitted' = emitted \cup {h.seq}
        BY <2>1, <2>4, <2>7 DEF AskInv
      <3>2. \A k \in DOMAIN Tail(j.queue) : Tail(j.queue)[k].seq # h.seq
        <4>1. \A s \in Asks(cassette) : s \in Nat
          BY ReplayIsTyped DEF Asks, Sent
        <4> QED
          BY <2>3, <3>1, <4>1 DEF AskLine
      <3>3. \A i, k \in DOMAIN Tail(j.queue) : i < k => Tail(j.queue)[i].seq < Tail(j.queue)[k].seq
        BY <2>3, <3>1 DEF AskLine
      <3> HIDE DEF j, h
      <3> QED
        BY <2>2, <2>3, <3>1, <3>2, <3>3 DEF AskLine
    <2>8. ASSUME ordering # "none", NEW u \in Task, u # t, tasks[u].phase \in Asking
          PROVE  AskLine(tasks[u], cassette, emitted')
      <3>1. AskLine(tasks[u], cassette, emitted)
        BY <2>8 DEF AskInv
      <3>2. h.what = "ask" => \A k \in DOMAIN tasks[u].queue : tasks[u].queue[k].seq # h.seq
        BY <2>3, <2>4, <2>8, AsksDiffer
      <3> QED
        BY <2>1, <3>1, <3>2 DEF AskLine
    <2>9. ordering # "none" =>
            \A u \in Task : tasks'[u].phase \in Asking => AskLine(tasks'[u], cassette, emitted')
      BY <2>2, <2>5, <2>7, <2>8
    <2>10. ASSUME NEW k \in DOMAIN shown, shown[k].what = "ask", shown[k].seq \notin emitted'
           PROVE  \E u \in Task : tasks'[u].writing /\ Head(tasks'[u].queue) = shown[k]
      <3>1. PICK u \in Task : tasks[u].writing /\ Head(tasks[u].queue) = shown[k]
        BY <2>1, <2>10 DEF AskInv
      <3>2. u # t
        BY <2>1, <2>10, <3>1
      <3> QED
        BY <2>5, <3>1, <3>2
    <2> QED
      BY <2>9, <2>10 DEF AskInv
  <1> QED
    BY <1>2, <1>3, <1>4, <1>5, <1>6, <1>7, <1>8, Steps

-----------------------------------------------------------------------------
PlayInv == Places /\ Lines /\ ServeInv /\ AskInv

LEMMA PlayStarts == Init => PlayInv
  <1> SUFFICES ASSUME Init PROVE PlayInv
    OBVIOUS
  <1>1. /\ \A t \in Task : tasks[t] = Idle(IF t = Main THEN "read" ELSE "idle")
        /\ shown = <<>> /\ loop = Free
    BY DEF Init
  <1>2. \A t \in Task : tasks[t].phase = IF t = Main THEN "read" ELSE "idle"
    <2>1. \A phase : Idle(phase).phase = phase
      BY DEF Idle, Job
    <2> QED
      BY <1>1, <2>1
  <1>3. Places
    BY <1>1, <1>2, MainIsATask DEF Places, Serving
  <1>4. Lines
    BY <1>1, IdleLine DEF Lines
  <1>5. \A n, ex : ~Served(n, ex)
    BY <1>1, <1>2 DEF Served, Runs, Showed, Responses, Serving
  <1>6. ServeInv
    BY <1>5 DEF ServeInv
  <1>7. AskInv
    BY <1>1, <1>2 DEF AskInv, AskedOnce, Asking
  <1> QED
    BY <1>3, <1>4, <1>6, <1>7 DEF PlayInv

LEMMA PlayGoesOn == UniqueIds /\ Inv /\ PlayInv /\ [Next]_vars => PlayInv'
  BY PlacesStep, LinesStep, ServeStep, AskStep DEF Inv, PlayInv

\* However the tasks overlap, the client sees the recording played: each call is answered
\* with a recording of that call, repeated calls with theirs in the order of the recording,
\* and what the server asked is asked once.
THEOREM PlaysInOrder == ASSUME UniqueIds PROVE Spec => []PlayedInOrder
  <1>1. Init => PlayInv
    BY PlayStarts
  <1>2. Inv /\ PlayInv /\ [Next]_vars => PlayInv'
    BY PlayGoesOn
  <1>3. Inv /\ PlayInv => PlayedInOrder
    <2> SUFFICES ASSUME Inv, PlayInv PROVE PlayedInOrder
      OBVIOUS
    <2>1. ASSUME NEW k \in Responses
          PROVE  /\ shown[k].call \in Task /\ RequestOf(shown[k].seq) \in Nat
                 /\ Served(shown[k].call, RequestOf(shown[k].seq))
      <3>1. shown[k] \in Items
        BY DEF Inv, Rest, Responses
      <3> DEFINE S == {ex \in Exchanges(cassette) : Response(cassette, ex) = shown[k].seq}
      <3>2. S \in SUBSET Nat
        BY ReplayIsTyped DEF Inv, Exchanges, Sent
      <3>3. First(S) \in S \cup {None}
        <4> HIDE DEF S
        <4> QED
          BY <3>2, FirstOf
      <3>4. RequestOf(shown[k].seq) \in Nat
        BY <3>2, <3>3, NoneIsNat DEF RequestOf
      <3> QED
        BY <3>1, <3>4 DEF Items, Task, Served, Showed
    <2>2. OwnAnswer
      BY <2>1 DEF OwnAnswer, PlayInv, ServeInv
    <2>3. EachOnceInOrder
      BY <2>1 DEF EachOnceInOrder, PlayInv, ServeInv
    <2>4. AskedOnce
      BY DEF PlayInv, AskInv, AskedOnce
    <2> QED
      BY <2>2, <2>3, <2>4 DEF PlayedInOrder
  <1> QED
    BY <1>1, <1>2, <1>3, Invariance, PTL DEF Spec

-----------------------------------------------------------------------------
(* What the answers of the client count for *)

Where(q, x) == {k \in DOMAIN q : q[k] = x}

LEMMA WhereAppended ==
    ASSUME NEW q, IsSeq(q), NEW y, NEW x
    PROVE  /\ Cardinality(Where(q, x)) \in Nat
           /\ Cardinality(Where(Append(q, y), x)) =
                 Cardinality(Where(q, x)) + (IF y = x THEN 1 ELSE 0)
  <1> DEFINE W == Where(q, x)
             V == Where(Append(q, y), x)
             n == Len(q) + 1
  <1>1. Len(q) \in Nat /\ DOMAIN q = 1..Len(q)
    BY DEF IsSeq
  <1>2. /\ DOMAIN Append(q, y) = 1..n /\ Append(q, y)[n] = y
        /\ \A k \in DOMAIN q : Append(q, y)[k] = q[k]
    <2> DEFINE T == {q[k] : k \in DOMAIN q} \cup {y}
    <2>1. q \in [1..Len(q) -> T]
      BY <1>1 DEF IsSeq
    <2>2. q \in Seq(T) /\ y \in T
      BY <1>1, <2>1, SeqDef
    <2> HIDE DEF T
    <2> QED
      BY <1>1, <2>2, Appended
  <1>3. IsFiniteSet(W) /\ Cardinality(W) \in Nat
    <2>1. W \in SUBSET (1..Len(q)) /\ IsFiniteSet(1..Len(q))
      BY <1>1, FS_Interval DEF Where
    <2> QED
      BY <2>1, FS_Subset, FS_CardinalityType
  <1>4. V = IF y = x THEN W \cup {n} ELSE W
    BY <1>1, <1>2 DEF Where
  <1>5. n \notin W
    BY <1>1 DEF Where
  <1> HIDE DEF W, V, n
  <1>6. Cardinality(W \cup {n}) = Cardinality(W) + 1
    BY <1>3, <1>5, FS_AddElement
  <1>7. Cardinality(V) = Cardinality(W) + (IF y = x THEN 1 ELSE 0)
    BY <1>3, <1>4, <1>6
  <1> QED
    BY <1>3, <1>7 DEF W, V

LEMMA WhereTail ==
    ASSUME NEW q, IsSeq(q), q # <<>>, NEW x
    PROVE  /\ Cardinality(Where(Tail(q), x)) \in Nat
           /\ Cardinality(Where(q, x)) =
                 Cardinality(Where(Tail(q), x)) + (IF Head(q) = x THEN 1 ELSE 0)
  <1> DEFINE t == Tail(q)
             W == Where(t, x)
             V == Where(q, x) \ {1}
             f == [k \in W |-> k + 1]
  <1>1. /\ Len(q) \in Nat /\ DOMAIN q = 1..Len(q) /\ 1 \in DOMAIN q /\ Head(q) = q[1]
        /\ IsSeq(t) /\ Len(t) = Len(q) - 1 /\ Len(t) \in Nat /\ DOMAIN t = 1..Len(t)
        /\ \A k \in DOMAIN t : k + 1 \in DOMAIN q /\ t[k] = q[k + 1]
    <2> DEFINE S == {q[k] : k \in DOMAIN q}
    <2>1. q \in Seq(S)
      BY DEF IsSeq
    <2> HIDE DEF S
    <2>2. Len(q) \in Nat /\ DOMAIN q = 1..Len(q) /\ Tail(q) \in Seq(S) /\ Len(Tail(q)) = Len(q) - 1
      BY <2>1, HeadAndTail
    <2>3. Len(Tail(q)) \in Nat /\ DOMAIN Tail(q) = 1..Len(Tail(q))
      BY <2>2
    <2> QED
      BY <2>2, <2>3, TailOfAny
  <1>2. W \in SUBSET (1..Len(t)) /\ IsFiniteSet(1..Len(t))
    BY <1>1, FS_Interval DEF Where
  <1>3. IsFiniteSet(W) /\ Cardinality(W) \in Nat
    BY <1>2, FS_Subset, FS_CardinalityType
  <1>4. f \in Bijection(W, V)
    <2>1. \A k \in W : k \in Nat /\ k + 1 \in V
      BY <1>1 DEF Where
    <2>2. \A k \in V : k - 1 \in W /\ f[k - 1] = k
      <3>1. \A k \in V : k - 1 \in DOMAIN t /\ t[k - 1] = q[k]
        BY <1>1 DEF Where
      <3> QED
        BY <1>1, <3>1 DEF Where
    <2>3. f \in [W -> V] /\ \A i, k \in W : f[i] = f[k] => i = k
      BY <2>1
    <2> HIDE DEF f, V, W
    <2> QED
      BY <2>2, <2>3 DEF Bijection, Injection, Surjection, IsInjective
  <1>5. IsFiniteSet(V) /\ Cardinality(V) = Cardinality(W)
    <2> HIDE DEF f, V, W
    <2> QED
      BY <1>3, <1>4, FS_Bijection DEF ExistsBijection
  <1>6. Where(q, x) = IF Head(q) = x THEN V \cup {1} ELSE V
    BY <1>1 DEF Where
  <1>7. Cardinality(V \cup {1}) = Cardinality(V) + 1
    BY <1>5, FS_AddElement
  <1> HIDE DEF V, W
  <1>8. Cardinality(Where(q, x)) = Cardinality(W) + (IF Head(q) = x THEN 1 ELSE 0)
    BY <1>3, <1>5, <1>6, <1>7
  <1> QED
    BY <1>3, <1>8 DEF W, t

LEMMA SomeWithId ==
    ASSUME Rest, NEW S \in SUBSET Asks(cassette), NEW id
    PROVE  /\ WithId(cassette, S, id) \in SUBSET (1..Len(cassette))
           /\ WithId(cassette, S, id) \in SUBSET Nat /\ IsFiniteSet(WithId(cassette, S, id))
           /\ Cardinality(WithId(cassette, S, id)) \in Nat
  <1>1. /\ WithId(cassette, S, id) \in SUBSET (1..Len(cassette)) /\ Len(cassette) \in Nat
        /\ WithId(cassette, S, id) \in SUBSET Nat
    BY ReplayIsTyped DEF WithId, Asks, Sent
  <1>2. IsFiniteSet(1..Len(cassette))
    BY <1>1, FS_Interval
  <1>3. IsFiniteSet(WithId(cassette, S, id))
    BY <1>1, <1>2, FS_Subset
  <1> QED
    BY <1>1, <1>3, FS_CardinalityType

\* A call that a task of its own serves had to wait for an answer; so nothing is asked
\* after its response.
Gated(c, ex) == \E s \in Asks(c) : AnswerSeq(c, s) \in 1..(Response(c, ex) - 1)
Deferred ==
    \A t \in Task \ {Main} : tasks[t].phase \in Serving =>
        /\ Gated(cassette, tasks[t].ex)
        /\ tasks[t].phase = "after" => tasks[t].queue = <<>>

AnswerInv ==
    /\ \A s \in replied : \E k \in DOMAIN shown : shown[k].what = "ask" /\ shown[k].seq = s
    /\ \A k \in DOMAIN stdin : stdin[k] \in {Call(stdin[k].of), AnswerTo(stdin[k].of)}
    /\ scope = "open" => \A id :
          Cardinality(WithId(cassette, replied, id))
              = Cardinality(WithId(cassette, opened, id)) + Cardinality(Where(stdin, AnswerTo(id)))

LEMMA AnswerIsTyped ==
    ASSUME Rest, NEW s
    PROVE  AnswerSeq(cassette, s) \in Nat
  <1> DEFINE S == WithId(cassette, Sent(cassette, "client", "response"), cassette[s].id)
  <1>1. S \in SUBSET Nat
    BY ReplayIsTyped DEF WithId, Sent
  <1> HIDE DEF S
  <1>2. First(S) \in Nat
    BY <1>1, FirstOf, NoneIsNat
  <1> QED
    BY <1>2 DEF AnswerSeq, S

LEMMA DeferredStep ==
    ASSUME PromptAsks, Rest, TasksOK, Places, Lines, ServeInv, Deferred, [Next]_vars
    PROVE  Deferred'
  <1>0. /\ setup' = setup /\ cassette' = cassette /\ Main \in Task /\ tasks \in [Task -> Jobs]
        /\ \A t \in Task : tasks[t].queue \in Seq(Items)
    BY SetupStays, MainIsATask DEF TasksOK, Jobs, cassette
  <1>1. SUFFICES ASSUME NEW u \in Task \ {Main}, tasks'[u].phase \in Serving
                 PROVE  /\ Gated(cassette, tasks'[u].ex)
                        /\ tasks'[u].phase = "after" => tasks'[u].queue = <<>>
    BY <1>0 DEF Deferred, Gated
  <1>2. tasks'[u] = tasks[u] => /\ Gated(cassette, tasks'[u].ex)
                                /\ tasks'[u].phase = "after" => tasks'[u].queue = <<>>
    BY <1>1 DEF Deferred
  <1>3. CASE Elsewhere
    BY <1>2, <1>3 DEF Elsewhere
  <1>4. CASE Defer
    <2> DEFINE j == tasks[Main]
               k == [j EXCEPT !.phase = "gate"]
    <2>1. /\ tasks' = [tasks EXCEPT ![Main] = Idle("read"), ![j.call] = k]
          /\ Blockers(j.ex) # {}
      BY <1>4 DEF Defer
    <2>2. k.phase = "gate" /\ k.ex = j.ex
      BY <1>0 DEF Jobs
    <2>3. Gated(cassette, j.ex)
      <3>1. PICK s \in emitted : AnswerSeq(cassette, s) # None
                                 /\ AnswerSeq(cassette, s) < Response(cassette, j.ex)
        BY <2>1 DEF Blockers, Gates
      <3>2. s \in Asks(cassette) /\ AnswerSeq(cassette, s) \in Nat /\ Response(cassette, j.ex) \in Nat
        BY AnswerIsTyped, ResponseIsTyped DEF Rest
      <3> QED
        BY <3>1, <3>2 DEF Gated, None
    <2> HIDE DEF k, j
    <2>4. tasks'[u] \in {k, tasks[u]}
      BY <1>0, <2>1
    <2> QED
      BY <1>2, <2>2, <2>3, <2>4
  <1>5. ASSUME NEW n \in 1..MaxCalls, HandleInitialize(n) \/ HandleHit(n) \/ HandleMiss(n)
        PROVE  tasks'[u] = tasks[u]
    <2>1. \E job : Become(Main, job)
      BY <1>5 DEF HandleInitialize, HandleHit, HandleMiss, Missed
    <2> QED
      BY <1>0, <2>1, BecameOr
  <1>6. ASSUME NEW t \in Task, Write(t)
        PROVE  /\ tasks'[u].phase = tasks[u].phase /\ tasks'[u].queue = tasks[u].queue
               /\ tasks'[u].ex = tasks[u].ex
    BY <1>0, <1>6 DEF Write, Jobs
  <1>7. ASSUME NEW t \in Task, Resume(t)
        PROVE  /\ tasks'[u].ex = tasks[u].ex /\ tasks'[u].phase = tasks[u].phase
               /\ tasks[u].phase = "after" => tasks'[u] = tasks[u]
    <2> DEFINE job == [tasks[t] EXCEPT !.queue = Tail(@), !.writing = FALSE]
    <2>1. Become(t, job) /\ tasks[t].queue # <<>>
      BY <1>7 DEF Resume, TasksOK, JobOK
    <2>2. job.phase = tasks[t].phase /\ job.ex = tasks[t].ex
      BY <1>0 DEF Jobs
    <2> HIDE DEF job
    <2>3. tasks'[t] = job /\ \A v \in Task \ {t} : tasks'[v] = tasks[v]
      BY <2>1, BecameOr
    <2>4. tasks[u].phase = "after" => u # t
      BY <2>1 DEF Deferred, Serving
    <2> QED
      BY <2>2, <2>3, <2>4
  <1>8. ASSUME NEW t \in Task, EndsJob(t) PROVE tasks'[u] = tasks[u]
    <2>1. PICK phase \in {"read", "idle", "end"} : Become(t, Idle(phase))
      BY <1>8 DEF EndsJob
    <2>2. Idle(phase).phase \notin Serving
      BY DEF Idle, Job, Serving
    <2> QED
      BY <1>1, <2>1, <2>2, BecameOr
  <1>9. ASSUME NEW t \in Task, NEW phase \in Phases, NEW q \in Seq(Items), GoesOn(t, phase, q), u = t
        PROVE  /\ Gated(cassette, tasks'[u].ex)
               /\ tasks'[u].phase = "after" => tasks'[u].queue = <<>>
    <2> DEFINE j == tasks[t]
               job == Job(phase, j.call, j.ex, j.fault, q)
    <2>1. /\ Become(t, job) /\ j.phase \in Serving /\ t # Main
          /\ job.phase = phase /\ job.ex = j.ex /\ job.queue = q
      BY <1>1, <1>9 DEF GoesOn, Stage, Job
    <2> HIDE DEF job
    <2>2. tasks'[t] = job
      BY <2>1, BecameOr
    <2>3. Gated(cassette, j.ex)
      BY <2>1 DEF Deferred
    <2>4. ASSUME phase = "after" PROVE q = <<>>
      <3>1. q = Ask(j.ex, "after")
        BY <1>9, <2>4 DEF GoesOn
      <3>2. SUFFICES ASSUME q # <<>> PROVE FALSE
        OBVIOUS
      <3>3. 1 \in DOMAIN q
        BY <3>2, HeadAndTail
      <3>4. /\ q[1].seq \in Asks(cassette) /\ Anchor(cassette, q[1].seq) = j.ex
            /\ Trigger(cassette, q[1].seq) = "after"
        BY <3>1, <3>3, AskItems
      <3>5. ~IsInitialize(cassette[j.ex].call)
        <4>1. j.call = t /\ ~IsInitialize(sent[t])
          BY <2>1 DEF Places
        <4>2. Recorded(sent[j.call], j.ex)
          BY <2>1, WhatRuns
        <4> QED
          BY <4>1, <4>2 DEF Recorded
      <3> QED
        BY <2>3, <3>4, <3>5 DEF PromptAsks, Gated, Rest, cassette
    <2> QED
      BY <1>9, <2>1, <2>2, <2>3, <2>4
  <1>10. ASSUME NEW t \in Task, NEW phase \in Phases, NEW q \in Seq(Items), GoesOn(t, phase, q), u # t
         PROVE  tasks'[u] = tasks[u]
    <2>1. \E job : Become(t, job)
      BY <1>10 DEF GoesOn, Stage
    <2> QED
      BY <1>10, <2>1, BecameOr
  <1> QED
    BY <1>1, <1>2, <1>3, <1>4, <1>5, <1>6, <1>7, <1>8, <1>9, <1>10, Steps DEF Deferred

\* While Main reads, the client was asked nothing that is not marked as emitted.
LEMMA AskedIsEmitted ==
    ASSUME Rest, TasksOK, Places, Lines, AskInv, Deferred, AnswerInv, tasks[Main].phase = "read"
    PROVE  replied \subseteq emitted
  <1>1. ASSUME NEW t \in Task, tasks[t].writing PROVE Head(tasks[t].queue).what # "ask"
    <2> DEFINE q == tasks[t].queue
    <2>1. q # <<>> /\ q \in Seq(Items)
      BY <1>1 DEF TasksOK, JobOK, Jobs
    <2>2. Head(q) = q[1] /\ 1 \in DOMAIN q
      BY <2>1, HeadAndTail
    <2>3. Head(q).what = "ask" => tasks[t].phase \in Asking
      BY <2>2 DEF Lines, LineOK
    <2> QED
      BY <2>1, <2>3 DEF Places, Deferred, Asking, Serving
  <1> QED
    BY <1>1 DEF AnswerInv, AskInv

LEMMA AnswersLeft ==
    ASSUME Rest, AnswerInv, UNCHANGED <<setup, replied, opened, stdin>>, scope' = "open" => scope = "open",
           DOMAIN shown \subseteq DOMAIN shown', \A k \in DOMAIN shown : shown'[k] = shown[k]
    PROVE  AnswerInv'
  <1>1. cassette' = cassette
    BY DEF cassette
  <1>2. \A s \in replied : \E k \in DOMAIN shown' : shown'[k].what = "ask" /\ shown'[k].seq = s
    BY DEF AnswerInv
  <1>3. \A k \in DOMAIN stdin : stdin[k] \in {Call(stdin[k].of), AnswerTo(stdin[k].of)}
    BY DEF AnswerInv
  <1>4. scope' = "open" => \A id :
          Cardinality(WithId(cassette, replied, id))
              = Cardinality(WithId(cassette, opened, id)) + Cardinality(Where(stdin, AnswerTo(id)))
    BY DEF AnswerInv
  <1> QED
    BY <1>1, <1>2, <1>3, <1>4 DEF AnswerInv

LEMMA AnswerStep ==
    ASSUME Rest, TasksOK, Places, Lines, AskInv, Deferred, AnswerInv, [Next]_vars
    PROVE  AnswerInv'
  <1>0. /\ setup' = setup /\ cassette' = cassette /\ IsSeq(stdin) /\ DOMAIN cassette \subseteq Nat \ {0}
    BY SetupStays, ReplayIsTyped DEF Rest, cassette
  <1>1. \A n, id : /\ Call(n) # AnswerTo(id) /\ Call(n).type = "call" /\ AnswerTo(id).type = "answer"
                   /\ Call(n).of = n /\ AnswerTo(id).of = id
    BY DEF Call, AnswerTo
  <1>2. \A a, b : AnswerTo(a) = AnswerTo(b) => a = b
    BY DEF AnswerTo
  <1> USE DEF world, matcher, tracker, running, outcome
  <1>3. ASSUME NEW call \in Calls, ClientCall(call) PROVE AnswerInv'
    <2> DEFINE n == Len(sent) + 1
    <2>1. stdin' = Append(stdin, Call(n)) /\ UNCHANGED <<setup, replied, opened, shown, scope>>
      BY <1>3 DEF ClientCall
    <2>2. \A id : Cardinality(Where(stdin', AnswerTo(id))) = Cardinality(Where(stdin, AnswerTo(id)))
      <3> TAKE id
      <3>1. Cardinality(Where(Append(stdin, Call(n)), AnswerTo(id)))
              = Cardinality(Where(stdin, AnswerTo(id))) + (IF Call(n) = AnswerTo(id) THEN 1 ELSE 0)
            /\ Cardinality(Where(stdin, AnswerTo(id))) \in Nat
        BY <1>0, WhereAppended
      <3> QED
        BY <1>1, <2>1, <3>1
    <2>3. \A k \in DOMAIN stdin' : \/ stdin'[k] = stdin[k] /\ k \in DOMAIN stdin
                                   \/ stdin'[k] = Call(n)
      BY <1>0, <2>1, AppendedAny
    <2>4. \A k \in DOMAIN stdin' : stdin'[k] \in {Call(stdin'[k].of), AnswerTo(stdin'[k].of)}
      BY <1>1, <2>3 DEF AnswerInv
    <2> QED
      BY <1>0, <2>1, <2>2, <2>4 DEF AnswerInv
  <1>4. ASSUME NEW ask \in Asks(cassette), ClientAnswer(ask) PROVE AnswerInv'
    <2> DEFINE id == cassette[ask].id
               asked == {shown[k].seq : k \in {i \in DOMAIN shown : shown[i].what = "ask"}}
               W == WithId(cassette, asked \ replied, id)
    <2>1. /\ ask = First(W) /\ replied' = replied \cup {ask}
          /\ stdin' = Append(stdin, AnswerTo(id)) /\ UNCHANGED <<setup, opened, shown, scope>>
      BY <1>4 DEF ClientAnswer
    <2>2. ask \in asked \ replied
      <3>1. W \in SUBSET Nat
        <4>1. \A i \in DOMAIN shown : shown[i].seq \in Nat
          <5>1. shown \in Seq(Items)
            BY DEF Rest
          <5>2. \A i \in DOMAIN shown : shown[i] \in Items
            BY <5>1
          <5> QED
            BY <5>2 DEF Items
        <4> QED
          BY <4>1 DEF WithId
      <3>2. ask # None
        BY <1>0 DEF Asks, Sent, None
      <3> HIDE DEF W
      <3>3. ask \in W
        BY <2>1, <3>1, <3>2, FirstOf
      <3> QED
        BY <3>3 DEF W, WithId
    <2>3. \A s \in replied' : \E k \in DOMAIN shown' : shown'[k].what = "ask" /\ shown'[k].seq = s
      BY <2>1, <2>2 DEF AnswerInv
    <2>4. \A k \in DOMAIN stdin' : \/ stdin'[k] = stdin[k] /\ k \in DOMAIN stdin
                                   \/ stdin'[k] = AnswerTo(id)
      BY <1>0, <2>1, AppendedAny
    <2>5. \A k \in DOMAIN stdin' : stdin'[k] \in {Call(stdin'[k].of), AnswerTo(stdin'[k].of)}
      BY <1>1, <2>4 DEF AnswerInv
    <2> HIDE DEF W, asked
    <2>6. ASSUME NEW x, scope = "open"
          PROVE  Cardinality(WithId(cassette, replied', x))
                   = Cardinality(WithId(cassette, opened, x)) + Cardinality(Where(stdin', AnswerTo(x)))
      <3> DEFINE R == WithId(cassette, replied, x)
                 O == Cardinality(WithId(cassette, opened, x))
                 N == Cardinality(Where(stdin, AnswerTo(x)))
      <3>1. /\ N \in Nat
            /\ Cardinality(Where(stdin', AnswerTo(x)))
                 = N + (IF AnswerTo(id) = AnswerTo(x) THEN 1 ELSE 0)
        BY <1>0, <2>1, WhereAppended
      <3>2. IsFiniteSet(R) /\ Cardinality(R) \in Nat /\ O \in Nat /\ Cardinality(R) = O + N
        <4>1. replied \in SUBSET Asks(cassette) /\ opened \in SUBSET Asks(cassette)
          BY DEF Rest
        <4> QED
          BY <2>6, <4>1, SomeWithId DEF AnswerInv
      <3>3. WithId(cassette, replied', x) = IF id = x THEN R \cup {ask} ELSE R
        BY <2>1 DEF WithId
      <3>4. ask \notin R
        BY <2>2 DEF WithId
      <3> HIDE DEF R, O, N, id
      <3>5. Cardinality(R \cup {ask}) = Cardinality(R) + 1
        BY <3>2, <3>4, FS_AddElement
      <3>6. Cardinality(WithId(cassette, replied', x)) = O + Cardinality(Where(stdin', AnswerTo(x)))
        <4>1. CASE id = x
          BY <3>1, <3>2, <3>3, <3>5, <4>1
        <4>2. CASE id # x
          BY <1>2, <3>1, <3>2, <3>3, <4>2
        <4> QED
          BY <4>1, <4>2
      <3> QED
        BY <3>6 DEF O
    <2> QED
      BY <1>0, <2>1, <2>3, <2>5, <2>6 DEF AnswerInv
  <1>5. ASSUME stdin # <<>>, stdin' = Tail(stdin)
        PROVE  \A k \in DOMAIN stdin' : stdin'[k] \in {Call(stdin'[k].of), AnswerTo(stdin'[k].of)}
    BY <1>0, <1>5, TailOfAny DEF AnswerInv
  <1>6. ASSUME NEW n \in 1..MaxCalls, HandleInitialize(n) \/ HandleHit(n) \/ HandleMiss(n)
        PROVE  AnswerInv'
    <2>1. /\ stdin # <<>> /\ Head(stdin) = Call(n) /\ stdin' = Tail(stdin)
          /\ UNCHANGED <<setup, replied, opened, shown, scope>>
      BY <1>6 DEF HandleInitialize, HandleHit, HandleMiss, Takes
    <2>2. \A id : Cardinality(Where(stdin', AnswerTo(id))) = Cardinality(Where(stdin, AnswerTo(id)))
      <3> TAKE id
      <3>1. /\ Cardinality(Where(stdin, AnswerTo(id)))
                 = Cardinality(Where(Tail(stdin), AnswerTo(id)))
                     + (IF Head(stdin) = AnswerTo(id) THEN 1 ELSE 0)
            /\ Cardinality(Where(Tail(stdin), AnswerTo(id))) \in Nat
        BY <1>0, <2>1, WhereTail
      <3> QED
        BY <1>1, <2>1, <3>1
    <2> QED
      BY <1>0, <1>5, <2>1, <2>2 DEF AnswerInv
  <1>7. CASE OnAnswer
    <2> DEFINE id == Head(stdin).of
               W == WithId(cassette, emitted \ opened, id)
               ask == First(W)
    <2>1. /\ stdin # <<>> /\ Head(stdin).type = "answer" /\ stdin' = Tail(stdin)
          /\ opened' = opened \cup ({ask} \ {None}) /\ scope = "open"
          /\ tasks[Main].phase = "read" /\ UNCHANGED <<setup, replied, shown, scope>>
      BY <1>7 DEF OnAnswer, AtRead
    <2>2. Head(stdin) = AnswerTo(id)
      <3>1. 1 \in DOMAIN stdin /\ Head(stdin) = stdin[1]
        BY <1>0, <2>1, TailOfAny
      <3> QED
        BY <1>1, <2>1, <3>1 DEF AnswerInv
    <2>3. /\ replied \subseteq emitted /\ opened \subseteq emitted /\ emitted \subseteq Asks(cassette)
          /\ replied \in SUBSET Asks(cassette) /\ opened \in SUBSET Asks(cassette)
      BY <2>1, AskedIsEmitted DEF Rest
    <2> HIDE DEF W, id
    <2>4. ASSUME NEW x
          PROVE  Cardinality(WithId(cassette, replied, x))
                   = Cardinality(WithId(cassette, opened', x)) + Cardinality(Where(stdin', AnswerTo(x)))
      <3> DEFINE R == WithId(cassette, replied, x)
                 O == WithId(cassette, opened, x)
                 N == Cardinality(Where(stdin, AnswerTo(x)))
                 M == Cardinality(Where(stdin', AnswerTo(x)))
      <3>1. M \in Nat /\ N = M + (IF AnswerTo(id) = AnswerTo(x) THEN 1 ELSE 0)
        BY <1>0, <2>1, <2>2, WhereTail
      <3>2. /\ IsFiniteSet(O) /\ Cardinality(R) \in Nat /\ Cardinality(O) \in Nat
            /\ Cardinality(R) = Cardinality(O) + N
        BY <2>1, <2>3, SomeWithId DEF AnswerInv
      <3>3. CASE id = x
        <4>1. W \in SUBSET Nat
          <5>1. emitted \ opened \in SUBSET Asks(cassette)
            BY <2>3
          <5> QED
            BY <5>1, SomeWithId DEF W
        <4>2. W # {}
          <5>1. SUFFICES ASSUME W = {} PROVE FALSE
            OBVIOUS
          <5>2. R \in SUBSET O
            BY <2>3, <3>3, <5>1 DEF W, WithId
          <5> HIDE DEF R, O, N, M
          <5>3. Cardinality(R) <= Cardinality(O)
            BY <3>2, <5>2, FS_Subset
          <5> QED
            BY <3>1, <3>2, <3>3, <5>3
        <4>3. ask \in W
          BY <4>1, <4>2, FirstOf
        <4>4. ask \in emitted \ opened /\ cassette[ask].id = x /\ ask # None
          <5>1. ask \in emitted \ opened /\ cassette[ask].id = x
            BY <3>3, <4>3 DEF W, WithId
          <5> QED
            BY <1>0, <2>3, <5>1 DEF Asks, Sent, None
        <4> HIDE DEF ask
        <4>5. WithId(cassette, opened', x) = O \cup {ask} /\ ask \notin O
          BY <2>1, <4>4 DEF WithId
        <4> HIDE DEF R, O, N, M
        <4>6. Cardinality(O \cup {ask}) = Cardinality(O) + 1
          BY <3>2, <4>5, FS_AddElement
        <4>7. Cardinality(R) = Cardinality(WithId(cassette, opened', x)) + M
          BY <3>1, <3>2, <3>3, <4>5, <4>6
        <4> QED
          BY <4>7 DEF R, M
      <3>4. CASE id # x
        <4>1. ask # None => cassette[ask].id # x
          <5>1. emitted \ opened \in SUBSET Asks(cassette)
            BY <2>3
          <5>2. W \in SUBSET Nat
            BY <5>1, SomeWithId DEF W
          <5>3. ask \in W \cup {None}
            BY <5>2, FirstOf
          <5> QED
            BY <3>4, <5>3 DEF W, WithId
        <4> HIDE DEF ask
        <4>2. WithId(cassette, opened', x) = O
          BY <2>1, <4>1 DEF WithId
        <4> HIDE DEF R, O, N, M
        <4>3. Cardinality(R) = Cardinality(WithId(cassette, opened', x)) + M
          BY <1>2, <3>1, <3>2, <3>4, <4>2
        <4> QED
          BY <4>3 DEF R, M
      <3> QED
        BY <3>3, <3>4
    <2>5. \A k \in DOMAIN stdin' : stdin'[k] \in {Call(stdin'[k].of), AnswerTo(stdin'[k].of)}
      BY <1>5, <2>1
    <2> HIDE DEF ask
    <2> QED
      BY <1>0, <2>1, <2>4, <2>5 DEF AnswerInv
  <1>8. ASSUME \/ \E how \in {"done", "gone"} : ClientLeave(how)
               \/ Eof \/ MainStep \/ Exit \/ UNCHANGED vars
               \/ \E t \in Task : \/ Resume(t) \/ SendFails(t) \/ PassGate(t) \/ Disconnect(t)
                                  \/ SendAsks(t) \/ Done(t) \/ Cancel(t)
        PROVE  AnswerInv'
    <2>1. UNCHANGED <<setup, replied, opened, stdin, shown>> /\ (scope' = "open" => scope = "open")
      BY <1>8 DEF ClientLeave, Eof, MainStep, StartReply, Defer, Greet, Stop, Exit, Resume,
         SendFails, PassGate, Disconnect, SendAsks, Done, Cancel, vars
    <2> QED
      BY <2>1, AnswersLeft
  <1>9. ASSUME NEW t \in Task, Write(t) PROVE AnswerInv'
    <2>1. /\ UNCHANGED <<setup, replied, opened, stdin, scope>>
          /\ shown' = Append(shown, Head(tasks[t].queue)) /\ tasks[t].queue # <<>>
      BY <1>9 DEF Write
    <2>2. shown \in Seq(Items) /\ Head(tasks[t].queue) \in Items
      <3>1. tasks[t].queue \in Seq(Items)
        BY <1>9 DEF TasksOK, Jobs
      <3> QED
        BY <2>1, <3>1, HeadAndTail DEF Rest
    <2>3. DOMAIN shown \subseteq DOMAIN shown' /\ \A k \in DOMAIN shown : shown'[k] = shown[k]
      BY <2>1, <2>2, Appended
    <2> QED
      BY <2>1, <2>3, AnswersLeft
  <1> QED
    BY <1>3, <1>4, <1>6, <1>7, <1>8, <1>9 DEF Next, Client, Handle, Send, TaskStep

\* While the client is served no answer it gave is lost: it waits on stdin, or it has opened a
\* gate. No response but the handshake's waits behind an ask that follows another one.
THEOREM AnswersCount == ASSUME UniqueIds, PromptAsks PROVE Spec => []EveryAnswerCounts
  <1> DEFINE All == PlayInv /\ Deferred /\ AnswerInv
  <1>1. Init => All
    <2> SUFFICES ASSUME Init PROVE All
      OBVIOUS
    <2>1. /\ \A t \in Task : tasks[t].phase = IF t = Main THEN "read" ELSE "idle"
          /\ replied = {} /\ opened = {} /\ stdin = <<>>
      BY DEF Init, Idle, Job
    <2>2. PlayInv
      BY PlayStarts
    <2>3. Deferred
      BY <2>1 DEF Deferred, Serving
    <2>4. \A id : /\ WithId(cassette, replied, id) = {} /\ WithId(cassette, opened, id) = {}
                  /\ Where(stdin, AnswerTo(id)) = {}
      BY <2>1 DEF WithId, Where
    <2>5. AnswerInv
      <3>1. Cardinality({}) = 0
        BY FS_EmptySet
      <3>2. \A id : Cardinality(WithId(cassette, replied, id)) = 0 /\ Cardinality(WithId(cassette, opened, id)) = 0
                    /\ Cardinality(Where(stdin, AnswerTo(id))) = 0
        BY <2>4, <3>1
      <3> QED
        BY <2>1, <3>2 DEF AnswerInv
    <2> QED
      BY <2>2, <2>3, <2>5
  <1>2. Inv /\ All /\ [Next]_vars => All'
    <2>1. Inv /\ All /\ [Next]_vars => PlayInv'
      BY PlayGoesOn
    <2>2. Inv /\ All /\ [Next]_vars => Deferred' /\ AnswerInv'
      BY DeferredStep, AnswerStep DEF Inv, PlayInv
    <2> QED
      BY <2>1, <2>2
  <1>3. All => EveryAnswerCounts
    BY DEF AnswerInv, EveryAnswerCounts, Where
  <1> QED
    BY <1>1, <1>2, <1>3, Invariance, PTL DEF Spec

-----------------------------------------------------------------------------
(* What a response waits for *)

\* What was asked inside the exchange and answered before its response.
Due(c, ex) ==
    {s \in Asks(c) : Anchor(c, s) = ex /\ AnswerSeq(c, s) \in 1..(Response(c, ex) - 1)}

DueOK(j, c, asked, open) ==
    \A s \in Due(c, j.ex) :
        /\ j.phase = "during" => s \in asked \/ \E i \in DOMAIN j.queue : j.queue[i].seq = s
        /\ j.phase = "gate" => s \in asked
        /\ j.phase = "reply" => s \in open

HeldInv ==
    /\ opened \subseteq replied
    /\ \A k \in DOMAIN stdin :
          stdin[k].type = "answer" => \E s \in replied : cassette[s].id = stdin[k].of
    /\ \A t \in Task : tasks[t].phase \in Serving /\ ~ForInitialize(t) =>
          DueOK(tasks[t], cassette, emitted, opened)

\* They are among what Ask sends before the response.
LEMMA DueIsAskedDuring ==
    ASSUME PairedOnce, Rest, NEW ex \in Exchanges(cassette), NEW s \in Due(cassette, ex)
    PROVE  Trigger(cassette, s) = "during" /\ Anchor(cassette, s) = ex /\ s \in Asks(cassette)
  <1> DEFINE answered == First(WithId(cassette, Sent(cassette, "server", "response"), cassette[ex].id))
  <1>1. answered = Response(cassette, ex)
    BY DEF PairedOnce, Paired, Rest, cassette
  <1>2. ex # None /\ s \in Asks(cassette) /\ Anchor(cassette, s) = ex
    BY ReplayIsTyped DEF Exchanges, Sent, None, Due
  <1>3. AnswerSeq(cassette, s) # None => s < AnswerSeq(cassette, s)
    BY <1>2 DEF PairedOnce, Paired, Rest, cassette
  <1>4. s \in Nat /\ AnswerSeq(cassette, s) \in 1..(Response(cassette, ex) - 1)
    BY <1>2, ReplayIsTyped DEF Due, Asks, Sent
  <1>5. Response(cassette, ex) \in Nat
    BY ResponseIsTyped
  <1>6. s < answered
    BY <1>1, <1>3, <1>4, <1>5 DEF None
  <1> QED
    BY <1>2, <1>6 DEF Trigger

LEMMA AsksWhatIsDue ==
    ASSUME PairedOnce, Rest, NEW ex \in Exchanges(cassette), NEW s \in Due(cassette, ex)
    PROVE  s \in emitted \/ \E i \in DOMAIN Ask(ex, "during") : Ask(ex, "during")[i].seq = s
  <1> DEFINE S == {m \in Asks(cassette) \ emitted :
                    Anchor(cassette, m) = ex /\ Trigger(cassette, m) = "during"}
             asks == Triggered(cassette, ex, "during", emitted)
  <1>1. S \in SUBSET (1..Len(cassette)) /\ Len(cassette) \in Nat /\ asks = InOrder(S)
    BY ReplayIsTyped DEF Asks, Sent, Triggered
  <1>2. s \in emitted \/ s \in S
    BY DueIsAskedDuring
  <1> HIDE DEF S
  <1>3. \A m \in S : \E i \in DOMAIN asks : asks[i] = m
    BY <1>1, InOrderIsSorted
  <1> HIDE DEF asks
  <1>4. Ask(ex, "during") = [k \in DOMAIN asks |-> Item("ask", None, asks[k])]
    BY DEF Ask, asks
  <1> QED
    BY <1>2, <1>3, <1>4 DEF Item

LEMMA OnlyGrow == [Next]_vars => emitted \subseteq emitted' /\ opened \subseteq opened'
  BY DEF Next, vars, Client, Handle, MainStep, Send, TaskStep, ClientCall, ClientAnswer,
     ClientLeave, HandleInitialize, HandleHit, HandleMiss, OnAnswer, Eof, StartReply, Defer,
     Greet, Stop, Write, Resume, SendFails, PassGate, Disconnect, SendAsks, Done, Cancel, Exit,
     tracker

LEMMA OpenedIsReplied ==
    ASSUME PairedOnce, Rest, HeldInv, [Next]_vars
    PROVE  /\ opened' \subseteq replied'
           /\ \A k \in DOMAIN stdin' :
                 stdin'[k].type = "answer" => \E s \in replied' : cassette'[s].id = stdin'[k].of
  <1>0. setup' = setup /\ cassette' = cassette /\ IsSeq(stdin)
    BY SetupStays DEF Rest, cassette
  <1>1. \A n, id : Call(n).type # "answer" /\ AnswerTo(id).of = id
    BY DEF Call, AnswerTo
  <1> USE DEF world, matcher, tracker, running, outcome
  <1>2. CASE UNCHANGED <<replied, opened, stdin>>
    BY <1>0, <1>2 DEF HeldInv
  <1>3. ASSUME NEW call \in Calls, ClientCall(call), NEW k \in DOMAIN stdin', stdin'[k].type = "answer"
        PROVE  \E s \in replied' : cassette'[s].id = stdin'[k].of
    <2>1. stdin' = Append(stdin, Call(Len(sent) + 1)) /\ UNCHANGED replied
      BY <1>3 DEF ClientCall
    <2>2. k \in DOMAIN stdin /\ stdin'[k] = stdin[k]
      BY <1>0, <1>1, <1>3, <2>1, AppendedAny
    <2> QED
      BY <1>0, <1>3, <2>1, <2>2 DEF HeldInv
  <1>4. ASSUME NEW ask \in Asks(cassette), ClientAnswer(ask), NEW k \in DOMAIN stdin',
               stdin'[k].type = "answer"
        PROVE  \E s \in replied' : cassette'[s].id = stdin'[k].of
    <2>1. stdin' = Append(stdin, AnswerTo(cassette[ask].id)) /\ replied' = replied \cup {ask}
      BY <1>4 DEF ClientAnswer
    <2>2. \/ k \in DOMAIN stdin /\ stdin'[k] = stdin[k]
          \/ stdin'[k] = AnswerTo(cassette[ask].id)
      BY <1>0, <1>4, <2>1, AppendedAny
    <2> QED
      BY <1>0, <1>1, <1>4, <2>1, <2>2 DEF HeldInv
  <1>5. ASSUME stdin # <<>>, stdin' = Tail(stdin), UNCHANGED replied,
               NEW k \in DOMAIN stdin', stdin'[k].type = "answer"
        PROVE  \E s \in replied' : cassette'[s].id = stdin'[k].of
    <2>1. k + 1 \in DOMAIN stdin /\ stdin'[k] = stdin[k + 1]
      BY <1>0, <1>5, TailOfAny
    <2> QED
      BY <1>0, <1>5, <2>1 DEF HeldInv
  <1>6. CASE OnAnswer
    <2> DEFINE W == WithId(cassette, emitted \ opened, Head(stdin).of)
               ask == First(W)
    <2>1. /\ stdin # <<>> /\ Head(stdin).type = "answer" /\ stdin' = Tail(stdin)
          /\ opened' = opened \cup ({ask} \ {None}) /\ UNCHANGED replied
      BY <1>6 DEF OnAnswer
    <2>2. PICK s \in replied : cassette[s].id = Head(stdin).of
      BY <1>0, <2>1, TailOfAny DEF HeldInv
    <2>3. W \in SUBSET Asks(cassette) /\ \A w \in W : cassette[w].id = Head(stdin).of
      BY DEF WithId, Rest
    <2>4. ask \in W \cup {None}
      <3>1. Asks(cassette) \subseteq Nat
        BY ReplayIsTyped DEF Asks, Sent
      <3> HIDE DEF W
      <3>2. W \in SUBSET Nat
        BY <2>3, <3>1
      <3> QED
        BY <3>2, FirstOf
    <2> HIDE DEF W, ask
    <2>5. ask # None => ask = s
      <3>1. s \in Asks(cassette)
        BY <2>2 DEF Rest
      <3>2. \A a, b \in Asks(cassette) : cassette[a].id = cassette[b].id => a = b
        BY DEF PairedOnce, Paired, Rest, cassette
      <3> QED
        BY <2>2, <2>3, <2>4, <3>1, <3>2
    <2>6. opened' \subseteq replied'
      BY <2>1, <2>2, <2>5 DEF HeldInv
    <2> QED
      BY <1>5, <2>1, <2>6
  <1>7. ASSUME NEW n \in 1..MaxCalls, HandleInitialize(n) \/ HandleHit(n) \/ HandleMiss(n)
        PROVE  stdin # <<>> /\ stdin' = Tail(stdin) /\ UNCHANGED <<replied, opened>>
    BY <1>7 DEF HandleInitialize, HandleHit, HandleMiss, Takes
  <1>8. ASSUME \/ \E how \in {"done", "gone"} : ClientLeave(how)
               \/ Eof \/ MainStep \/ Exit \/ UNCHANGED vars
               \/ \E t \in Task : TaskStep(t)
        PROVE  UNCHANGED <<replied, opened, stdin>>
    BY <1>8 DEF ClientLeave, Eof, MainStep, StartReply, Defer, Greet, Stop, Exit, TaskStep, Send,
       Write, Resume, SendFails, PassGate, Disconnect, SendAsks, Done, Cancel, vars
  <1>9. ASSUME (\E call \in Calls : ClientCall(call)) \/ (\E ask \in Asks(cassette) : ClientAnswer(ask))
        PROVE  opened' \subseteq replied'
    BY <1>9 DEF ClientCall, ClientAnswer, HeldInv
  <1> QED
    <2>1. ASSUME NEW n \in 1..MaxCalls, HandleInitialize(n) \/ HandleHit(n) \/ HandleMiss(n)
          PROVE  /\ opened' \subseteq replied'
                 /\ \A k \in DOMAIN stdin' :
                       stdin'[k].type = "answer" => \E s \in replied' : cassette'[s].id = stdin'[k].of
      BY <1>5, <1>7, <2>1 DEF HeldInv
    <2> QED
      BY <1>2, <1>3, <1>4, <1>6, <1>8, <1>9, <2>1 DEF Next, Client, Handle

LEMMA DueStays ==
    ASSUME NEW c, NEW j, NEW k, NEW asked, NEW more, NEW open, NEW wider,
           DueOK(j, c, asked, open), asked \subseteq more, open \subseteq wider,
           k.phase = j.phase, k.ex = j.ex, k.queue = j.queue
    PROVE  DueOK(k, c, more, wider)
  BY DEF DueOK

LEMMA HeldStep ==
    ASSUME PairedOnce, Rest, TasksOK, CallInv, Places, Lines, ServeInv, HeldInv, [Next]_vars
    PROVE  HeldInv'
  <1>0. /\ setup' = setup /\ cassette' = cassette /\ Main \in Task /\ tasks \in [Task -> Jobs]
        /\ \A t \in Task : tasks[t].queue \in Seq(Items)
        /\ emitted \subseteq emitted' /\ opened \subseteq opened'
    BY SetupStays, OnlyGrow, MainIsATask DEF TasksOK, Jobs, cassette
  <1>1. SUFFICES ASSUME NEW u \in Task, tasks'[u].phase \in Serving,
                        ~IsInitialize(sent'[tasks'[u].call])
                 PROVE  DueOK(tasks'[u], cassette, emitted', opened')
    BY <1>0, OpenedIsReplied DEF HeldInv, ForInitialize
  <1>2. ASSUME NEW t \in Task, tasks[t].phase \in Serving
        PROVE  /\ sent'[tasks[t].call] = sent[tasks[t].call]
               /\ tasks[t].ex \in Exchanges(cassette)
               /\ ~ForInitialize(t) => DueOK(tasks[t], cassette, emitted, opened)
    BY <1>2, WhatRuns, TakenStays DEF HeldInv
  <1>3. ASSUME tasks'[u].phase = tasks[u].phase, tasks'[u].call = tasks[u].call,
               tasks'[u].ex = tasks[u].ex, tasks'[u].queue = tasks[u].queue
        PROVE  DueOK(tasks'[u], cassette, emitted', opened')
    <2>1. DueOK(tasks[u], cassette, emitted, opened)
      BY <1>1, <1>2, <1>3 DEF ForInitialize
    <2> QED
      BY <1>0, <1>3, <2>1, DueStays
  <1>4. CASE Elsewhere
    BY <1>3, <1>4 DEF Elsewhere
  <1>5. CASE Defer
    <2> DEFINE j == tasks[Main]
               k == [j EXCEPT !.phase = "gate"]
    <2>1. /\ tasks' = [tasks EXCEPT ![Main] = Idle("read"), ![j.call] = k]
          /\ loop = Main /\ j.phase = "during" /\ ~ForInitialize(Main)
      BY <1>5 DEF Defer, At
    <2>2. k.phase = "gate" /\ k.ex = j.ex
      BY <1>0 DEF Jobs
    <2>3. j.queue = <<>>
      BY <1>0, <2>1 DEF Places
    <2>4. DueOK(j, cassette, emitted, opened)
      BY <1>0, <1>2, <2>1 DEF Serving
    <2>5. DueOK(k, cassette, emitted', opened')
      BY <1>0, <2>1, <2>2, <2>3, <2>4 DEF DueOK
    <2>6. Idle("read").phase \notin Serving
      BY DEF Idle, Job, Serving
    <2> HIDE DEF k, j
    <2>7. tasks'[u] \in {k, tasks[u], Idle("read")}
      BY <1>0, <2>1
    <2> QED
      BY <1>1, <1>3, <2>5, <2>6, <2>7
  <1>6. ASSUME NEW n \in 1..MaxCalls, HandleInitialize(n) \/ HandleMiss(n)
        PROVE  tasks'[u] = tasks[u]
    <2>1. PICK job : /\ Become(Main, job)
                     /\ job.phase = "reply" => job.call = n /\ IsInitialize(sent[n]) /\ sent' = sent
                     /\ job.phase \in {"reply", "miss"}
      BY <1>6 DEF HandleInitialize, HandleMiss, Missed, Job, world
    <2>2. tasks'[Main] = job /\ \A v \in Task \ {Main} : tasks'[v] = tasks[v]
      BY <1>0, <2>1, BecameOr
    <2> QED
      BY <1>1, <2>1, <2>2 DEF Serving
  <1>7. ASSUME NEW n \in 1..MaxCalls, HandleHit(n)
        PROVE  DueOK(tasks'[u], cassette, emitted', opened')
    <2> DEFINE ex == Match(n)
               job == Job("during", n, ex, FaultFor(sent[n].method), Ask(ex, "during"))
    <2>1. Become(Main, job) /\ Response(cassette, ex) # None /\ ~IsInitialize(sent[n])
      BY <1>7 DEF HandleHit
    <2>2. job.phase = "during" /\ job.ex = ex /\ job.queue = Ask(ex, "during")
      BY DEF Job
    <2>3. ex \in Exchanges(cassette)
      <3>1. cassette \in Seq({cassette[k] : k \in DOMAIN cassette})
        BY ReplayIsTyped DEF IsSeq
      <3>2. ex # None
        BY <2>1, <3>1, ResponseBelongs
      <3>3. ordering \in {"none", "per_method", "strict"}
        BY ConstantsAssumption DEF Rest, ordering
      <3> QED
        BY <3>1, <3>2, <3>3, MatchIsRecordedAndFresh DEF Match
    <2> HIDE DEF ex, job
    <2>4. DueOK(job, cassette, emitted, opened)
      BY <2>2, <2>3, AsksWhatIsDue DEF DueOK
    <2>5. DueOK(job, cassette, emitted', opened')
      BY <1>0, <2>4, DueStays
    <2>6. tasks'[Main] = job /\ \A v \in Task \ {Main} : tasks'[v] = tasks[v]
      BY <1>0, <2>1, BecameOr
    <2> QED
      BY <1>3, <2>5, <2>6
  <1>8. ASSUME NEW t \in Task, Write(t) PROVE DueOK(tasks'[u], cassette, emitted', opened')
    <2>1. /\ tasks'[u].phase = tasks[u].phase /\ tasks'[u].queue = tasks[u].queue
          /\ tasks'[u].ex = tasks[u].ex /\ tasks'[u].call = tasks[u].call
      BY <1>0, <1>8 DEF Write, Jobs
    <2> QED
      BY <1>3, <2>1
  <1>9. ASSUME NEW t \in Task, Resume(t) PROVE DueOK(tasks'[u], cassette, emitted', opened')
    <2> DEFINE j == tasks[t]
               job == [j EXCEPT !.queue = Tail(@), !.writing = FALSE]
    <2>1. /\ Become(t, job) /\ j.queue # <<>>
          /\ Head(j.queue).what = "ask" => Head(j.queue).seq \in emitted'
      BY <1>9 DEF Resume, TasksOK, JobOK
    <2>2. /\ job.phase = j.phase /\ job.ex = j.ex /\ job.call = j.call
          /\ job.queue = Tail(j.queue)
      BY <1>0 DEF Jobs
    <2> HIDE DEF job
    <2>3. tasks'[t] = job /\ \A v \in Task \ {t} : tasks'[v] = tasks[v]
      BY <2>1, BecameOr
    <2>4. CASE u # t
      BY <1>3, <2>3, <2>4
    <2>5. CASE u = t
      <3>1. DueOK(j, cassette, emitted, opened)
        BY <1>1, <1>2, <2>2, <2>3, <2>5 DEF ForInitialize
      <3>2. ASSUME j.phase = "during", NEW i \in DOMAIN j.queue
            PROVE  j.queue[i].seq \in emitted' \/ \E k \in DOMAIN job.queue : job.queue[k].seq = j.queue[i].seq
        <4>1. j.queue \in Seq(Items) /\ j.queue[i].what = "ask"
          BY <1>0, <3>2 DEF Lines, LineOK, Asking
        <4>2. i = 1 => j.queue[i].seq \in emitted'
          BY <2>1, <4>1, HeadAndTail
        <4>3. i # 1 => i - 1 \in DOMAIN job.queue /\ job.queue[i - 1] = j.queue[i]
          BY <2>1, <2>2, <4>1, <3>2
        <4> QED
          BY <4>2, <4>3
      <3> HIDE DEF j
      <3>4. DueOK(job, cassette, emitted', opened')
        BY <1>0, <2>2, <3>1, <3>2 DEF DueOK
      <3> QED
        BY <2>3, <2>5, <3>4
    <2> QED
      BY <2>4, <2>5
  <1>10. ASSUME NEW t \in Task, EndsJob(t) PROVE tasks'[u] = tasks[u]
    <2>1. PICK phase \in {"read", "idle", "end"} : Become(t, Idle(phase))
      BY <1>10 DEF EndsJob
    <2>2. Idle(phase).phase \notin Serving
      BY DEF Idle, Job, Serving
    <2> QED
      BY <1>1, <2>1, <2>2, BecameOr
  <1>11. ASSUME NEW t \in Task, NEW phase \in Phases, NEW q \in Seq(Items), GoesOn(t, phase, q)
         PROVE  DueOK(tasks'[u], cassette, emitted', opened')
    <2> DEFINE j == tasks[t]
               job == Job(phase, j.call, j.ex, j.fault, q)
    <2>1. /\ Become(t, job) /\ j.phase \in Serving /\ sent' = sent
          /\ job.phase = phase /\ job.ex = j.ex /\ job.call = j.call
      BY <1>11 DEF GoesOn, Stage, Job
    <2> HIDE DEF job
    <2>2. tasks'[t] = job /\ \A v \in Task \ {t} : tasks'[v] = tasks[v]
      BY <2>1, BecameOr
    <2>3. CASE u # t
      BY <1>3, <2>2, <2>3
    <2>4. CASE u = t
      <3>1. ~ForInitialize(t) /\ DueOK(j, cassette, emitted, opened)
        BY <1>1, <1>2, <2>1, <2>2, <2>4 DEF ForInitialize
      <3>2. phase # "during"
        BY <1>11, <3>1 DEF GoesOn, Places
      <3>3. phase # "gate"
        BY <1>11 DEF GoesOn
      <3>4. ASSUME phase = "reply", NEW s \in Due(cassette, j.ex) PROVE s \in opened
        <4>1. /\ j.phase = "gate" \/ (j.phase = "during" /\ j.queue = <<>>)
              /\ Blockers(j.ex) = {}
          BY <1>11, <3>4 DEF GoesOn
        <4>2. s \in emitted
          BY <3>1, <4>1 DEF DueOK
        <4>3. AnswerSeq(cassette, s) # None /\ AnswerSeq(cassette, s) < Response(cassette, j.ex)
          BY AnswerIsTyped, ResponseIsTyped DEF Due, None
        <4> QED
          BY <4>1, <4>2, <4>3 DEF Blockers, Gates
      <3>5. DueOK(job, cassette, emitted', opened')
        BY <1>0, <2>1, <3>2, <3>3, <3>4 DEF DueOK
      <3> QED
        BY <2>2, <2>4, <3>5
    <2> QED
      BY <2>3, <2>4
  <1> QED
    BY <1>4, <1>5, <1>6, <1>3, <1>7, <1>8, <1>9, <1>10, <1>11, Steps

\* A result is held until the client has answered what was asked of it in the exchange,
\* while other calls are answered beside it.
THEOREM ResultsAreHeld == ASSUME UniqueIds, PairedOnce PROVE Spec => HeldUntilAnswered
  <1> DEFINE All == PlayInv /\ HeldInv
  <1>1. Init => All
    <2> SUFFICES ASSUME Init PROVE All
      OBVIOUS
    <2>1. /\ \A t \in Task : tasks[t].phase = IF t = Main THEN "read" ELSE "idle"
          /\ opened = {} /\ stdin = <<>>
      BY DEF Init, Idle, Job
    <2>2. HeldInv
      BY <2>1 DEF HeldInv, Serving
    <2> QED
      BY <2>2, PlayStarts
  <1>2. Inv /\ All /\ [Next]_vars => All'
    BY PlayGoesOn, HeldStep DEF Inv, PlayInv
  <1>3. ASSUME Inv, All, [Next]_vars, NEW s \in Asks(cassette), shown' # shown,
               shown'[Len(shown')].what \in Replies,
               ~IsInitialize(sent[shown'[Len(shown')].call]),
               Anchor(cassette, s) = RequestOf(shown'[Len(shown')].seq),
               AnswerSeq(cassette, s) \in 1..(shown'[Len(shown')].seq - 1)
        PROVE  s \in replied
    <2> DEFINE last == shown'[Len(shown')]
    <2>1. PICK t \in Task : Write(t)
      <3>1. \E t \in Task : Write(t) \/ Resume(t) \/ EndsJob(t)
        BY <1>3, Steps DEF Inv, PlayInv, Elsewhere, Defer, HandleInitialize, HandleHit, HandleMiss,
           GoesOn
      <3> QED
        BY <1>3, <3>1 DEF Resume, EndsJob
    <2> DEFINE j == tasks[t]
    <2>2. j.queue \in Seq(Items) /\ j.queue # <<>> /\ shown' = Append(shown, Head(j.queue))
          /\ shown \in Seq(Items)
      BY <1>3, <2>1 DEF Write, Inv, TasksOK, Jobs, Rest
    <2>3. last = j.queue[1] /\ 1 \in DOMAIN j.queue
      BY <2>2, HeadAndTail, Appended
    <2>4. j.phase = "reply" /\ last.call = j.call /\ last.seq = Response(cassette, j.ex)
      BY <1>3, <2>3 DEF PlayInv, Lines, LineOK
    <2>5. j.ex \in Exchanges(cassette) /\ Response(cassette, j.ex) # None
      BY <1>3, <2>4, WhatRuns DEF Inv, PlayInv, Serving
    <2>6. RequestOf(last.seq) = j.ex
      BY <1>3, <2>4, <2>5, RequestOfResponse DEF Inv
    <2>7. s \in Due(cassette, j.ex)
      BY <1>3, <2>4, <2>6 DEF Due
    <2>8. DueOK(j, cassette, emitted, opened)
      BY <1>3, <2>4 DEF HeldInv, Serving, ForInitialize
    <2> QED
      BY <1>3, <2>4, <2>7, <2>8 DEF DueOK, HeldInv
  <1>4. Inv /\ All /\ [Next]_vars =>
          [\A s \in Asks(cassette) :
              shown' # shown /\ shown'[Len(shown')].what \in {"response", "error", "malformed"}
                => LET m == shown'[Len(shown')].seq
                   IN  ~IsInitialize(sent[shown'[Len(shown')].call])
                       /\ Anchor(cassette, s) = RequestOf(m)
                       /\ AnswerSeq(cassette, s) \in 1..(m - 1)
                       => s \in replied]_vars
    BY <1>3 DEF Replies
  <1> QED
    BY <1>1, <1>2, <1>4, Invariance, PTL DEF Spec, HeldUntilAnswered
=============================================================================
