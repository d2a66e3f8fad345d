-------------------------- MODULE HttpReplayProofs --------------------------
(***************************************************************************)
(* Proofs about HttpReplay.                                                *)
(*                                                                         *)
(* Each property has an inductive invariant of its own over TypeInv: the   *)
(* calls (CallInv), the misses (MissInv), the tape (TapeInv), the line of  *)
(* the listening stream (LineInv, AfterInv, Lossless), the exchange that   *)
(* is being served (OwnInv, ServeInv) and the asks (AskInv).  WhoChanges,  *)
(* WhoMoves, WhoShows and LineSteps say which step can touch which of      *)
(* them, so that each invariant is proved for these steps only.            *)
(***************************************************************************)
EXTENDS HttpReplay, MatchingProofs

Kinds == Final \cup {"ask", "note"}
Items == [what : Kinds, seq : Nat]
Phases == {"off", "posted", "serve", "miss", "hung", "live", "forwarded", "relay",
           "streaming", "done"}
Faulty == {"none"} \cup {overlay[k].type : k \in DOMAIN overlay}
Jobs ==
    {job \in [phase : Phases, ex : Nat, fault : Faulty, queue : Seq(DOMAIN cassette)] :
        job.phase = "serve" =>
            job.ex \in Exchanges(cassette) /\ Response(cassette, job.ex) # None}
Listeners == [at : {"off", "start", "next", "wait", "held"}, message : Nat, alive : BOOLEAN]
Messages == [sender : {"client", "server"}, kind : {"request", "response"}, call : Id]

\* The types of the variables; a job that is served has a recorded response.
TypeInv ==
    /\ setup \in DOMAIN Setups
    /\ sent \in Seq([call : Calls, session : BOOLEAN]) /\ Len(sent) <= MaxCalls
    /\ dropped \subseteq DOMAIN sent
    /\ replied \subseteq Asks(cassette) /\ mail \subseteq replied
    /\ listens \in 0..Setups[setup].streams
    /\ shown \in [Id -> Seq(Items)] /\ heard \in Seq(GetPlan)
    /\ used \subseteq Exchanges(cassette) /\ misses \in Seq(Id)
    /\ counts \in [Methods -> Nat]
    /\ opened \subseteq emitted /\ emitted \subseteq Asks(cassette)
    /\ tasks \in [Id -> Jobs]
    /\ unreleased \subseteq GetPlan /\ ready \in Seq(GetPlan)
    /\ listener \in Listeners
    /\ listener.at = "held" => listener.message \in GetPlan
    /\ listener.at # "held" => listener.message = None
    /\ tape \in Seq(Messages)
    /\ exit \in {"running", "0", "3", "error"}

\* A call is handled once, and consults the injector once.
Handled == {n \in Id : tasks[n].phase \notin {"off", "posted"}}
CallInv ==
    /\ \A n \in Id : tasks[n].phase = "off" <=> n \notin DOMAIN sent
    /\ \A m \in Methods : counts[m] <= Cardinality(Handled)
    /\ \A n \in Id : \A k \in DOMAIN shown[n] : n \in DOMAIN sent

\* A call that was shown the miss, or is going to be, is among the misses.
HasMissed(n) == \E i \in DOMAIN misses : misses[i] = n
MissInv ==
    /\ \A n \in Id : tasks[n].phase = "miss" => HasMissed(n)
    /\ \A n \in Id : \A k \in DOMAIN shown[n] : shown[n][k].what = "miss" => HasMissed(n)
    /\ \A n \in Id : tasks[n].phase \in {"live", "forwarded", "relay", "streaming"} => live
    /\ exit # "running" /\ ~live =>
          report = misses /\ (exit = "3" <=> misses # <<>> /\ ~disconnected)

\* What a client has been shown of the real server is on the tape.
Asking(t, n) == \E i \in DOMAIN t : t[i] = Message("client", "request", n)
Answering(t, n) ==
    \E i, j \in DOMAIN t : /\ i < j
                           /\ t[i] = Message("client", "request", n)
                           /\ t[j] = Message("server", "response", n)
TapeInv ==
    /\ \A n \in Id : tasks[n].phase = "forwarded" => Asking(tape, n)
    /\ \A n \in Id : tasks[n].phase = "relay" => Answering(tape, n)
    /\ \A n \in Id : \A k \in DOMAIN shown[n] :
          shown[n][k].what = "live" => Answering(tape, n)
    /\ exit # "running" /\ live => file = tape

\* The messages of the listening stream wait in a line: those of one call are in their
\* order, across what was heard, what the handler holds and what is ready, and none of
\* them is still on the plan.
Later(a, b) == Anchor(cassette, a) = Anchor(cassette, b) => a < b
Holding == listener.at = "held"
OnItsWay == {heard[k] : k \in DOMAIN heard} \cup {ready[k] : k \in DOMAIN ready}
            \cup (IF Holding THEN {listener.message} ELSE {})
LineInv ==
    /\ \A j, k \in DOMAIN heard : j < k => Later(heard[j], heard[k])
    /\ \A j, k \in DOMAIN ready : j < k => Later(ready[j], ready[k])
    /\ \A j \in DOMAIN heard, k \in DOMAIN ready : Later(heard[j], ready[k])
    /\ Holding => /\ \A j \in DOMAIN heard : Later(heard[j], listener.message)
                  /\ \A k \in DOMAIN ready : Later(listener.message, ready[k])
    /\ \A m \in unreleased, x \in OnItsWay : Anchor(cassette, x) # Anchor(cassette, m)

\* What has gone out of the exchange ex: marked if it was an ask, and shown to a client
\* that is still there.
Kind(ex, m) ==
    IF m = Response(cassette, ex) THEN "response"
    ELSE IF m \in Asks(cassette) THEN "ask" ELSE "note"
Passed(n, ex, m) ==
    /\ m \in Asks(cassette) => m \in emitted
    /\ n \in dropped \/ \E k \in DOMAIN shown[n] : shown[n][k] = Item(Kind(ex, m), m)
Queued(n, m) == \E k \in DOMAIN tasks[n].queue : tasks[n].queue[k] = m

\* What a call is served was recorded for it.
OwnInv ==
    \A n \in Id : tasks[n].phase = "serve" => Recorded(sent[n].call, tasks[n].ex)

\* The queue of the task is what the client has not been shown of its exchange, in order.
ServeInv ==
    \A n \in Id : tasks[n].phase = "serve" =>
        LET ex == tasks[n].ex
            q == tasks[n].queue
        IN  /\ \A k \in DOMAIN q : q[k] \in PostMessages(ex)
            /\ \A j, k \in DOMAIN q : j < k => q[j] < q[k]
            /\ \A m \in PostMessages(ex) :
                  (tasks[n].fault \in {"none", "delay", "disconnect_after"})
                  => Queued(n, m) \/ Passed(n, ex, m)

\* A message on its way was recorded before any call, or after one that was served.
Served(ex) ==
    \E n \in DOMAIN sent :
        /\ Recorded(sent[n].call, ex) /\ tasks[n].phase = "done"
        /\ \/ n \in dropped
           \/ \E i \in DOMAIN shown[n] : shown[n][i] = Item("response", Response(cassette, ex))
AfterInv ==
    \A x \in OnItsWay : Anchor(cassette, x) # None => Served(Anchor(cassette, x))

\* The client answers only what it was asked, and what it answers is open, or will be when
\* its answer arrives.
AskInv ==
    /\ \A n \in Id : \A k \in DOMAIN shown[n] :
          shown[n][k].what = "ask" => shown[n][k].seq \in emitted
    /\ \A k \in DOMAIN heard : heard[k] \in Asks(cassette) => heard[k] \in emitted
    /\ replied \subseteq emitted
    /\ opened \subseteq replied
    /\ replied \ mail \subseteq opened

\* While the only listening stream is open nothing of it is lost.
Lossless ==
    /\ listens = 0 => listener.at = "off"
    /\ listens = 0 \/ (listens = 1 /\ listener.at # "off") =>
          \A m \in GetPlan \ unreleased :
              \/ \E k \in DOMAIN ready : ready[k] = m
              \/ listener.message = m
              \/ m \in Asks(cassette) => m \in emitted

-----------------------------------------------------------------------------
(* What the operators return *)

\* The release of one or two exchanges flattens one or two sequences.
LEMMA Flattened ==
    ASSUME NEW S, NEW a \in Seq(S), NEW b \in Seq(S)
    PROVE  /\ FlattenSeq(<<>>) = <<>>
           /\ FlattenSeq(<<a>>) = a
           /\ FlattenSeq(<<a, b>>) = a \o b
  <1>1. FlattenSeq(<<>>) = <<>>
    BY DEF FlattenSeq
  <1>2. FlattenSeq(<<a>>) = a
    <2> DEFINE q == <<a>>
               F(f) == [i \in 1..Len(q) |-> IF i = 1 THEN q[i] ELSE f[i - 1] \o q[i]]
               w == [i \in 1..1 |-> a]
               g == CHOOSE f : f = F(f)
    <2>1. w = F(w)
      OBVIOUS
    <2>2. g = F(g)
      BY <2>1
    <2>3. g[1] = a
      <3> HIDE DEF g
      <3> QED
        BY <2>2
    <2>4. FlattenSeq(q) = g[Len(q)]
      BY DEF FlattenSeq
    <2> QED
      BY <2>3, <2>4
  <1>3. FlattenSeq(<<a, b>>) = a \o b
    <2> DEFINE q == <<a, b>>
               F(f) == [i \in 1..Len(q) |-> IF i = 1 THEN q[i] ELSE f[i - 1] \o q[i]]
               w == [i \in 1..2 |-> IF i = 1 THEN a ELSE a \o b]
               g == CHOOSE f : f = F(f)
    <2>1. w = F(w)
      OBVIOUS
    <2>2. g = F(g)
      BY <2>1
    <2>3. g[2] = a \o b
      <3> HIDE DEF g
      <3> QED
        BY <2>2
    <2>4. FlattenSeq(q) = g[Len(q)]
      BY DEF FlattenSeq
    <2> QED
      BY <2>3, <2>4
  <1> QED
    BY <1>1, <1>2, <1>3

\* What HttpAssumption says of the replay that was chosen.
LEMMA ReplayIsTyped ==
    ASSUME setup \in DOMAIN Setups
    PROVE  /\ IsSeq(cassette) /\ Len(cassette) \in Nat /\ DOMAIN cassette = 1..Len(cassette)
           /\ DOMAIN overlay \subseteq Nat \ {0} /\ live \in BOOLEAN
           /\ ordering \in {"per_method", "strict", "none"}
  <1>1. IsSeq(cassette) /\ IsSeq(overlay)
    BY HttpAssumption DEF cassette, overlay
  <1>2. Len(cassette) \in Nat /\ DOMAIN cassette = 1..Len(cassette)
    BY <1>1 DEF IsSeq
  <1>3. DOMAIN overlay \subseteq Nat \ {0}
    BY <1>1 DEF IsSeq
  <1> QED
    BY <1>1, <1>2, <1>3, HttpAssumption DEF live, ordering

LEMMA PlansAreTyped ==
    ASSUME setup \in DOMAIN Setups
    PROVE  /\ GetPlan \subseteq DOMAIN cassette /\ None \notin GetPlan
           /\ \A ex : PostMessages(ex) \subseteq DOMAIN cassette
           /\ DOMAIN cassette \subseteq Nat \ {None}
           /\ Asks(cassette) \subseteq DOMAIN cassette
           /\ Exchanges(cassette) \subseteq DOMAIN cassette
  BY ReplayIsTyped DEF GetPlan, PostMessages, Asks, Exchanges, Sent, None

LEMMA FaultIsTyped ==
    ASSUME setup \in DOMAIN Setups, NEW method
    PROVE  FaultFor(method) \in Faulty
  <1> DEFINE S == {k \in DOMAIN overlay :
                    overlay[k].method = method /\ overlay[k].nth \in {0, counts[method] + 1}}
  <1>1. S \in SUBSET Nat /\ S \subseteq DOMAIN overlay
    BY ReplayIsTyped
  <1> HIDE DEF S
  <1>2. First(S) \in S \cup {None}
    BY <1>1, FirstOf
  <1>3. FaultFor(method) = IF First(S) = None THEN "none" ELSE overlay[First(S)].type
    BY DEF FaultFor, S
  <1> QED
    BY <1>1, <1>2, <1>3 DEF Faulty

LEMMA MatchIsTyped ==
    ASSUME setup \in DOMAIN Setups, NEW n
    PROVE  /\ Match(n) \in Nat
           /\ Match(n) # None => /\ Match(n) \in Exchanges(cassette)
                                 /\ cassette[Match(n)].call = sent[n].call
  <1>1. Match(n) # None => /\ Match(n) \in Exchanges(cassette)
                           /\ cassette[Match(n)].call = sent[n].call
    BY ReplayIsTyped, MatchIsRecordedAndFresh DEF Match, IsSeq
  <1> QED
    BY <1>1, PlansAreTyped, NoneIsNat

LEMMA ResponseIsTyped ==
    ASSUME setup \in DOMAIN Setups, NEW ex
    PROVE  /\ Response(cassette, ex) \in Nat
           /\ Response(cassette, ex) # None =>
                 /\ Response(cassette, ex) \in Sent(cassette, "server", "response")
                 /\ Response(cassette, ex) \in DOMAIN cassette /\ ex # None
  <1>1. Response(cassette, ex) # None =>
                 Response(cassette, ex) \in Sent(cassette, "server", "response") /\ ex # None
    BY ReplayIsTyped, ResponseBelongs DEF IsSeq
  <1>2. Sent(cassette, "server", "response") \subseteq DOMAIN cassette
    BY DEF Sent
  <1> QED
    BY <1>1, <1>2, PlansAreTyped, NoneIsNat

LEMMA InitializeIsTyped ==
    ASSUME setup \in DOMAIN Setups
    PROVE  /\ Initialize \in Nat
           /\ Initialize # None => /\ Initialize \in Exchanges(cassette)
                                   /\ IsInitialize(cassette[Initialize].call)
  <1> DEFINE S == {ex \in Exchanges(cassette) : IsInitialize(cassette[ex].call)}
  <1>1. S \in SUBSET Nat
    BY PlansAreTyped
  <1> HIDE DEF S
  <1>2. First(S) \in S \cup {None}
    BY <1>1, FirstOf
  <1> QED
    BY <1>1, <1>2, NoneIsNat DEF Initialize, S

LEMMA OrderOf ==
    ASSUME setup \in DOMAIN Setups, NEW S \in SUBSET DOMAIN cassette
    PROVE  /\ InOrder(S) \in Seq(S) /\ InOrder(S) \in Seq(DOMAIN cassette)
           /\ \A k \in DOMAIN InOrder(S) : InOrder(S)[k] \in S
           /\ \A j, k \in DOMAIN InOrder(S) : j < k => InOrder(S)[j] < InOrder(S)[k]
           /\ \A m \in S : \E k \in DOMAIN InOrder(S) : InOrder(S)[k] = m
  <1>1. InOrder(S) \in Seq(S)
    BY ReplayIsTyped, InOrderIsOfThem
  <1>2. Seq(S) \subseteq Seq(DOMAIN cassette)
    BY SeqMonotonic
  <1>3. \A k \in DOMAIN InOrder(S) : InOrder(S)[k] \in S
    BY <1>1
  <1> QED
    BY <1>1, <1>2, <1>3, ReplayIsTyped, InOrderIsSorted

LEMMA ReplyIsTyped ==
    ASSUME setup \in DOMAIN Setups, NEW ex, Response(cassette, ex) # None
    PROVE  Reply(ex) \in Seq(DOMAIN cassette)
  <1>1. CASE Cardinality(PostMessages(ex)) > 1
    BY <1>1, OrderOf, PlansAreTyped DEF Reply
  <1>2. CASE ~(Cardinality(PostMessages(ex)) > 1)
    BY <1>2, ResponseIsTyped DEF Reply
  <1> QED
    BY <1>1, <1>2

\* What is replayed does not change.
LEMMA SameReplay ==
    ASSUME [Next]_vars
    PROVE  /\ setup' = setup /\ cassette' = cassette /\ overlay' = overlay
           /\ ordering' = ordering /\ live' = live /\ GetPlan' = GetPlan
           /\ Faulty' = Faulty /\ Jobs' = Jobs
  <1>1. setup' = setup
    BY DEF vars, Next, Client, ClientCall, ClientDrop, ClientAnswer, ClientListen,
       ClientHangUp, Task, Refuse, HandleInitialize, HandleHit, HandleMiss, SendUnmatched,
       Emit, EmitFails, Finish, Replace, Hang, Disconnect, Live, Forward, Unreachable,
       ReadBody, Relay, RelayEvents, EndStream, RelayFails, UpstreamBreaks, OnAnswer,
       Listening, StartStream, Take, Deliver, DeliverFails, Exit
  <1>2. cassette' = cassette /\ overlay' = overlay /\ ordering' = ordering /\ live' = live
    BY <1>1 DEF cassette, overlay, ordering, live
  <1>3. GetPlan' = GetPlan /\ Faulty' = Faulty
    BY <1>2 DEF GetPlan, Faulty
  <1> QED
    BY <1>1, <1>2, <1>3 DEF Jobs

\* Where the elements of a concatenation come from.
LEMMA Joined ==
    ASSUME NEW S, NEW a \in Seq(S), NEW b \in Seq(S)
    PROVE  /\ a \o b \in Seq(S) /\ Len(a \o b) = Len(a) + Len(b)
           /\ \A k \in DOMAIN a : k \in DOMAIN (a \o b) /\ (a \o b)[k] = a[k]
           /\ \A k \in DOMAIN b : Len(a) + k \in DOMAIN (a \o b) /\ (a \o b)[Len(a) + k] = b[k]
           /\ \A k \in DOMAIN (a \o b) :
                 \/ k \in DOMAIN a /\ (a \o b)[k] = a[k]
                 \/ k - Len(a) \in DOMAIN b /\ (a \o b)[k] = b[k - Len(a)] /\ k > Len(a)
  OBVIOUS

LEMMA Pair ==
    ASSUME NEW S, NEW x \in S, NEW y \in S
    PROVE  <<x>> \o <<y>> = <<x, y>>
  <1> DEFINE p == <<x>>
             q == <<y>>
             c == p \o q
             d == <<x, y>>
  <1>1. p \in Seq(S) /\ q \in Seq(S) /\ Len(p) = 1 /\ Len(q) = 1 /\ p[1] = x /\ q[1] = y
    OBVIOUS
  <1> HIDE DEF p, q
  <1>2. c \in Seq(S) /\ Len(c) = 2 /\ c[1] = x /\ c[2] = y
    <2>1. c \in Seq(S) /\ Len(c) = 2
      BY <1>1, Joined
    <2>2. 1 \in DOMAIN p /\ 1 \in DOMAIN q /\ Len(p) + 1 = 2
      BY <1>1
    <2>3. c[1] = p[1] /\ c[Len(p) + 1] = q[1]
      BY <1>1, <2>2, Joined
    <2> QED
      BY <1>1, <2>1, <2>2, <2>3
  <1>3. d \in Seq(S) /\ Len(d) = 2 /\ d[1] = x /\ d[2] = y
    OBVIOUS
  <1> HIDE DEF c, d
  <1>4. c = d
    BY <1>2, <1>3
  <1> QED
    BY <1>4 DEF c, d, p, q

\* The messages q for the listening stream that a release for the calls exs adds.
Picked(exs, q) ==
    /\ q \in Seq(unreleased)
    /\ \A j, k \in DOMAIN q : j < k => Later(q[j], q[k])
    /\ \A k \in DOMAIN q : \E i \in DOMAIN exs : Anchor(cassette, q[k]) = exs[i]
    /\ \A m \in unreleased : (\E i \in DOMAIN exs : Anchor(cassette, m) = exs[i])
                                => \E k \in DOMAIN q : q[k] = m

Moved(q) ==
    /\ ready' = ready \o q
    /\ unreleased' = unreleased \ {q[k] : k \in DOMAIN q}
    /\ listener' = IF q # <<>> /\ listener.at = "wait"
                   THEN [listener EXCEPT !.at = "next"] ELSE listener

LEMMA ReleaseAdds ==
    ASSUME setup \in DOMAIN Setups, unreleased \subseteq GetPlan, NEW n, NEW ex \in Nat, ex # None,
           NEW exs \in {Handshake(n), <<ex>> \o Handshake(n)}, Release(exs)
    PROVE  \E q : Picked(exs, q) /\ Moved(q)
  <1> DEFINE Part(x) == InOrder(Planned(x))
             F == [k \in DOMAIN exs |-> Part(exs[k])]
             q == FlattenSeq(F)
  <1>1. \A x : Planned(x) \in SUBSET DOMAIN cassette /\ Planned(x) \subseteq unreleased
    BY PlansAreTyped DEF Planned
  <1>2. ASSUME NEW x
        PROVE  /\ Part(x) \in Seq(unreleased)
               /\ \A k \in DOMAIN Part(x) : Anchor(cassette, Part(x)[k]) = x
               /\ \A j, k \in DOMAIN Part(x) : j < k => Part(x)[j] < Part(x)[k]
               /\ \A m \in unreleased :
                     Anchor(cassette, m) = x => \E k \in DOMAIN Part(x) : Part(x)[k] = m
    <2>1. Part(x) \in Seq(Planned(x))
      BY <1>1, OrderOf
    <2>2. Part(x) \in Seq(unreleased)
      BY <1>1, <2>1, SeqMonotonic
    <2>3. \A m \in unreleased : Anchor(cassette, m) = x => m \in Planned(x)
      BY DEF Planned
    <2>4. \A m \in Planned(x) : Anchor(cassette, m) = x
      BY DEF Planned
    <2> QED
      BY <1>1, <2>2, <2>3, <2>4, OrderOf
  <1> HIDE DEF Part
  <1>3. exs \in {<<>>, <<None>>, <<ex>>, <<ex, None>>}
    <2>1. Handshake(n) \in {<<>>, <<None>>}
      BY DEF Handshake
    <2>2. <<ex>> \in Seq(Nat) /\ None \in Nat
      BY NoneIsNat
    <2>3. <<ex>> \o <<>> = <<ex>> 
      BY <2>2
    <2>4. <<ex>> \o <<None>> = <<ex, None>>
      BY <2>2, Pair
    <2> QED
      BY <2>1, <2>3, <2>4
  <1>4. Picked(exs, q)
    <2>1. CASE exs = <<>>
      <3>1. F = <<>>
        BY <2>1
      <3> HIDE DEF F
      <3>2. q = <<>>
        <4>1. <<>> \in Seq(Nat)
          OBVIOUS
        <4> QED
          BY <3>1, <4>1, Flattened
      <3> QED
        BY <2>1, <3>2 DEF Picked
    <2>2. ASSUME NEW x, exs = <<x>> PROVE Picked(exs, q)
      <3>1. F = <<Part(x)>>
        BY <2>2
      <3> HIDE DEF F
      <3>2. q = Part(x)
        BY <1>2, <3>1, Flattened
      <3>3. \A i : i \in DOMAIN exs <=> i = 1
        BY <2>2
      <3> QED
        BY <1>2, <2>2, <3>2, <3>3 DEF Picked, Later
    <2>3. CASE exs = <<ex, None>>
      <3> DEFINE a == Part(ex)
                 b == Part(None)
      <3>1. F = <<a, b>>
        BY <2>3
      <3> HIDE DEF F
      <3>2. q = a \o b
        BY <1>2, <3>1, Flattened
      <3>3. /\ a \in Seq(unreleased) /\ b \in Seq(unreleased)
            /\ \A k \in DOMAIN a : Anchor(cassette, a[k]) = ex
            /\ \A k \in DOMAIN b : Anchor(cassette, b[k]) = None
            /\ \A j, k \in DOMAIN a : j < k => a[j] < a[k]
            /\ \A j, k \in DOMAIN b : j < k => b[j] < b[k]
            /\ \A m \in unreleased : /\ Anchor(cassette, m) = ex => \E k \in DOMAIN a : a[k] = m
                                     /\ Anchor(cassette, m) = None => \E k \in DOMAIN b : b[k] = m
        BY <1>2
      <3> HIDE DEF a, b, q
      <3>4. /\ q \in Seq(unreleased)
            /\ \A k \in DOMAIN a : k \in DOMAIN q /\ q[k] = a[k]
            /\ \A k \in DOMAIN b : Len(a) + k \in DOMAIN q /\ q[Len(a) + k] = b[k]
            /\ \A k \in DOMAIN q :
                 \/ k \in DOMAIN a /\ q[k] = a[k]
                 \/ k - Len(a) \in DOMAIN b /\ q[k] = b[k - Len(a)] /\ k > Len(a)
        BY <3>2, <3>3, Joined
      <3>5. \A i : i \in DOMAIN exs <=> i = 1 \/ i = 2
        BY <2>3
      <3>6. exs[1] = ex /\ exs[2] = None
        BY <2>3
      <3>7. \A k \in DOMAIN q : \E i \in DOMAIN exs : Anchor(cassette, q[k]) = exs[i]
        <4> SUFFICES ASSUME NEW k \in DOMAIN q
                     PROVE  Anchor(cassette, q[k]) = ex \/ Anchor(cassette, q[k]) = None
          BY <3>5, <3>6
        <4>1. CASE k \in DOMAIN a /\ q[k] = a[k]
          BY <4>1, <3>3
        <4>2. CASE k - Len(a) \in DOMAIN b /\ q[k] = b[k - Len(a)]
          BY <4>2, <3>3
        <4> QED
          BY <3>4, <4>1, <4>2
      <3>8. \A m \in unreleased : (\E i \in DOMAIN exs : Anchor(cassette, m) = exs[i])
                                => \E k \in DOMAIN q : q[k] = m
        <4> SUFFICES ASSUME NEW m \in unreleased, NEW i \in DOMAIN exs,
                            Anchor(cassette, m) = exs[i]
                     PROVE  \E k \in DOMAIN q : q[k] = m
          OBVIOUS
        <4>1. CASE exs[i] = ex
          BY <4>1, <3>3, <3>4
        <4>2. CASE exs[i] = None
          BY <4>2, <3>3, <3>4
        <4> QED
          BY <4>1, <4>2, <3>5, <3>6
      <3>9. ASSUME NEW j \in DOMAIN q, NEW k \in DOMAIN q, j < k,
                   Anchor(cassette, q[j]) = Anchor(cassette, q[k])
            PROVE  q[j] < q[k]
        <4>1. Len(a) \in Nat /\ DOMAIN a \subseteq Nat /\ DOMAIN q \subseteq Nat
          BY <3>3, <3>4
        <4>2. CASE j \in DOMAIN a /\ k \in DOMAIN a /\ q[j] = a[j] /\ q[k] = a[k]
          BY <4>2, <3>3, <3>9
        <4>3. CASE /\ j - Len(a) \in DOMAIN b /\ k - Len(a) \in DOMAIN b
                   /\ q[j] = b[j - Len(a)] /\ q[k] = b[k - Len(a)]
          <5>1. j - Len(a) < k - Len(a)
            BY <3>9, <4>1
          <5> QED
            BY <4>3, <5>1, <3>3
        <4> QED
          BY <4>2, <4>3, <3>3, <3>4, <3>9
      <3> QED
        BY <3>4, <3>7, <3>8, <3>9 DEF Picked, Later
    <2> QED
      BY <1>3, <2>1, <2>2, <2>3
  <1>5. Moved(q)
    BY DEF Release, Moved, ToSet, Part
  <1> HIDE DEF q
  <1> QED
    BY <1>4, <1>5

\* What the end of the call n moves from the plan to the queue.
Released(n, q) ==
    /\ q \in Seq(unreleased)
    /\ \A j, k \in DOMAIN q : j < k => Later(q[j], q[k])
    /\ \A k \in DOMAIN q :
          Anchor(cassette, q[k]) # None => Finish(n) /\ Anchor(cassette, q[k]) = tasks[n].ex
    /\ \A k \in DOMAIN q : \A m \in unreleased :
          Anchor(cassette, m) = Anchor(cassette, q[k]) => \E j \in DOMAIN q : q[j] = m
    /\ Moved(q)

LEMMA Releases ==
    ASSUME TypeInv, NEW n \in Id, Finish(n) \/ Replace(n) \/ Disconnect(n)
    PROVE  \E q : Released(n, q)
  <1>1. setup \in DOMAIN Setups /\ unreleased \subseteq GetPlan /\ tasks[n] \in Jobs
    BY DEF TypeInv
  <1>2. PICK ex, exs :
            /\ ex \in Nat /\ ex # None
            /\ exs \in {Handshake(n), <<ex>> \o Handshake(n)} /\ Release(exs)
            /\ exs = <<ex>> \o Handshake(n) => Finish(n) /\ ex = tasks[n].ex
    <2>1. CASE Finish(n)
      <3>1. tasks[n].ex \in Nat /\ tasks[n].ex # None
        BY <1>1, <2>1, PlansAreTyped DEF Jobs, Finish, Serving, At
      <3> QED
        BY <2>1, <3>1 DEF Finish
    <2>2. CASE Replace(n) \/ Disconnect(n)
      <3>1. 1 \in Nat /\ 1 # None /\ Release(Handshake(n))
        BY <2>2 DEF None, Replace, Disconnect
      <3>2. Handshake(n) # <<1>> \o Handshake(n)
        <4>1. Handshake(n) \in Seq(Nat)
          BY NoneIsNat DEF Handshake
        <4>2. <<1>> \in Seq(Nat) /\ Len(<<1>>) = 1
          OBVIOUS
        <4>3. Len(<<1>> \o Handshake(n)) = 1 + Len(Handshake(n)) /\ Len(Handshake(n)) \in Nat
          BY <4>1, <4>2, Joined
        <4> QED
          BY <4>3
      <3> QED
        BY <3>1, <3>2
    <2> QED
      BY <2>1, <2>2
  <1>3. \A i \in DOMAIN exs : exs[i] # None => Finish(n) /\ exs[i] = tasks[n].ex
    <2>1. CASE exs = Handshake(n)
      BY <2>1 DEF Handshake
    <2>2. CASE exs = <<ex>> \o Handshake(n)
      <3>1. <<ex>> \in Seq(Nat) /\ Handshake(n) \in Seq(Nat)
        BY <1>2, NoneIsNat DEF Handshake
      <3>2. \A i \in DOMAIN exs : exs[i] = ex \/ exs[i] = None
        BY <2>2, <3>1, Joined DEF Handshake
      <3> QED
        BY <1>2, <2>2, <3>2
    <2> QED
      BY <1>2, <2>1, <2>2
  <1>4. PICK q : Picked(exs, q) /\ Moved(q)
    BY <1>1, <1>2, ReleaseAdds
  <1>5. \A k \in DOMAIN q :
           Anchor(cassette, q[k]) # None => Finish(n) /\ Anchor(cassette, q[k]) = tasks[n].ex
    BY <1>3, <1>4 DEF Picked
  <1>6. \A k \in DOMAIN q : \A m \in unreleased :
          Anchor(cassette, m) = Anchor(cassette, q[k]) => \E j \in DOMAIN q : q[j] = m
    BY <1>4 DEF Picked
  <1> QED
    BY <1>4, <1>5, <1>6 DEF Released, Picked

LEMMA Shows ==
    ASSUME shown \in [Id -> Seq(Items)], NEW n \in Id, NEW item \in Items, Show(n, item)
    PROVE  /\ shown' \in [Id -> Seq(Items)]
           /\ \A m \in Id : \A k \in DOMAIN shown[m] :
                 k \in DOMAIN shown'[m] /\ shown'[m][k] = shown[m][k]
           /\ \A m \in Id : \A k \in DOMAIN shown'[m] :
                 \/ k \in DOMAIN shown[m] /\ shown'[m][k] = shown[m][k]
                 \/ m = n /\ n \notin dropped /\ shown'[m][k] = item
           /\ n \notin dropped => \E k \in DOMAIN shown'[n] : shown'[n][k] = item
  <1> DEFINE q == Append(shown[n], item)
  <1>1. CASE n \in dropped
    BY <1>1 DEF Show
  <1>2. CASE n \notin dropped
    <2>1. shown' = [shown EXCEPT ![n] = q]
      BY <1>2 DEF Show
    <2>2. shown[n] \in Seq(Items)
      OBVIOUS
    <2>3. /\ q \in Seq(Items)
          /\ \A k \in DOMAIN shown[n] : k \in DOMAIN q /\ q[k] = shown[n][k]
          /\ \A k \in DOMAIN q : \/ k \in DOMAIN shown[n] /\ q[k] = shown[n][k]
                                 \/ q[k] = item
          /\ \E k \in DOMAIN q : q[k] = item
      <3>1. Len(shown[n]) + 1 \in DOMAIN q /\ q[Len(shown[n]) + 1] = item
        BY <2>2, Appended
      <3> QED
        BY <2>2, <3>1, Appended
    <2> HIDE DEF q
    <2>4. shown'[n] = q /\ \A m \in Id \ {n} : shown'[m] = shown[m]
      BY <2>1
    <2>5. shown' \in [Id -> Seq(Items)]
      BY <2>1, <2>3
    <2> QED
      BY <1>2, <2>3, <2>4, <2>5
  <1> QED
    BY <1>1, <1>2

LEMMA Becomes ==
    ASSUME tasks \in [Id -> Jobs], NEW n \in Id, NEW job, Become(n, job)
    PROVE  /\ tasks'[n] = job /\ \A m \in Id \ {n} : tasks'[m] = tasks[m]
           /\ job \in Jobs => tasks' \in [Id -> Jobs]
  BY DEF Become

LEMMA IdleIsAJob ==
    ASSUME NEW phase \in Phases \ {"serve"}
    PROVE  Idle(phase) \in Jobs /\ Idle(phase).phase = phase
  BY NoneIsNat DEF Idle, Job, Jobs, Faulty

-----------------------------------------------------------------------------
(* Which step changes what *)

\* For each variable, the actions that change it.
LEMMA WhoChanges ==
    ASSUME [Next]_vars
    PROVE  /\ \/ UNCHANGED sent
              \/ \E call \in Calls : ClientCall(call)
           /\ \/ UNCHANGED dropped
              \/ \E n \in Id : ClientDrop(n)
           /\ \/ UNCHANGED <<replied, mail>>
              \/ \E ask \in Asks(cassette) : ClientAnswer(ask) \/ OnAnswer(ask)
           /\ \/ UNCHANGED replied
              \/ \E ask \in Asks(cassette) : ClientAnswer(ask)
           /\ \/ UNCHANGED listens
              \/ ClientListen
           /\ \/ UNCHANGED shown
              \/ \E n \in Id : Task(n)
           /\ \/ UNCHANGED tasks
              \/ \E call \in Calls : ClientCall(call)
              \/ \E n \in Id : Task(n)
           /\ \/ UNCHANGED heard
              \/ Deliver
           /\ \/ UNCHANGED <<used, counts>>
              \/ \E n \in Id : Find(n) /\ Task(n)
              \/ \E n \in Id : HandleInitialize(n)
           /\ \/ UNCHANGED used
              \/ \E n \in Id : Find(n)
           /\ \/ UNCHANGED misses
              \/ \E n \in Id : HandleInitialize(n) \/ HandleMiss(n)
           /\ \/ UNCHANGED emitted
              \/ \E n \in Id : Emit(n)
              \/ Deliver
           /\ \/ UNCHANGED opened
              \/ \E ask \in Asks(cassette) : OnAnswer(ask)
           /\ \/ UNCHANGED <<unreleased, ready>>
              \/ Take
              \/ \E n \in Id : Finish(n) \/ Replace(n) \/ Disconnect(n)
           /\ \/ UNCHANGED listener
              \/ ClientListen \/ ClientHangUp \/ Listening
              \/ \E n \in Id : Finish(n) \/ Replace(n) \/ Disconnect(n)
           /\ \/ UNCHANGED tape
              \/ \E n \in Id : Forward(n) \/ ReadBody(n) \/ RelayEvents(n)
           /\ \/ UNCHANGED <<exit, report, file>>
              \/ Exit
              \/ \E n \in Id : UpstreamBreaks(n)
           /\ \/ UNCHANGED disconnected
              \/ \E n \in Id : Disconnect(n)
  <1>1. CASE UNCHANGED vars
    BY <1>1 DEF vars, client, received, matcher, tracker, stream, outcome
  <1>2. CASE Client
    BY <1>2 DEF Client, ClientCall, ClientDrop, ClientAnswer, ClientListen, ClientHangUp,
       client, received, matcher, tracker, stream, outcome
  <1>3. CASE \E ask \in Asks(cassette) : OnAnswer(ask)
    BY <1>3 DEF OnAnswer, client, received, matcher, tracker, stream, outcome
  <1>4. CASE Listening
    BY <1>4 DEF Listening, StartStream, Take, Deliver, DeliverFails, client, received,
       matcher, tracker, stream, outcome
  <1>5. CASE Exit
    BY <1>5 DEF Exit, client, received, matcher, tracker, stream, outcome
  <1>6. ASSUME NEW n \in Id, Task(n)
        PROVE  /\ UNCHANGED <<sent, dropped, replied, mail, listens, heard, opened>>
               /\ UNCHANGED <<used, counts>> \/ Find(n) \/ HandleInitialize(n)
               /\ UNCHANGED used \/ Find(n)
               /\ UNCHANGED misses \/ HandleInitialize(n) \/ HandleMiss(n)
               /\ UNCHANGED emitted \/ Emit(n)
               /\ UNCHANGED stream \/ Finish(n) \/ Replace(n) \/ Disconnect(n)
               /\ UNCHANGED tape \/ Forward(n) \/ ReadBody(n) \/ RelayEvents(n)
               /\ UNCHANGED <<exit, report, file>> \/ UpstreamBreaks(n)
               /\ UNCHANGED disconnected \/ Disconnect(n)
    <2>1. CASE Live(n)
      BY <2>1 DEF Live, Forward, Unreachable, ReadBody, Relay, RelayEvents, EndStream,
         RelayFails, UpstreamBreaks, client, received, matcher, tracker, stream, outcome
    <2>2. CASE \/ Refuse(n) \/ HandleInitialize(n) \/ HandleHit(n) \/ HandleMiss(n)
               \/ SendUnmatched(n)
      BY <2>2 DEF Refuse, HandleInitialize, HandleHit, HandleMiss, SendUnmatched, client,
         received, matcher, tracker, stream, outcome
    <2>3. CASE Emit(n) \/ EmitFails(n) \/ Finish(n) \/ Replace(n) \/ Hang(n) \/ Disconnect(n)
      BY <2>3 DEF Emit, EmitFails, Finish, Replace, Hang, Disconnect, client,
         received, matcher, tracker, stream, outcome
    <2> QED
      BY <1>6, <2>1, <2>2, <2>3 DEF Task
  <1> QED
    BY <1>1, <1>2, <1>3, <1>4, <1>5, <1>6 DEF Next, stream

\* A step of a task leaves it with a job that is not a new one; it shows the client one
\* item at most.
LEMMA TaskSteps ==
    ASSUME TypeInv, NEW n \in Id, Task(n)
    PROVE  /\ exit = "running"
           /\ tasks[n].phase \notin {"off", "done", "hung"}
           /\ UNCHANGED shown \/ \E item \in Items : Show(n, item)
           /\ \E job \in Jobs : Become(n, job) /\ job.phase \notin {"off", "posted"}
  <1>1. CASE Live(n)
    <2>1. Item("502", None) \in Items /\ Item("live", None) \in Items
      BY NoneIsNat DEF Item, Items, Kinds, Final
    <2>2. \A phase \in Phases \ {"serve"} : Idle(phase) \in Jobs /\ Idle(phase).phase = phase
      BY IdleIsAJob
    <2>3. {"forwarded", "relay", "streaming", "done"} \subseteq Phases \ {"serve"}
      BY DEF Phases
    <2>4. CASE UpstreamBreaks(n)
      <3>1. tasks[n] \in Jobs /\ Become(n, tasks[n])
        BY <2>4 DEF UpstreamBreaks, TypeInv, Become
      <3> QED
        BY <2>4, <3>1 DEF UpstreamBreaks, At, Running, received
    <2>5. CASE ~UpstreamBreaks(n)
      BY <1>1, <2>1, <2>2, <2>3, <2>5 DEF Live, Forward, Unreachable, ReadBody, Relay,
         RelayEvents, EndStream, RelayFails, At, Running, Closed, received
    <2> QED
      BY <2>4, <2>5
  <1>2. CASE \/ Refuse(n) \/ SendUnmatched(n) \/ EmitFails(n) \/ Hang(n) \/ Disconnect(n)
    <2>1. Item("404", None) \in Items /\ Item("miss", None) \in Items
          /\ Item("closed", None) \in Items
      BY NoneIsNat DEF Item, Items, Kinds, Final
    <2>2. /\ Idle("done") \in Jobs /\ Idle("done").phase = "done"
          /\ Idle("hung") \in Jobs /\ Idle("hung").phase = "hung"
      BY IdleIsAJob DEF Phases
    <2> QED
      BY <1>2, <2>1, <2>2 DEF Refuse, SendUnmatched, EmitFails, Hang, Disconnect, At,
         Running, Serving, Closed, received
  <1>3. CASE HandleInitialize(n)
    <2>1. ASSUME Response(cassette, Initialize) # None
          PROVE  Job("serve", Initialize, FaultFor("initialize"), Reply(Initialize)) \in Jobs
      <3>1. setup \in DOMAIN Setups
        BY DEF TypeInv
      <3>2. Initialize \in Nat /\ Initialize \in Exchanges(cassette)
        BY <2>1, <3>1, ResponseIsTyped, InitializeIsTyped
      <3>3. Reply(Initialize) \in Seq(DOMAIN cassette) /\ FaultFor("initialize") \in Faulty
        BY <2>1, <3>1, FaultIsTyped, ReplyIsTyped
      <3>4. "serve" \in Phases
        BY DEF Phases
      <3> QED
        BY <2>1, <3>2, <3>3, <3>4 DEF Job, Jobs
    <2>2. Idle("miss") \in Jobs /\ Idle("miss").phase = "miss"
      BY IdleIsAJob DEF Phases
    <2>3. Job("serve", Initialize, FaultFor("initialize"), Reply(Initialize)).phase = "serve"
      BY DEF Job
    <2> QED
      BY <1>3, <2>1, <2>2, <2>3 DEF HandleInitialize, At, Running, received
  <1>4. CASE HandleHit(n)
    <2>1. ASSUME Response(cassette, Match(n)) # None
          PROVE  Job("serve", Match(n), FaultFor(sent[n].call.method), Reply(Match(n))) \in Jobs
      <3>1. setup \in DOMAIN Setups
        BY DEF TypeInv
      <3>2. Match(n) \in Nat /\ Match(n) \in Exchanges(cassette)
        BY <2>1, <3>1, ResponseIsTyped, MatchIsTyped, PlansAreTyped
      <3>3. Reply(Match(n)) \in Seq(DOMAIN cassette) /\ FaultFor(sent[n].call.method) \in Faulty
        BY <2>1, <3>1, FaultIsTyped, ReplyIsTyped
      <3>4. "serve" \in Phases
        BY DEF Phases
      <3> QED
        BY <2>1, <3>2, <3>3, <3>4 DEF Job, Jobs
    <2>2. Job("serve", Match(n), FaultFor(sent[n].call.method), Reply(Match(n))).phase = "serve"
      BY DEF Job
    <2> QED
      BY <1>4, <2>1, <2>2 DEF HandleHit, Find, At, Running, received
  <1>5. CASE HandleMiss(n)
    <2>1. /\ Idle(IF live THEN "live" ELSE "miss") \in Jobs
          /\ Idle(IF live THEN "live" ELSE "miss").phase \in {"live", "miss"}
      BY IdleIsAJob DEF Phases
    <2> QED
      BY <1>5, <2>1 DEF HandleMiss, Find, At, Running, received
  <1>6. CASE Emit(n)
    <2> DEFINE m == Head(tasks[n].queue)
               job == [tasks[n] EXCEPT !.queue = Tail(@)]
    <2>1. tasks[n] \in Jobs /\ tasks[n].queue # <<>>
      BY <1>6 DEF Emit, TypeInv
    <2>2. tasks[n].queue \in Seq(DOMAIN cassette)
      BY <2>1 DEF Jobs
    <2>3. m \in DOMAIN cassette /\ Tail(tasks[n].queue) \in Seq(DOMAIN cassette)
      BY <2>1, <2>2, HeadAndTail
    <2>4. m \in Nat /\ What(n, m) \in {"response", "ask", "note"}
      BY <2>3, PlansAreTyped DEF TypeInv, What
    <2>5. Item(What(n, m), m) \in Items
      BY <2>4 DEF Item, Items, Kinds, Final
    <2>6. job \in Jobs /\ job.phase = tasks[n].phase
      BY <2>1, <2>3 DEF Jobs
    <2>7. Become(n, job)
      BY <1>6 DEF Emit, Become
    <2> QED
      BY <1>6, <2>5, <2>6, <2>7 DEF Emit, Serving, At, Running
  <1>7. CASE Finish(n)
    BY <1>7, IdleIsAJob DEF Finish, Serving, At, Running, Closed, Phases, received
  <1>8. CASE Replace(n)
    <2>1. Item(tasks[n].fault, Response(cassette, tasks[n].ex)) \in Items
      BY <1>8, ResponseIsTyped DEF Replace, TypeInv, Item, Items, Kinds, Final
    <2> QED
      BY <1>8, <2>1, IdleIsAJob DEF Replace, At, Running, Closed, Phases
  <1> QED
    BY <1>1, <1>2, <1>3, <1>4, <1>5, <1>6, <1>7, <1>8 DEF Task

\* What the client is shown tells the action.
LEMMA TaskShows ==
    ASSUME TypeInv, NEW n \in Id, Task(n)
    PROVE  \/ UNCHANGED shown
           \/ \E item \in Items :
                 /\ Show(n, item)
                 /\ item.what = "miss" => tasks[n].phase = "miss"
                 /\ item.what = "live" => Relay(n) \/ RelayEvents(n)
                 /\ item.what \in {"response", "ask", "note"} =>
                       Emit(n) /\ item = Item(What(n, Head(tasks[n].queue)), Head(tasks[n].queue))
  <1> DEFINE Goal(item) ==
                 /\ item \in Items /\ Show(n, item)
                 /\ item.what = "miss" => tasks[n].phase = "miss"
                 /\ item.what = "live" => Relay(n) \/ RelayEvents(n)
                 /\ item.what \in {"response", "ask", "note"} =>
                       Emit(n) /\ item = Item(What(n, Head(tasks[n].queue)), Head(tasks[n].queue))
  <1>0. \A what, s : Item(what, s).what = what
    BY DEF Item
  <1>1. ASSUME NEW what \in {"404", "502", "closed", "error", "malformed"}, NEW s \in Nat,
               Show(n, Item(what, s))
        PROVE  Goal(Item(what, s))
    BY <1>1 DEF Item, Items, Kinds, Final
  <1>2. CASE SendUnmatched(n)
    <2>1. Goal(Item("miss", None))
      BY <1>2, NoneIsNat DEF SendUnmatched, At, Item, Items, Kinds, Final
    <2> QED
      BY <2>1
  <1>3. CASE Relay(n) \/ RelayEvents(n)
    <2>1. Goal(Item("live", None))
      BY <1>3, NoneIsNat DEF Relay, RelayEvents, Item, Items, Kinds, Final
    <2> QED
      BY <2>1
  <1>4. CASE Refuse(n) \/ Disconnect(n) \/ Unreachable(n)
    BY <1>1, <1>4, NoneIsNat DEF Refuse, Disconnect, Unreachable
  <1>5. CASE Replace(n)
    <2>1. tasks[n].fault \in {"error", "malformed"} /\ Response(cassette, tasks[n].ex) \in Nat
      BY <1>5, ResponseIsTyped DEF Replace, TypeInv
    <2>2. Goal(Item(tasks[n].fault, Response(cassette, tasks[n].ex)))
      BY <1>1, <1>5, <2>1 DEF Replace
    <2> QED
      BY <2>2
  <1>6. CASE Emit(n)
    <2> DEFINE m == Head(tasks[n].queue)
    <2>1. m \in Nat /\ What(n, m) \in {"response", "ask", "note"}
      <3>1. tasks[n].queue \in Seq(DOMAIN cassette) /\ tasks[n].queue # <<>>
        BY <1>6 DEF Emit, TypeInv, Jobs
      <3> QED
        BY <3>1, HeadAndTail, PlansAreTyped DEF TypeInv, What
    <2>2. Goal(Item(What(n, m), m))
      <3>1. Item(What(n, m), m) \in Items
        BY <2>1 DEF Item, Items, Kinds, Final
      <3>2. Item(What(n, m), m).what \notin {"miss", "live"}
        BY <1>0, <2>1
      <3>3. Show(n, Item(What(n, m), m))
        BY <1>6 DEF Emit
      <3> QED
        BY <1>6, <3>1, <3>2, <3>3
    <2> QED
      BY <2>2
  <1>7. CASE \/ HandleInitialize(n) \/ HandleHit(n) \/ HandleMiss(n) \/ EmitFails(n)
             \/ Finish(n) \/ Hang(n) \/ Forward(n) \/ ReadBody(n) \/ EndStream(n)
             \/ RelayFails(n) \/ UpstreamBreaks(n)
    BY <1>7 DEF HandleInitialize, HandleHit, HandleMiss, EmitFails, Finish, Hang, Forward,
       ReadBody, EndStream, RelayFails, UpstreamBreaks, received
  <1> QED
    BY <1>2, <1>3, <1>4, <1>5, <1>6, <1>7 DEF Task, Live

\* The phase that a task is in next tells the action.
LEMMA TaskMoves ==
    ASSUME TypeInv, NEW n \in Id, Task(n)
    PROVE  \/ tasks'[n].phase = tasks[n].phase
           \/ tasks'[n].phase = "serve" /\ (HandleInitialize(n) \/ HandleHit(n))
           \/ tasks'[n].phase = "miss" /\ misses' = Append(misses, n)
           \/ tasks'[n].phase = "live" /\ live
           \/ tasks'[n].phase = "forwarded" /\ Forward(n)
           \/ tasks'[n].phase = "relay" /\ ReadBody(n)
           \/ tasks'[n].phase = "streaming" /\ RelayEvents(n)
           \/ tasks'[n].phase = "hung" /\ Hang(n)
           \/ tasks'[n].phase = "done"
  <1>1. ASSUME NEW phase, Become(n, Idle(phase)) PROVE tasks'[n].phase = phase
    BY <1>1, Becomes DEF TypeInv, Idle, Job
  <1>2. CASE Live(n)
    BY <1>1, <1>2 DEF Live, Forward, Unreachable, ReadBody, Relay, RelayEvents, EndStream,
       RelayFails, UpstreamBreaks, Closed
  <1>3. CASE HandleInitialize(n) \/ HandleHit(n)
    <2>1. ASSUME NEW ex, NEW fault, NEW queue, Become(n, Job("serve", ex, fault, queue))
          PROVE  tasks'[n].phase = "serve"
      BY <2>1, Becomes DEF TypeInv, Job
    <2> QED
      BY <1>1, <1>3, <2>1 DEF HandleInitialize, HandleHit
  <1>4. CASE HandleMiss(n)
    BY <1>1, <1>4 DEF HandleMiss
  <1>5. CASE Emit(n)
    <2>1. tasks[n] \in Jobs
      BY DEF TypeInv
    <2> QED
      BY <1>5, <2>1 DEF Emit, TypeInv, Jobs
  <1>6. CASE \/ Refuse(n) \/ SendUnmatched(n) \/ EmitFails(n) \/ Finish(n) \/ Replace(n)
             \/ Hang(n) \/ Disconnect(n)
    BY <1>1, <1>6 DEF Refuse, SendUnmatched, EmitFails, Finish, Replace, Hang, Disconnect,
       Closed
  <1> QED
    BY <1>2, <1>3, <1>4, <1>5, <1>6 DEF Task

\* The task of a call changes by its own steps only, once the call was made.
LEMMA WhoMoves ==
    ASSUME TypeInv, [Next]_vars, NEW n \in Id, tasks'[n] # tasks[n]
    PROVE  \/ \E call \in Calls : ClientCall(call) /\ tasks'[n] = Idle("posted")
           \/ Task(n)
  <1>1. CASE \E call \in Calls : ClientCall(call)
    <2>1. PICK call \in Calls : ClientCall(call)
      BY <1>1
    <2>2. tasks' = [tasks EXCEPT ![Len(sent) + 1] = Idle("posted")]
      BY <2>1 DEF ClientCall
    <2> QED
      BY <2>1, <2>2 DEF TypeInv
  <1>2. ASSUME NEW m \in Id, Task(m) PROVE Task(n)
    BY <1>2, TaskSteps, Becomes DEF TypeInv
  <1> QED
    BY <1>1, <1>2, WhoChanges

\* An item that is new on the stream of a call was shown by its task.
LEMMA WhoShows ==
    ASSUME TypeInv, [Next]_vars, NEW n \in Id, NEW k \in DOMAIN shown'[n]
    PROVE  \/ k \in DOMAIN shown[n] /\ shown'[n][k] = shown[n][k]
           \/ /\ Task(n) /\ n \notin dropped
              /\ shown'[n][k].what = "miss" => tasks[n].phase = "miss"
              /\ shown'[n][k].what = "live" => Relay(n) \/ RelayEvents(n)
              /\ shown'[n][k].what \in {"response", "ask", "note"} =>
                    /\ Emit(n)
                    /\ shown'[n][k] = Item(What(n, Head(tasks[n].queue)), Head(tasks[n].queue))
  <1>1. CASE UNCHANGED shown
    BY <1>1
  <1>2. CASE \E m \in Id : Task(m)
    <2>1. PICK m \in Id : Task(m)
      BY <1>2
    <2>2. CASE ~UNCHANGED shown
      <3>1. PICK item \in Items :
                 /\ Show(m, item)
                 /\ item.what = "miss" => tasks[m].phase = "miss"
                 /\ item.what = "live" => Relay(m) \/ RelayEvents(m)
                 /\ item.what \in {"response", "ask", "note"} =>
                       Emit(m) /\ item = Item(What(m, Head(tasks[m].queue)), Head(tasks[m].queue))
        BY <2>1, <2>2, TaskShows
      <3>2. \/ k \in DOMAIN shown[n] /\ shown'[n][k] = shown[n][k]
            \/ n = m /\ n \notin dropped /\ shown'[n][k] = item
        BY <3>1, Shows DEF TypeInv
      <3> QED
        BY <2>1, <3>1, <3>2
    <2> QED
      BY <1>1, <2>2
  <1> QED
    BY <1>1, <1>2, WhoChanges

-----------------------------------------------------------------------------
(* The type invariant *)

LEMMA TypeInit == Init => TypeInv
  <1> SUFFICES ASSUME Init PROVE TypeInv
    OBVIOUS
  <1>1. setup \in DOMAIN Setups /\ MaxCalls \in Nat /\ Setups[setup].streams \in Nat
    BY HttpAssumption DEF Init
  <1>2. shown \in [Id -> Seq(Items)] /\ \A m \in Methods : counts[m] = 0
    BY DEF Init
  <1>3. counts \in [Methods -> Nat]
    BY DEF Init
  <1>4. tasks \in [Id -> Jobs]
    BY IdleIsAJob DEF Init, Phases
  <1>5. listener \in Listeners /\ listener.at = "off" /\ listener.message = None
    BY NoneIsNat DEF Init, Listener, Listeners
  <1>6. /\ sent \in Seq([call : Calls, session : BOOLEAN]) /\ Len(sent) <= MaxCalls
        /\ heard \in Seq(GetPlan) /\ misses \in Seq(Id) /\ ready \in Seq(GetPlan)
        /\ tape \in Seq(Messages)
    BY <1>1 DEF Init
  <1>7. listens \in 0..Setups[setup].streams
    BY <1>1 DEF Init
  <1> QED
    BY <1>1, <1>2, <1>3, <1>4, <1>5, <1>6, <1>7 DEF Init, TypeInv

\* The line of the listening stream.
LEMMA StreamTypeStep ==
    ASSUME TypeInv, [Next]_vars
    PROVE  /\ unreleased' \subseteq GetPlan /\ ready' \in Seq(GetPlan)
           /\ listener' \in Listeners
           /\ listener'.at = "held" => listener'.message \in GetPlan
           /\ listener'.at # "held" => listener'.message = None
  <1> USE DEF TypeInv
  <1>0. /\ listener.at \in {"off", "start", "next", "wait", "held"}
        /\ listener.message \in Nat /\ listener.alive \in BOOLEAN
    BY DEF Listeners
  <1>1. CASE UNCHANGED <<unreleased, ready, listener>>
    BY <1>1
  <1>2. CASE ClientListen
    BY <1>2, <1>0, NoneIsNat DEF ClientListen, Listener, Listeners
  <1>3. CASE ClientHangUp
    <2>1. listener' = [listener EXCEPT !.alive = FALSE]
      BY <1>3 DEF ClientHangUp
    <2>2. listener' \in Listeners /\ listener'.at = listener.at
          /\ listener'.message = listener.message
      BY <2>1 DEF Listeners
    <2> QED
      BY <1>3, <2>2 DEF ClientHangUp
  <1>4. CASE StartStream
    <2>1. \/ listener' = [listener EXCEPT !.at = "next"]
          \/ listener' = Listener("off", None, FALSE)
      BY <1>4 DEF StartStream
    <2>2. /\ listener' \in Listeners /\ listener'.at \in {"next", "off"}
          /\ listener'.message = None
      <3>1. listener.message = None
        BY <1>4 DEF StartStream
      <3>2. CASE listener' = [listener EXCEPT !.at = "next"]
        BY <3>1, <3>2 DEF Listeners
      <3>3. CASE listener' = Listener("off", None, FALSE)
        BY <3>3, NoneIsNat DEF Listener, Listeners
      <3> QED
        BY <2>1, <3>2, <3>3
    <2> QED
      BY <1>4, <2>2 DEF StartStream
  <1>5. CASE Take
    <2>1. CASE ready = <<>>
      <3>1. listener' = [listener EXCEPT !.at = "wait"]
        BY <1>5, <2>1 DEF Take
      <3>2. listener' \in Listeners /\ listener'.at = "wait" /\ listener'.message = None
        BY <1>5, <3>1 DEF Take, Listeners
      <3> QED
        BY <1>5, <2>1, <3>2 DEF Take
    <2>2. CASE ready # <<>>
      <3>1. Head(ready) \in GetPlan /\ Tail(ready) \in Seq(GetPlan)
        BY <2>2, HeadAndTail
      <3>2. Head(ready) \in Nat
        BY <3>1, PlansAreTyped
      <3>3. listener' = Listener("held", Head(ready), listener.alive)
        BY <1>5, <2>2 DEF Take
      <3> QED
        BY <1>0, <1>5, <2>2, <3>1, <3>2, <3>3 DEF Take, Listener, Listeners
    <2> QED
      BY <2>1, <2>2
  <1>6. CASE Deliver \/ DeliverFails
    <2>1. \/ listener' = Listener("next", None, listener.alive)
          \/ listener' = Listener("off", None, FALSE)
      BY <1>6 DEF Deliver, DeliverFails
    <2>2. /\ listener' \in Listeners /\ listener'.at \in {"next", "off"}
          /\ listener'.message = None
      <3>1. CASE listener' = Listener("next", None, listener.alive)
        BY <1>0, <3>1, NoneIsNat DEF Listener, Listeners
      <3>2. CASE listener' = Listener("off", None, FALSE)
        BY <3>2, NoneIsNat DEF Listener, Listeners
      <3> QED
        BY <2>1, <3>1, <3>2
    <2> QED
      BY <1>6, <2>2 DEF Deliver, DeliverFails
  <1>7. ASSUME NEW n \in Id, Finish(n) \/ Replace(n) \/ Disconnect(n)
        PROVE  /\ unreleased' \subseteq GetPlan /\ ready' \in Seq(GetPlan)
               /\ listener' \in Listeners
               /\ listener'.message = listener.message
               /\ listener'.at = "held" <=> listener.at = "held"
    <2>1. PICK q : /\ q \in Seq(unreleased) /\ ready' = ready \o q
                   /\ unreleased' \subseteq unreleased
                   /\ \/ listener' = listener
                      \/ listener.at = "wait" /\ listener' = [listener EXCEPT !.at = "next"]
      BY <1>7, Releases DEF Released, Moved
    <2>2. q \in Seq(GetPlan)
      BY <2>1, SeqMonotonic
    <2>3. ready' \in Seq(GetPlan)
      BY <2>1, <2>2, Joined
    <2> QED
      BY <1>0, <2>1, <2>3 DEF Listeners
  <1>8. CASE \E n \in Id : Finish(n) \/ Replace(n) \/ Disconnect(n)
    BY <1>8, <1>7
  <1> QED
    BY <1>1, <1>2, <1>3, <1>4, <1>5, <1>6, <1>8, WhoChanges DEF Listening

LEMMA TypeStep == TypeInv /\ [Next]_vars => TypeInv'
  <1> SUFFICES ASSUME TypeInv, [Next]_vars PROVE TypeInv'
    OBVIOUS
  <1>0. setup \in DOMAIN Setups
    BY DEF TypeInv
  <1> USE DEF TypeInv
  <1>1. sent' \in Seq([call : Calls, session : BOOLEAN]) /\ Len(sent') <= MaxCalls
        /\ DOMAIN sent \subseteq DOMAIN sent'
    <2>1. CASE \E call \in Calls : ClientCall(call)
      <3>1. PICK call \in Calls : ClientCall(call)
        BY <2>1
      <3>2. [call |-> call, session |-> InSession] \in [call : Calls, session : BOOLEAN]
        BY DEF InSession
      <3>3. Len(sent) + 1 <= MaxCalls
        BY <3>1, HttpAssumption DEF ClientCall
      <3> QED
        BY <3>1, <3>2, <3>3, Appended DEF ClientCall
    <2> QED
      BY <2>1, WhoChanges
  <1>2. dropped' \subseteq DOMAIN sent'
    <2>1. CASE \E n \in Id : ClientDrop(n)
      BY <2>1, <1>1 DEF ClientDrop
    <2> QED
      BY <2>1, <1>1, WhoChanges
  <1>3. replied' \subseteq Asks(cassette) /\ mail' \subseteq replied'
    <2>1. CASE \E ask \in Asks(cassette) : ClientAnswer(ask)
      BY <2>1 DEF ClientAnswer
    <2>2. CASE \E ask \in Asks(cassette) : OnAnswer(ask)
      BY <2>2 DEF OnAnswer, client
    <2> QED
      BY <2>1, <2>2, WhoChanges
  <1>4. listens' \in 0..Setups[setup].streams
    <2>1. CASE ClientListen
      BY <2>1, <1>0, HttpAssumption DEF ClientListen
    <2> QED
      BY <2>1, WhoChanges
  <1>5. shown' \in [Id -> Seq(Items)]
    BY TaskSteps, Shows, WhoChanges
  <1>6. heard' \in Seq(GetPlan)
    <2>1. CASE Deliver
      BY <2>1, Appended DEF Deliver
    <2> QED
      BY <2>1, WhoChanges
  <1>7. used' \subseteq Exchanges(cassette)
    <2>1. ASSUME NEW n \in Id, Find(n) PROVE used' \subseteq Exchanges(cassette)
      BY <2>1, <1>0, MatchIsTyped DEF Find, Consume
    <2> QED
      BY <2>1, WhoChanges
  <1>8. counts' \in [Methods -> Nat]
    <2>1. ASSUME NEW method, Consulted(method) PROVE counts' \in [Methods -> Nat]
      <3>1. CASE method \in Methods
        BY <2>1, <3>1 DEF Consulted
      <3>2. CASE method \notin Methods
        <4>1. counts' = [m \in Methods |-> counts[m]]
          BY <2>1, <3>2 DEF Consulted
        <4> QED
          BY <4>1
      <3> QED
        BY <3>1, <3>2
    <2>2. ASSUME NEW n \in Id, Find(n) PROVE counts' \in [Methods -> Nat]
      BY <2>1, <2>2 DEF Find
    <2>3. ASSUME NEW n \in Id, HandleInitialize(n) PROVE counts' \in [Methods -> Nat]
      BY <2>1, <2>3 DEF HandleInitialize
    <2> QED
      BY <2>2, <2>3, WhoChanges
  <1>9. misses' \in Seq(Id)
    <2>1. ASSUME NEW n \in Id, HandleInitialize(n) \/ HandleMiss(n) PROVE misses' \in Seq(Id)
      <3>1. misses' = misses \/ misses' = Append(misses, n)
        BY <2>1 DEF HandleInitialize, HandleMiss
      <3>2. Append(misses, n) \in Seq(Id)
        BY Appended
      <3> QED
        BY <3>1, <3>2
    <2> QED
      BY <2>1, WhoChanges
  <1>10. emitted \subseteq emitted' /\ emitted' \subseteq Asks(cassette)
    <2>1. ASSUME NEW m, Marked(m)
          PROVE  emitted \subseteq emitted' /\ emitted' \subseteq Asks(cassette)
      BY <2>1 DEF Marked
    <2> QED
      BY <2>1, WhoChanges DEF Emit, Deliver
  <1>11. opened' \subseteq emitted'
    <2>1. ASSUME NEW ask \in Asks(cassette), OnAnswer(ask) PROVE opened' \subseteq emitted
      <3> DEFINE S == WithId(cassette, emitted \ opened, cassette[ask].id)
      <3>1. S \subseteq emitted
        BY DEF WithId
      <3>2. S \in SUBSET Nat
        BY <3>1, <1>0, PlansAreTyped
      <3>3. First(S) \in S \cup {None}
        BY <3>2, FirstOf
      <3>4. opened' = opened \cup ({First(S)} \ {None})
        BY <2>1 DEF OnAnswer
      <3> HIDE DEF S
      <3> QED
        BY <3>1, <3>3, <3>4
    <2> QED
      BY <2>1, <1>10, WhoChanges
  <1>12. tasks' \in [Id -> Jobs]
    <2>1. ASSUME NEW call, ClientCall(call) PROVE tasks' \in [Id -> Jobs]
      BY <2>1, IdleIsAJob DEF ClientCall, Phases
    <2> QED
      BY <2>1, TaskSteps, Becomes, WhoChanges
  <1>13. tape' \in Seq(Messages)
    <2>1. ASSUME NEW n \in Id, Forward(n) \/ ReadBody(n) \/ RelayEvents(n)
          PROVE  tape' \in Seq(Messages)
      <3>1. /\ Message("client", "request", n) \in Messages
            /\ Message("server", "response", n) \in Messages
        BY DEF Message, Messages
      <3>2. ASSUME NEW x \in Messages PROVE Append(tape, x) \in Seq(Messages)
        BY Appended
      <3>3. \/ tape' = Append(tape, Message("client", "request", n))
            \/ tape' = Append(tape, Message("server", "response", n))
        BY <2>1 DEF Forward, ReadBody, RelayEvents
      <3> QED
        BY <3>1, <3>2, <3>3
    <2> QED
      BY <2>1, WhoChanges
  <1>14. exit' \in {"running", "0", "3", "error"}
    BY WhoChanges DEF Exit, UpstreamBreaks
  <1>15. cassette' = cassette /\ setup' = setup /\ GetPlan' = GetPlan /\ Jobs' = Jobs
    BY SameReplay
  <1>16. Asks(cassette)' = Asks(cassette) /\ Exchanges(cassette)' = Exchanges(cassette)
    BY <1>15
  <1> QED
    BY <1>1, <1>2, <1>3, <1>4, <1>5, <1>6, <1>7, <1>8, <1>9, <1>10, <1>11, <1>12, <1>13,
       <1>14, <1>15, <1>16, StreamTypeStep

LEMMA TypeHolds == Spec => []TypeInv
  BY TypeInit, TypeStep, PTL DEF Spec

\* Once the server has exited nothing happens any more.
LEMMA Ended == exit # "running" /\ [Next]_vars => UNCHANGED vars
  BY DEF Next, Client, ClientCall, ClientDrop, ClientAnswer, ClientListen, ClientHangUp,
     Task, Refuse, HandleInitialize, HandleHit, HandleMiss, Find, SendUnmatched, Emit,
     EmitFails, Finish, Replace, Hang, Disconnect, Live, Forward, Unreachable, ReadBody,
     Relay, RelayEvents, EndStream, RelayFails, UpstreamBreaks, OnAnswer, Listening,
     StartStream, Take, Deliver, DeliverFails, Exit, At, Serving, Running

LEMMA CallsAreFinite ==
    ASSUME NEW S \in SUBSET Id
    PROVE  IsFiniteSet(S) /\ Cardinality(S) \in Nat /\ Cardinality(S) <= MaxCalls
  <1>1. IsFiniteSet(Id) /\ Cardinality(Id) = MaxCalls
    BY HttpAssumption, FS_Interval DEF Id
  <1> QED
    BY <1>1, FS_Subset, FS_CardinalityType

LEMMA CallInit == Init => CallInv
  <1> SUFFICES ASSUME Init PROVE CallInv
    OBVIOUS
  <1>2. \A n \in Id : tasks[n].phase = "off" /\ n \notin DOMAIN sent
    BY DEF Init, Idle, Job
  <1>3. \A m \in Methods : counts[m] = 0
    BY DEF Init
  <1>4. Cardinality(Handled) \in Nat
    BY CallsAreFinite DEF Handled
  <1>5. \A n \in Id : shown[n] = <<>>
    BY DEF Init
  <1> QED
    BY <1>2, <1>3, <1>4, <1>5 DEF CallInv

LEMMA CallStep == TypeInv /\ CallInv /\ [Next]_vars => CallInv'
  <1> SUFFICES ASSUME TypeInv, CallInv, [Next]_vars PROVE CallInv'
    OBVIOUS
  <1>1. Methods' = Methods /\ Id' = Id
    OBVIOUS
  <1>2. ASSUME NEW n \in Id, Task(n)
        PROVE  /\ tasks'[n].phase \notin {"off", "posted"}
               /\ \A m \in Id \ {n} : tasks'[m] = tasks[m]
    BY <1>2, TaskSteps, Becomes DEF TypeInv
  <1>3. ASSUME NEW call, ClientCall(call)
        PROVE  /\ Len(sent) + 1 \in Id
               /\ DOMAIN sent' = DOMAIN sent \cup {Len(sent) + 1}
               /\ Len(sent) + 1 \notin DOMAIN sent
               /\ tasks'[Len(sent) + 1].phase = "posted"
               /\ \A m \in Id \ {Len(sent) + 1} : tasks'[m] = tasks[m]
    <2>1. Len(sent) \in Nat /\ DOMAIN sent = 1..Len(sent)
      BY DEF TypeInv
    <2>2. Len(sent) + 1 \in Id
      BY <1>3, <2>1, HttpAssumption DEF ClientCall, Id
    <2>3. Len(sent') = Len(sent) + 1 /\ DOMAIN sent' = 1..Len(sent')
      BY <1>3, <2>1 DEF ClientCall, TypeInv
    <2>4. tasks' = [tasks EXCEPT ![Len(sent) + 1] = Idle("posted")]
      BY <1>3 DEF ClientCall
    <2> QED
      BY <2>1, <2>2, <2>3, <2>4 DEF TypeInv, Idle, Job
  <1>4. \A n \in Id : tasks'[n].phase = "off" <=> n \notin DOMAIN sent'
    <2>1. CASE UNCHANGED <<sent, tasks>>
      BY <2>1 DEF CallInv
    <2>2. CASE \E call \in Calls : ClientCall(call)
      BY <2>2, <1>3 DEF CallInv
    <2>3. CASE (\E n \in Id : Task(n)) /\ ~(\E call \in Calls : ClientCall(call))
      <3>1. PICK n \in Id : Task(n)
        BY <2>3
      <3>2. UNCHANGED sent
        BY <2>3, WhoChanges
      <3>3. tasks[n].phase # "off"
        BY <3>1, TaskSteps
      <3> QED
        BY <1>2, <3>1, <3>2, <3>3 DEF CallInv
    <2> QED
      BY <2>1, <2>2, <2>3, WhoChanges
  <1>5. Handled \subseteq Handled'
    BY <1>1, <1>2, <1>3, WhoChanges DEF Handled, CallInv
  <1>6. /\ IsFiniteSet(Handled) /\ Cardinality(Handled) \in Nat
        /\ IsFiniteSet(Handled') /\ Cardinality(Handled') \in Nat
    <2>1. Handled \in SUBSET Id /\ Handled' \in SUBSET Id
      BY <1>1 DEF Handled
    <2> QED
      BY <2>1, CallsAreFinite
  <1>7. ASSUME NEW m \in Methods
        PROVE  counts'[m] <= Cardinality(Handled)'
    <2>1. counts[m] \in Nat /\ counts[m] <= Cardinality(Handled)
      BY DEF TypeInv, CallInv
    <2>2. Cardinality(Handled) <= Cardinality(Handled')
      BY <1>5, <1>6, FS_Subset
    <2>3. CASE UNCHANGED counts
      BY <1>1, <1>6, <2>1, <2>2, <2>3
    <2>4. ASSUME NEW n \in Id, Task(n), tasks[n].phase = "posted",
                 UNCHANGED counts \/ \E method : Consulted(method)
          PROVE  counts'[m] <= Cardinality(Handled)'
      <3>1. n \notin Handled /\ n \in Handled'
        BY <2>4, <1>1, <1>2 DEF Handled
      <3>2. Handled \cup {n} \subseteq Handled'
        BY <1>5, <3>1
      <3>3. Cardinality(Handled \cup {n}) = Cardinality(Handled) + 1
        BY <1>6, <3>1, FS_AddElement
      <3>4. Cardinality(Handled \cup {n}) <= Cardinality(Handled')
        BY <1>6, <3>2, FS_Subset
      <3>5. counts'[m] \in {counts[m], counts[m] + 1}
        BY <2>4 DEF Consulted, TypeInv
      <3> QED
        BY <1>6, <2>1, <3>3, <3>4, <3>5
    <2>5. CASE \E n \in Id : Find(n) /\ Task(n)
      BY <2>4, <2>5 DEF Find, At
    <2>6. CASE \E n \in Id : HandleInitialize(n)
      BY <2>4, <2>6 DEF HandleInitialize, At, Task
    <2> QED
      BY <2>3, <2>5, <2>6, WhoChanges
  <1>8. ASSUME NEW n \in Id, NEW k \in DOMAIN shown'[n] PROVE n \in DOMAIN sent'
    <2>1. tasks[n].phase # "off" \/ n \in DOMAIN sent
      BY WhoShows, TaskSteps DEF CallInv
    <2> QED
      BY <1>3, <2>1, WhoChanges DEF CallInv
  <1> QED
    BY <1>1, <1>4, <1>7, <1>8 DEF CallInv

-----------------------------------------------------------------------------
(* Misses, and what the real server said *)

\* HandleInitialize and HandleMiss record the miss before SendUnmatched shows it.
LEMMA MissStep == TypeInv /\ MissInv /\ [Next]_vars => MissInv'
  <1> SUFFICES ASSUME TypeInv, MissInv, [Next]_vars PROVE MissInv'
    OBVIOUS
  <1>0. live' = live /\ Id' = Id
    BY SameReplay
  <1>1. ASSUME NEW n \in Id, HasMissed(n) PROVE HasMissed(n)'
    <2>1. \A m \in Id : \A i \in DOMAIN misses : /\ i \in DOMAIN Append(misses, m)
                                                 /\ Append(misses, m)[i] = misses[i]
      BY Appended DEF TypeInv
    <2>2. UNCHANGED misses \/ \E m \in Id : misses' = Append(misses, m)
      BY WhoChanges DEF HandleInitialize, HandleMiss
    <2> QED
      BY <1>1, <2>1, <2>2 DEF HasMissed
  <1>2. ASSUME NEW n \in Id, misses' = Append(misses, n) PROVE HasMissed(n)'
    <2>1. Len(misses) + 1 \in DOMAIN misses' /\ misses'[Len(misses) + 1] = n
      BY <1>2, Appended DEF TypeInv
    <2> QED
      BY <2>1 DEF HasMissed
  <1>3. \A n \in Id : tasks'[n].phase = "miss" => HasMissed(n)'
    <2> SUFFICES ASSUME NEW n \in Id, tasks'[n].phase = "miss", tasks[n].phase # "miss"
                 PROVE  HasMissed(n)'
      BY <1>1 DEF MissInv
    <2>1. Task(n)
      BY WhoMoves DEF Idle, Job
    <2> QED
      BY <1>2, <2>1, TaskMoves
  <1>4. \A n \in Id : \A k \in DOMAIN shown'[n] :
           shown'[n][k].what = "miss" => HasMissed(n)'
    BY <1>1, WhoShows DEF MissInv
  <1>5. ASSUME NEW n \in Id, tasks'[n].phase \in {"live", "forwarded", "relay", "streaming"}
        PROVE  live
    <2> SUFFICES ASSUME tasks[n].phase \notin {"live", "forwarded", "relay", "streaming"}
                 PROVE  live
      BY DEF MissInv
    <2>1. Task(n)
      BY <1>5, WhoMoves DEF Idle, Job
    <2> QED
      BY <1>5, <2>1, TaskMoves DEF Forward, ReadBody, RelayEvents, At
  <1>6. exit' # "running" /\ ~live =>
           report' = misses' /\ (exit' = "3" <=> misses' # <<>> /\ ~disconnected')
    <2>1. CASE exit # "running"
      BY <2>1, Ended DEF MissInv, vars, matcher, outcome
    <2>2. CASE exit = "running" /\ exit' # "running" /\ ~live
      <3>1. ~\E n \in Id : UpstreamBreaks(n)
        BY <2>2 DEF MissInv, UpstreamBreaks, At
      <3>2. Exit
        BY <2>2, <3>1, WhoChanges
      <3> QED
        BY <2>2, <3>2 DEF Exit, Finalize, matcher
    <2> QED
      BY <2>1, <2>2
  <1> QED
    BY <1>0, <1>3, <1>4, <1>5, <1>6 DEF MissInv

\* Forward, ReadBody and RelayEvents record before the client is shown anything.
LEMMA TapeStep == TypeInv /\ TapeInv /\ [Next]_vars => TapeInv'
  <1> SUFFICES ASSUME TypeInv, TapeInv, [Next]_vars PROVE TapeInv'
    OBVIOUS
  <1>0. live' = live /\ Id' = Id
    BY SameReplay
  <1>1. ASSUME NEW x \in Messages, tape' = Append(tape, x)
        PROVE  /\ \A i \in DOMAIN tape : i \in DOMAIN tape' /\ tape'[i] = tape[i]
                                         /\ i < Len(tape) + 1
               /\ Len(tape) + 1 \in DOMAIN tape' /\ tape'[Len(tape) + 1] = x
    BY <1>1, Appended DEF TypeInv
  <1>2. \A i \in DOMAIN tape : i \in DOMAIN tape' /\ tape'[i] = tape[i]
    <2>1. \A n \in Id : /\ Message("client", "request", n) \in Messages
                        /\ Message("server", "response", n) \in Messages
      BY DEF Message, Messages
    <2>2. UNCHANGED tape \/ \E x \in Messages : tape' = Append(tape, x)
      BY <2>1, WhoChanges DEF Forward, ReadBody, RelayEvents
    <2> QED
      BY <1>1, <2>2
  <1>3. \A n \in Id : /\ Asking(tape, n) => Asking(tape', n)
                      /\ Answering(tape, n) => Answering(tape', n)
    BY <1>2 DEF Asking, Answering
  <1>4. ASSUME NEW n \in Id, Forward(n) PROVE Asking(tape', n)
    <2>1. Message("client", "request", n) \in Messages
      BY DEF Message, Messages
    <2> QED
      BY <1>1, <1>4, <2>1 DEF Forward, Asking
  <1>5. ASSUME NEW n \in Id, ReadBody(n) \/ RelayEvents(n) PROVE Answering(tape', n)
    <2>1. Message("server", "response", n) \in Messages
      BY DEF Message, Messages
    <2>2. tape' = Append(tape, Message("server", "response", n)) /\ Asking(tape, n)
      BY <1>5 DEF ReadBody, RelayEvents, At, TapeInv
    <2> QED
      BY <1>1, <2>1, <2>2 DEF Asking, Answering
  <1>6. ASSUME NEW n \in Id
        PROVE  /\ tasks'[n].phase = "forwarded" => Asking(tape', n)
               /\ tasks'[n].phase = "relay" => Answering(tape', n)
    <2> SUFFICES ASSUME tasks'[n].phase \in {"forwarded", "relay"},
                        tasks'[n].phase # tasks[n].phase
                 PROVE  /\ tasks'[n].phase = "forwarded" => Forward(n)
                        /\ tasks'[n].phase = "relay" => ReadBody(n)
      BY <1>3, <1>4, <1>5 DEF TapeInv
    <2>1. Task(n)
      BY WhoMoves DEF Idle, Job
    <2> QED
      BY <2>1, TaskMoves
  <1>7. \A n \in Id : \A k \in DOMAIN shown'[n] :
           shown'[n][k].what = "live" => Answering(tape', n)
    <2>1. ASSUME NEW n \in Id, Relay(n) \/ RelayEvents(n) PROVE Answering(tape', n)
      BY <1>3, <1>5, <2>1 DEF Relay, At, TapeInv
    <2> QED
      BY <1>3, <2>1, WhoShows DEF TapeInv
  <1>8. exit' # "running" /\ live => file' = tape'
    <2>1. CASE exit # "running"
      BY <2>1, Ended DEF TapeInv, vars, outcome
    <2>2. CASE exit = "running" /\ exit' # "running" /\ live
      BY <2>2, WhoChanges DEF Exit, UpstreamBreaks, Finalize
    <2> QED
      BY <2>1, <2>2
  <1> QED
    BY <1>0, <1>3, <1>6, <1>7, <1>8 DEF TapeInv

-----------------------------------------------------------------------------
(* The line of the listening stream *)

\* A step of the stream: what the handler holds and the queue it takes from.
LEMMA LineSteps ==
    ASSUME TypeInv, [Next]_vars
    PROVE  \/ /\ UNCHANGED <<unreleased, ready, heard>>
              /\ Holding' <=> Holding
              /\ listener'.message = listener.message
              /\ listener'.at = "wait" => listener.at = "wait"
           \/ /\ Take /\ ready = <<>> /\ UNCHANGED <<unreleased, ready, heard>>
              /\ ~Holding /\ ~Holding' /\ listener'.message = listener.message
           \/ /\ Take /\ ready # <<>> /\ UNCHANGED <<unreleased, heard>> /\ ready' = Tail(ready)
              /\ ~Holding /\ Holding' /\ listener'.message = Head(ready)
              /\ listener'.at # "wait"
           \/ /\ Deliver \/ DeliverFails
              /\ UNCHANGED <<unreleased, ready>>
              /\ heard' = heard \/ heard' = Append(heard, listener.message)
              /\ Holding /\ ~Holding' /\ listener'.message = None /\ listener'.at # "wait"
           \/ \E n \in Id : \E q :
                 /\ Finish(n) \/ Replace(n) \/ Disconnect(n)
                 /\ Released(n, q) /\ UNCHANGED heard
                 /\ Holding' <=> Holding
                 /\ listener'.message = listener.message
                 /\ listener'.at = "wait" => q = <<>> /\ listener.at = "wait"
  <1>0. /\ listener.at \in {"off", "start", "next", "wait", "held"}
        /\ listener = [at |-> listener.at, message |-> listener.message,
                       alive |-> listener.alive]
        /\ listener.at # "held" => listener.message = None
    BY DEF TypeInv, Listeners
  <1>1. CASE UNCHANGED <<unreleased, ready, listener, heard>>
    BY <1>1 DEF Holding
  <1>2. CASE ClientListen
    BY <1>2, <1>0 DEF ClientListen, Listener, Holding, received
  <1>3. CASE ClientHangUp
    <2>1. listener' = [listener EXCEPT !.alive = FALSE]
      BY <1>3 DEF ClientHangUp
    <2>2. listener'.at = listener.at /\ listener'.message = listener.message
      BY <1>0, <2>1
    <2> QED
      BY <1>3, <2>2 DEF ClientHangUp, Holding, received
  <1>4. CASE StartStream
    <2>1. listener.at = "start" /\ listener.message = None
      BY <1>0, <1>4 DEF StartStream
    <2>2. \/ listener' = [listener EXCEPT !.at = "next"]
          \/ listener' = Listener("off", None, FALSE)
      BY <1>4 DEF StartStream
    <2>3. listener'.at \in {"next", "off"} /\ listener'.message = None
      BY <1>0, <2>1, <2>2 DEF Listener
    <2> QED
      BY <1>4, <2>1, <2>3 DEF StartStream, Holding, received
  <1>5. CASE Take
    <2>1. CASE ready = <<>>
      <3>1. listener' = [listener EXCEPT !.at = "wait"]
        BY <1>5, <2>1 DEF Take
      <3>2. listener'.at = "wait" /\ listener'.message = listener.message
        BY <1>0, <3>1
      <3> QED
        BY <1>5, <2>1, <3>2 DEF Take, Holding, received
    <2>2. CASE ready # <<>>
      BY <1>5, <2>2 DEF Take, Listener, Holding, received
    <2> QED
      BY <2>1, <2>2
  <1>6. CASE Deliver
    BY <1>6 DEF Deliver, Listener, Holding
  <1>7. CASE DeliverFails
    BY <1>7 DEF DeliverFails, Listener, Holding, received
  <1>8. ASSUME NEW n \in Id, Finish(n) \/ Replace(n) \/ Disconnect(n)
        PROVE  \E q : /\ Released(n, q) /\ UNCHANGED heard
                      /\ Holding' <=> Holding
                      /\ listener'.message = listener.message
                      /\ listener'.at = "wait" => q = <<>> /\ listener.at = "wait"
    <2>1. PICK q : Released(n, q)
      BY <1>8, Releases
    <2>2. listener' = IF q # <<>> /\ listener.at = "wait"
                      THEN [listener EXCEPT !.at = "next"] ELSE listener
      BY <2>1 DEF Released, Moved
    <2>3. /\ listener'.message = listener.message
          /\ listener'.at = "held" <=> listener.at = "held"
          /\ listener'.at = "wait" => q = <<>> /\ listener.at = "wait"
      <3>1. CASE q # <<>> /\ listener.at = "wait"
        BY <1>0, <2>2, <3>1
      <3>2. CASE ~(q # <<>> /\ listener.at = "wait")
        BY <2>2, <3>2
      <3> QED
        BY <3>1, <3>2
    <2> QED
      BY <1>8, <2>1, <2>3 DEF Finish, Replace, Disconnect, Holding, received
  <1> QED
    <2>1. UNCHANGED heard \/ Deliver
      BY WhoChanges
    <2>2. \/ UNCHANGED <<unreleased, ready, listener>>
          \/ ClientListen \/ ClientHangUp \/ Listening
          \/ \E n \in Id : Finish(n) \/ Replace(n) \/ Disconnect(n)
      BY WhoChanges DEF Listening
    <2> QED
      BY <1>1, <1>2, <1>3, <1>4, <1>5, <1>6, <1>7, <1>8, <2>1, <2>2 DEF Listening

\* Whoever finds the queue empty and waits is woken by the release that fills it.
LEMMA WakeupStep == TypeInv /\ NoLostWakeup /\ [Next]_vars => NoLostWakeup'
  <1> SUFFICES ASSUME TypeInv, NoLostWakeup, [Next]_vars, listener'.at = "wait"
               PROVE  ready' = <<>>
    BY DEF NoLostWakeup
  <1>1. ASSUME NEW n \in Id, NEW q, Released(n, q), q = <<>> PROVE ready' = ready
    BY <1>1 DEF Released, Moved, TypeInv
  <1> QED
    BY <1>1, LineSteps DEF NoLostWakeup, Holding

\* All messages of one call are released at once, in order, and are handed on in order.
LEMMA LineStep == TypeInv /\ LineInv /\ [Next]_vars => LineInv'
  <1> SUFFICES ASSUME TypeInv, LineInv, [Next]_vars PROVE LineInv'
    OBVIOUS
  <1>0. cassette' = cassette /\ \A a, b : Later(a, b)' <=> Later(a, b)
    BY SameReplay DEF Later
  <1>1. CASE /\ UNCHANGED <<unreleased, ready, heard>>
             /\ Holding' <=> Holding
             /\ listener'.message = listener.message
    BY <1>0, <1>1 DEF LineInv, OnItsWay
  <1>2. CASE /\ ready # <<>> /\ UNCHANGED <<unreleased, heard>> /\ ready' = Tail(ready)
             /\ ~Holding /\ Holding' /\ listener'.message = Head(ready)
    <2>1. /\ 1 \in DOMAIN ready /\ listener'.message = ready[1]
          /\ \A k \in DOMAIN ready' : /\ k \in Nat /\ k + 1 \in DOMAIN ready
                                      /\ ready'[k] = ready[k + 1] /\ 1 < k + 1
      BY <1>2, HeadAndTail DEF TypeInv
    <2>2. OnItsWay' \subseteq OnItsWay
      BY <1>2, <2>1 DEF OnItsWay
    <2>3. \A j, k \in DOMAIN ready' : j < k => Later(ready'[j], ready'[k])
      <3> SUFFICES ASSUME NEW j \in DOMAIN ready', NEW k \in DOMAIN ready', j < k
                   PROVE  Later(ready[j + 1], ready[k + 1])
        BY <2>1
      <3>1. j + 1 < k + 1
        BY <2>1
      <3> QED
        BY <2>1, <3>1 DEF LineInv
    <2>4. \A k \in DOMAIN ready' : Later(listener'.message, ready'[k])
      BY <2>1 DEF LineInv
    <2>5. \A j \in DOMAIN heard : Later(heard[j], listener'.message)
      BY <2>1 DEF LineInv
    <2>6. \A j \in DOMAIN heard, k \in DOMAIN ready' : Later(heard[j], ready'[k])
      BY <2>1 DEF LineInv
    <2>7. /\ \A j, k \in DOMAIN heard : j < k => Later(heard[j], heard[k])
          /\ \A m \in unreleased', x \in OnItsWay' : Anchor(cassette, x) # Anchor(cassette, m)
      BY <1>2, <2>2 DEF LineInv
    <2> QED
      BY <1>0, <1>2, <2>3, <2>4, <2>5, <2>6, <2>7 DEF LineInv
  <1>3. CASE /\ UNCHANGED <<unreleased, ready>>
             /\ heard' = heard \/ heard' = Append(heard, listener.message)
             /\ Holding /\ ~Holding'
    <2>1. \A k \in DOMAIN heard' :
             \/ k \in DOMAIN heard /\ heard'[k] = heard[k] /\ k < Len(heard) + 1
             \/ k = Len(heard) + 1 /\ heard'[k] = listener.message
      <3>1. listener.message \in GetPlan /\ heard \in Seq(GetPlan)
        BY <1>3 DEF Holding, TypeInv
      <3>2. CASE heard' = heard
        BY <3>1, <3>2
      <3>3. CASE heard' = Append(heard, listener.message)
        BY <3>1, <3>3, Appended
      <3> QED
        BY <1>3, <3>2, <3>3
    <2>2. OnItsWay' \subseteq OnItsWay
      BY <1>3, <2>1 DEF OnItsWay
    <2>3. \A j, k \in DOMAIN heard' : j < k => Later(heard'[j], heard'[k])
      <3>1. Len(heard) \in Nat /\ \A j \in DOMAIN heard : j \in Nat
        BY DEF TypeInv
      <3> QED
        BY <1>3, <2>1, <3>1 DEF LineInv
    <2>4. \A j \in DOMAIN heard', k \in DOMAIN ready : Later(heard'[j], ready[k])
      BY <1>3, <2>1 DEF LineInv
    <2>5. \A m \in unreleased', x \in OnItsWay' : Anchor(cassette, x) # Anchor(cassette, m)
      BY <1>3, <2>2 DEF LineInv
    <2>6. \A j, k \in DOMAIN ready' : j < k => Later(ready'[j], ready'[k])
      BY <1>3 DEF LineInv
    <2> QED
      BY <1>0, <1>3, <2>3, <2>4, <2>5, <2>6 DEF LineInv
  <1>4. ASSUME NEW n \in Id, NEW q, Released(n, q), UNCHANGED heard, Holding' <=> Holding,
               listener'.message = listener.message
        PROVE  LineInv'
    <2>1. /\ q \in Seq(GetPlan) /\ q \in Seq(unreleased)
          /\ ready' = ready \o q /\ unreleased' = unreleased \ {q[k] : k \in DOMAIN q}
      BY <1>4, SeqMonotonic DEF Released, Moved, TypeInv
    <2>2. /\ \A j \in DOMAIN q : q[j] \in unreleased
          /\ \A j, k \in DOMAIN q : j < k => Later(q[j], q[k])
          /\ \A k \in DOMAIN q : \A m \in unreleased :
               Anchor(cassette, m) = Anchor(cassette, q[k]) => \E j \in DOMAIN q : q[j] = m
      BY <1>4, <2>1 DEF Released
    <2>3. /\ Len(ready) \in Nat /\ DOMAIN ready = 1..Len(ready) /\ DOMAIN q \subseteq Nat
          /\ \A k \in DOMAIN ready' :
                 \/ k \in DOMAIN ready /\ ready'[k] = ready[k]
                 \/ k - Len(ready) \in DOMAIN q /\ ready'[k] = q[k - Len(ready)]
                    /\ k > Len(ready)
          /\ DOMAIN ready' \subseteq Nat
      <3>1. ready \in Seq(GetPlan)
        BY DEF TypeInv
      <3> QED
        BY <2>1, <3>1, Joined
    <2>4. \A x \in OnItsWay : \A j \in DOMAIN q : Later(x, q[j])
      BY <2>2 DEF LineInv, Later
    <2>5. \A x \in OnItsWay' : x \in OnItsWay \/ \E k \in DOMAIN q : x = q[k]
      BY <1>4, <2>3 DEF OnItsWay
    <2>6. /\ \A j \in DOMAIN heard : heard[j] \in OnItsWay
          /\ \A j \in DOMAIN ready : ready[j] \in OnItsWay
          /\ Holding => listener.message \in OnItsWay
      BY DEF OnItsWay
    <2>7. \A j, k \in DOMAIN ready' : j < k => Later(ready'[j], ready'[k])
      <3> SUFFICES ASSUME NEW j \in DOMAIN ready', NEW k \in DOMAIN ready', j < k
                   PROVE  Later(ready'[j], ready'[k])
        OBVIOUS
      <3>1. CASE k \in DOMAIN ready /\ ready'[k] = ready[k]
        BY <2>3, <3>1 DEF LineInv
      <3>2. CASE k - Len(ready) \in DOMAIN q /\ ready'[k] = q[k - Len(ready)] /\ k > Len(ready)
        <4>1. CASE j \in DOMAIN ready /\ ready'[j] = ready[j]
          BY <2>4, <2>6, <3>2, <4>1
        <4>2. CASE j - Len(ready) \in DOMAIN q /\ ready'[j] = q[j - Len(ready)]
          <5>1. j - Len(ready) < k - Len(ready)
            BY <2>3
          <5> QED
            BY <2>2, <3>2, <4>2, <5>1
        <4> QED
          BY <2>3, <4>1, <4>2
      <3> QED
        BY <2>3, <3>1, <3>2
    <2>8. \A x \in OnItsWay : \A k \in DOMAIN ready' :
             (\A j \in DOMAIN ready : Later(x, ready[j])) => Later(x, ready'[k])
      BY <2>3, <2>4
    <2>9. \A m \in unreleased', x \in OnItsWay' : Anchor(cassette, x) # Anchor(cassette, m)
      BY <2>1, <2>2, <2>5 DEF LineInv
    <2>10. \A j, k \in DOMAIN heard' : j < k => Later(heard'[j], heard'[k])
      BY <1>4 DEF LineInv
    <2>11. \A j \in DOMAIN heard', k \in DOMAIN ready' : Later(heard'[j], ready'[k])
      BY <1>4, <2>6, <2>8 DEF LineInv
    <2>12. Holding' => /\ \A j \in DOMAIN heard' : Later(heard'[j], listener'.message)
                       /\ \A k \in DOMAIN ready' : Later(listener'.message, ready'[k])
      BY <1>4, <2>6, <2>8 DEF LineInv
    <2> QED
      BY <1>0, <2>7, <2>9, <2>10, <2>11, <2>12 DEF LineInv
  <1> QED
    BY <1>1, <1>2, <1>3, <1>4, LineSteps

\* What is on its way was so before, or is released now.
LEMMA Arrives ==
    ASSUME TypeInv, [Next]_vars, NEW x \in OnItsWay'
    PROVE  \/ x \in OnItsWay
           \/ \E n \in Id : \E q : Released(n, q) /\ \E k \in DOMAIN q : x = q[k]
  <1> DEFINE There(y) == \/ \E k \in DOMAIN heard : heard[k] = y
                         \/ \E k \in DOMAIN ready : ready[k] = y
                         \/ Holding /\ listener.message = y
  <1>0. /\ \A y : There(y) <=> y \in OnItsWay
        /\ \/ \E k \in DOMAIN heard' : heard'[k] = x
           \/ \E k \in DOMAIN ready' : ready'[k] = x
           \/ Holding' /\ listener'.message = x
    BY DEF OnItsWay
  <1> USE <1>0
  <1>1. CASE /\ UNCHANGED <<ready, heard>>
             /\ Holding' => Holding
             /\ Holding' => listener'.message = listener.message
    BY <1>1
  <1>2. CASE /\ ready # <<>> /\ UNCHANGED heard /\ ready' = Tail(ready)
             /\ listener'.message = Head(ready)
    <2>1. /\ 1 \in DOMAIN ready /\ listener'.message = ready[1]
          /\ \A k \in DOMAIN ready' : k + 1 \in DOMAIN ready /\ ready'[k] = ready[k + 1]
      BY <1>2, HeadAndTail DEF TypeInv
    <2> QED
      BY <1>2, <2>1
  <1>3. CASE /\ UNCHANGED ready
             /\ heard' = heard \/ heard' = Append(heard, listener.message)
             /\ Holding /\ ~Holding'
    <2>1. listener.message \in GetPlan /\ heard \in Seq(GetPlan)
      BY <1>3 DEF Holding, TypeInv
    <2>2. \A k \in DOMAIN heard' :
             \/ k \in DOMAIN heard /\ heard'[k] = heard[k]
             \/ heard'[k] = listener.message
      BY <1>3, <2>1, Appended
    <2> QED
      BY <1>3, <2>2
  <1>4. ASSUME NEW n \in Id, NEW q, Released(n, q), UNCHANGED heard, Holding' <=> Holding,
               listener'.message = listener.message
        PROVE  x \in OnItsWay \/ \E k \in DOMAIN q : x = q[k]
    <2>1. q \in Seq(GetPlan) /\ ready' = ready \o q /\ ready \in Seq(GetPlan)
      BY <1>4, SeqMonotonic DEF Released, Moved, TypeInv
    <2>2. \A k \in DOMAIN ready' :
             \/ k \in DOMAIN ready /\ ready'[k] = ready[k]
             \/ k - Len(ready) \in DOMAIN q /\ ready'[k] = q[k - Len(ready)]
      BY <2>1, Joined
    <2> QED
      BY <1>4, <2>2
  <1> QED
    BY <1>1, <1>2, <1>3, <1>4, LineSteps

-----------------------------------------------------------------------------
(* What stays true *)

\* What was sent, shown, asked or answered stays so, and a call that is done stays done.
LEMMA Grows ==
    ASSUME TypeInv, CallInv, [Next]_vars
    PROVE  /\ \A n \in DOMAIN sent : n \in DOMAIN sent' /\ sent'[n] = sent[n]
           /\ dropped \subseteq dropped' /\ replied \subseteq replied'
           /\ emitted \subseteq emitted' /\ opened \subseteq opened'
           /\ \A n \in Id : \A k \in DOMAIN shown[n] :
                 k \in DOMAIN shown'[n] /\ shown'[n][k] = shown[n][k]
           /\ \A n \in Id : tasks[n].phase = "done" => tasks'[n] = tasks[n]
           /\ listens <= listens'
  <1>1. \A n \in DOMAIN sent : n \in DOMAIN sent' /\ sent'[n] = sent[n]
    <2>1. ASSUME NEW call \in Calls, ClientCall(call)
          PROVE  \A n \in DOMAIN sent : n \in DOMAIN sent' /\ sent'[n] = sent[n]
      <3>1. [call |-> call, session |-> InSession] \in [call : Calls, session : BOOLEAN]
        BY DEF InSession
      <3> QED
        BY <2>1, <3>1, Appended DEF ClientCall, TypeInv
    <2> QED
      BY <2>1, WhoChanges
  <1>2. dropped \subseteq dropped' /\ replied \subseteq replied' /\ opened \subseteq opened'
    BY WhoChanges DEF ClientDrop, ClientAnswer, OnAnswer
  <1>3. emitted \subseteq emitted'
    BY WhoChanges DEF Emit, Deliver, Marked
  <1>4. \A n \in Id : \A k \in DOMAIN shown[n] :
                 k \in DOMAIN shown'[n] /\ shown'[n][k] = shown[n][k]
    BY TaskSteps, Shows, WhoChanges DEF TypeInv
  <1>5. ASSUME NEW n \in Id, tasks[n].phase = "done" PROVE tasks'[n] = tasks[n]
    <2>1. ~Task(n)
      BY <1>5, TaskSteps
    <2>2. ASSUME NEW call, ClientCall(call) PROVE tasks'[n] = tasks[n]
      <3>1. n \in DOMAIN sent
        BY <1>5 DEF CallInv
      <3>2. n # Len(sent) + 1
        BY <3>1 DEF TypeInv
      <3> QED
        BY <2>2, <3>2 DEF ClientCall, TypeInv
    <2> QED
      BY <2>1, <2>2, WhoMoves
  <1>6. listens <= listens'
    <2>1. listens \in Nat
      BY HttpAssumption DEF TypeInv
    <2>2. UNCHANGED listens \/ listens' = listens + 1
      BY WhoChanges DEF ClientListen
    <2> QED
      BY <2>1, <2>2
  <1> QED
    BY <1>1, <1>2, <1>3, <1>4, <1>5, <1>6

\* The job of a call that is being served: it is new, or had one message more.
LEMMA WhoServes ==
    ASSUME TypeInv, CallInv, [Next]_vars, NEW n \in Id, tasks'[n].phase = "serve"
    PROVE  /\ n \in DOMAIN sent /\ sent'[n] = sent[n]
           /\ \/ tasks'[n] = tasks[n]
              \/ Emit(n)
              \/ \E ex \in Exchanges(cassette) :
                    /\ Response(cassette, ex) # None /\ Recorded(sent[n].call, ex)
                    /\ tasks'[n].ex = ex /\ tasks'[n].queue = Reply(ex)
  <1>1. ASSUME tasks'[n] # tasks[n] PROVE Task(n)
    BY <1>1, WhoMoves DEF Idle, Job
  <1>2. n \in DOMAIN sent /\ sent'[n] = sent[n]
    <2>1. tasks[n].phase # "off"
      BY <1>1, TaskSteps
    <2> QED
      BY <2>1, Grows DEF CallInv
  <1>3. ASSUME NEW ex, NEW fault, Become(n, Job("serve", ex, fault, Reply(ex)))
        PROVE  tasks'[n].ex = ex /\ tasks'[n].queue = Reply(ex)
    BY <1>3, Becomes DEF TypeInv, Job
  <1>4. CASE HandleInitialize(n)
    <2>1. CASE Response(cassette, Initialize) # None
      <3>1. Initialize \in Exchanges(cassette) /\ Recorded(sent[n].call, Initialize)
        BY <1>4, <2>1, ResponseIsTyped, InitializeIsTyped DEF TypeInv, HandleInitialize, Recorded
      <3> QED
        BY <1>2, <1>3, <1>4, <2>1, <3>1 DEF HandleInitialize
    <2>2. CASE Response(cassette, Initialize) = None
      <3>1. tasks'[n].phase = "miss"
        BY <1>4, <2>2, Becomes DEF HandleInitialize, TypeInv, Idle, Job
      <3> QED
        BY <3>1
    <2> QED
      BY <2>1, <2>2
  <1>5. CASE HandleHit(n)
    <2>1. Match(n) \in Exchanges(cassette) /\ Recorded(sent[n].call, Match(n))
      BY <1>5, ResponseIsTyped, MatchIsTyped DEF TypeInv, HandleHit, Recorded
    <2> QED
      BY <1>2, <1>3, <1>5, <2>1 DEF HandleHit
  <1>6. ASSUME Task(n), ~HandleInitialize(n), ~HandleHit(n), ~Emit(n)
        PROVE  tasks'[n] = tasks[n]
    <2>1. ASSUME NEW phase, phase # "serve", Become(n, Idle(phase)) PROVE FALSE
      BY <2>1, Becomes DEF TypeInv, Idle, Job
    <2>2. ~Closed(n)
      BY <2>1 DEF Closed
    <2> QED
      BY <1>6, <2>1, <2>2 DEF Task, Refuse, HandleMiss, SendUnmatched, EmitFails, Finish, Replace,
         Hang, Disconnect, Live, Forward, Unreachable, ReadBody, Relay, RelayEvents,
         EndStream, RelayFails, UpstreamBreaks
  <1> QED
    BY <1>1, <1>2, <1>4, <1>5, <1>6

\* A step that emits takes the head off the queue and leaves the rest.
LEMMA Emits ==
    ASSUME TypeInv, NEW n \in Id, Emit(n)
    PROVE  LET q == tasks[n].queue
           IN  /\ tasks[n].phase = "serve" /\ Serving(n)
               /\ tasks[n].ex \in Exchanges(cassette)
               /\ Response(cassette, tasks[n].ex) # None
               /\ q \in Seq(DOMAIN cassette) /\ q # <<>> /\ 1 \in DOMAIN q /\ Head(q) = q[1]
               /\ tasks'[n].ex = tasks[n].ex /\ tasks'[n].fault = tasks[n].fault
               /\ tasks'[n].queue = Tail(q)
               /\ \A k \in DOMAIN Tail(q) : /\ k \in Nat \ {0} /\ k + 1 \in DOMAIN q
                                            /\ Tail(q)[k] = q[k + 1]
               /\ \A k \in DOMAIN q : k = 1 \/ (k - 1 \in DOMAIN Tail(q) /\ q[k] = Tail(q)[k - 1])
               /\ CallBlockers(n) = {} /\ Marked(q[1]) /\ Show(n, Item(What(n, q[1]), q[1]))
  <1> DEFINE q == tasks[n].queue
  <1>1. tasks[n].phase = "serve" /\ Serving(n) /\ q # <<>>
    BY DEF Emit, Serving, At
  <1>2. tasks[n] \in Jobs
    BY DEF TypeInv
  <1>3. /\ tasks[n].ex \in Exchanges(cassette) /\ Response(cassette, tasks[n].ex) # None
        /\ q \in Seq(DOMAIN cassette)
    BY <1>1, <1>2 DEF Jobs
  <1>4. tasks'[n] = [tasks[n] EXCEPT !.queue = Tail(q)]
    BY DEF Emit, TypeInv
  <1>5. /\ tasks'[n].ex = tasks[n].ex /\ tasks'[n].fault = tasks[n].fault
        /\ tasks'[n].queue = Tail(q)
    BY <1>2, <1>4 DEF Jobs
  <1>6. CallBlockers(n) = {} /\ Marked(Head(q)) /\ Show(n, Item(What(n, Head(q)), Head(q)))
    BY DEF Emit
  <1> HIDE DEF q
  <1>7. 1 \in DOMAIN q /\ Head(q) = q[1] /\ Len(Tail(q)) = Len(q) - 1 /\ Len(q) \in Nat
        /\ DOMAIN q = 1..Len(q) /\ Tail(q) \in Seq(DOMAIN cassette)
    BY <1>1, <1>3, HeadAndTail
  <1>8. \A k \in DOMAIN Tail(q) : k \in Nat \ {0} /\ k + 1 \in DOMAIN q /\ Tail(q)[k] = q[k + 1]
    BY <1>1, <1>3, HeadAndTail
  <1>9. \A k \in DOMAIN q : k = 1 \/ (k - 1 \in DOMAIN Tail(q) /\ q[k] = Tail(q)[k - 1])
    <2> SUFFICES ASSUME NEW k \in DOMAIN q, k # 1
                 PROVE  k - 1 \in DOMAIN Tail(q) /\ q[k] = Tail(q)[k - 1]
      OBVIOUS
    <2>1. DOMAIN Tail(q) = 1..(Len(q) - 1)
      BY <1>7
    <2>2. k - 1 \in DOMAIN Tail(q) /\ (k - 1) + 1 = k
      BY <1>7, <2>1
    <2> QED
      BY <1>8, <2>2
  <1> QED
    BY <1>1, <1>3, <1>5, <1>6, <1>7, <1>8, <1>9 DEF q

LEMMA OwnStep == TypeInv /\ CallInv /\ OwnInv /\ [Next]_vars => OwnInv'
  <1> SUFFICES ASSUME TypeInv, CallInv, OwnInv, [Next]_vars,
                      NEW n \in Id, tasks'[n].phase = "serve"
               PROVE  Recorded(sent'[n].call, tasks'[n].ex)
    BY SameReplay DEF OwnInv, Recorded
  <1> QED
    BY WhoServes, Emits DEF OwnInv

LEMMA OwnAnswerStep ==
    TypeInv /\ CallInv /\ OwnInv /\ OwnAnswer /\ [Next]_vars => OwnAnswer'
  <1> SUFFICES ASSUME TypeInv, CallInv, OwnInv, OwnAnswer, [Next]_vars,
                      NEW n \in Id, NEW k \in DOMAIN shown'[n],
                      shown'[n][k].what = "response"
               PROVE  \E ex \in Exchanges(cassette) :
                         /\ Recorded(sent'[n].call, ex)
                         /\ Response(cassette, ex) = shown'[n][k].seq
    BY SameReplay DEF OwnAnswer, Recorded
  <1>1. CASE k \in DOMAIN shown[n] /\ shown'[n][k] = shown[n][k]
    <2>1. n \in DOMAIN sent /\ sent'[n] = sent[n]
      BY <1>1, Grows DEF CallInv
    <2> QED
      BY <1>1, <2>1 DEF OwnAnswer
  <1>2. CASE Emit(n) /\ shown'[n][k] = Item(What(n, Head(tasks[n].queue)), Head(tasks[n].queue))
    <2> DEFINE m == Head(tasks[n].queue)
    <2>1. What(n, m) = "response" /\ shown'[n][k].seq = m
      BY <1>2 DEF Item
    <2>2. m = Response(cassette, tasks[n].ex)
      BY <2>1 DEF What
    <2>3. Recorded(sent[n].call, tasks[n].ex) /\ tasks[n].ex \in Exchanges(cassette)
      BY <1>2, Emits DEF OwnInv
    <2>4. sent'[n] = sent[n]
      BY <1>2, Emits, Grows DEF CallInv
    <2> QED
      BY <2>1, <2>2, <2>3, <2>4
  <1> QED
    BY <1>1, <1>2, WhoShows

-----------------------------------------------------------------------------
(* Serving, from a recording whose ids nobody has reused *)

\* All messages of the exchange are in the reply, in their order, the response too.
LEMMA ReplyIsWhole ==
    ASSUME TypeInv, WellRecorded(cassette), NEW ex \in Exchanges(cassette),
           Response(cassette, ex) # None
    PROVE  /\ Response(cassette, ex) \in PostMessages(ex)
           /\ \A k \in DOMAIN Reply(ex) : Reply(ex)[k] \in PostMessages(ex)
           /\ \A j, k \in DOMAIN Reply(ex) : j < k => Reply(ex)[j] < Reply(ex)[k]
           /\ \A m \in PostMessages(ex) : \E k \in DOMAIN Reply(ex) : Reply(ex)[k] = m
  <1>0. setup \in DOMAIN Setups
    BY DEF TypeInv
  <1>1. Response(cassette, ex) \in PostMessages(ex)
    <2>1. Response(cassette, ex) \in DOMAIN cassette
          /\ cassette[Response(cassette, ex)].sender = "server"
      BY <1>0, ResponseIsTyped DEF Sent
    <2> QED
      BY <2>1 DEF WellRecorded, PostMessages
  <1>2. PostMessages(ex) \in SUBSET DOMAIN cassette
    BY <1>0, PlansAreTyped
  <1>3. CASE Cardinality(PostMessages(ex)) > 1
    BY <1>0, <1>1, <1>2, <1>3, OrderOf DEF Reply
  <1>4. CASE ~(Cardinality(PostMessages(ex)) > 1)
    <2>1. IsFiniteSet(PostMessages(ex)) /\ Cardinality(PostMessages(ex)) \in Nat
      <3>1. IsFiniteSet(DOMAIN cassette)
        BY <1>0, ReplayIsTyped, FS_Interval
      <3> QED
        BY <1>2, <3>1, FS_Subset, FS_CardinalityType
    <2>2. ASSUME NEW m \in PostMessages(ex) PROVE m = Response(cassette, ex)
      <3> DEFINE r == Response(cassette, ex)
                 rest == PostMessages(ex) \ {r}
      <3>1. IsFiniteSet(rest) /\ Cardinality(rest) = Cardinality(PostMessages(ex)) - 1
        BY <1>1, <2>1, FS_RemoveElement
      <3>2. Cardinality(rest) = 0
        BY <1>4, <2>1, <3>1, FS_CardinalityType
      <3>3. rest = {}
        BY <3>1, <3>2, FS_EmptySet
      <3> QED
        BY <3>3
    <2>3. Reply(ex) = <<Response(cassette, ex)>>
      BY <1>4 DEF Reply
    <2>4. DOMAIN Reply(ex) = {1} /\ Reply(ex)[1] = Response(cassette, ex)
      BY <2>3
    <2> QED
      BY <1>1, <2>2, <2>4
  <1> QED
    BY <1>3, <1>4, <1>1

\* What is not in the queue of the task any more was shown to the client.
LEMMA ServeStep ==
    ASSUME WellRecorded(cassette), TypeInv, CallInv, ServeInv, [Next]_vars
    PROVE  ServeInv'
  <1>0. /\ cassette' = cassette /\ Asks(cassette)' = Asks(cassette)
        /\ \A ex : PostMessages(ex)' = PostMessages(ex)
        /\ \A ex, m : Kind(ex, m)' = Kind(ex, m)
    BY SameReplay DEF PostMessages, Kind
  <1>1. ASSUME NEW n \in Id, NEW ex, NEW m, Passed(n, ex, m) PROVE Passed(n, ex, m)'
    <2>1. m \in Asks(cassette) => m \in emitted'
      BY <1>1, Grows DEF Passed
    <2>2. n \in dropped' \/ \E k \in DOMAIN shown'[n] : shown'[n][k] = Item(Kind(ex, m), m)
      BY <1>1, Grows DEF Passed
    <2> QED
      BY <1>0, <2>1, <2>2 DEF Passed
  <1> SUFFICES ASSUME NEW n \in Id, tasks'[n].phase = "serve",
                      NEW ex, NEW q, ex = tasks'[n].ex, q = tasks'[n].queue
               PROVE  /\ \A k \in DOMAIN q : q[k] \in PostMessages(ex)
                      /\ \A j, k \in DOMAIN q : j < k => q[j] < q[k]
                      /\ \A m \in PostMessages(ex) :
                           tasks'[n].fault \in {"none", "delay", "disconnect_after"} =>
                              Queued(n, m)' \/ Passed(n, ex, m)'
    <2>1. ASSUME NEW n \in Id, tasks'[n].phase = "serve"
          PROVE  /\ \A k \in DOMAIN tasks'[n].queue :
                       tasks'[n].queue[k] \in PostMessages(tasks[n].ex)'
                 /\ \A j, k \in DOMAIN tasks'[n].queue :
                       j < k => tasks'[n].queue[j] < tasks'[n].queue[k]
                 /\ \A m \in PostMessages(tasks[n].ex)' :
                       tasks'[n].fault \in {"none", "delay", "disconnect_after"} =>
                           Queued(n, m)' \/ Passed(n, tasks[n].ex, m)'
      <3>1. PICK ex, q : ex = tasks'[n].ex /\ q = tasks'[n].queue
        OBVIOUS
      <3>2. PostMessages(tasks[n].ex)' = PostMessages(ex)
        BY <1>0, <3>1 DEF PostMessages
      <3>3. \A m : Passed(n, tasks[n].ex, m)' <=> Passed(n, ex, m)'
        BY <3>1 DEF Passed, Kind
      <3> QED
        BY <2>1, <3>1, <3>2, <3>3
    <2> QED
      BY <2>1 DEF ServeInv
  <1>2. CASE tasks'[n] = tasks[n]
    <2>1. /\ \A k \in DOMAIN q : q[k] \in PostMessages(ex)
          /\ \A j, k \in DOMAIN q : j < k => q[j] < q[k]
          /\ \A m \in PostMessages(ex) :
                tasks[n].fault \in {"none", "delay", "disconnect_after"} =>
                    Queued(n, m) \/ Passed(n, ex, m)
      BY <1>2 DEF ServeInv
    <2>2. \A m : Queued(n, m) => Queued(n, m)'
      BY <1>2 DEF Queued
    <2> QED
      BY <1>1, <1>2, <2>1, <2>2
  <1>3. CASE Emit(n)
    <2>0. PICK p, x : p = tasks[n].queue /\ x = p[1]
      OBVIOUS
    <2>1. /\ tasks[n].phase = "serve" /\ 1 \in DOMAIN p /\ Head(p) = x
          /\ ex = tasks[n].ex /\ tasks'[n].fault = tasks[n].fault
          /\ q = Tail(p)
          /\ \A k \in DOMAIN q : k \in Nat \ {0} /\ k + 1 \in DOMAIN p /\ q[k] = p[k + 1]
          /\ \A k \in DOMAIN p : k = 1 \/ (k - 1 \in DOMAIN q /\ p[k] = q[k - 1])
          /\ Marked(x) /\ Show(n, Item(What(n, x), x))
      BY <1>3, <2>0, Emits
    <2>2. /\ \A k \in DOMAIN p : p[k] \in PostMessages(ex)
          /\ \A j, k \in DOMAIN p : j < k => p[j] < p[k]
          /\ \A m \in PostMessages(ex) :
                tasks[n].fault \in {"none", "delay", "disconnect_after"} =>
                    Queued(n, m) \/ Passed(n, ex, m)
      BY <2>0, <2>1 DEF ServeInv
    <2>3. Passed(n, ex, x)'
      <3>1. x \in Nat
        <4>1. x \in PostMessages(ex)
          BY <2>0, <2>1, <2>2
        <4> QED
          BY <4>1, PlansAreTyped DEF TypeInv
      <3>2. What(n, x) = Kind(ex, x)
        <4>1. tasks[n].ex = ex /\ Response(cassette, ex) # None
          BY <1>3, <2>1, Emits
        <4>2. Response(cassette, ex) \notin Asks(cassette)
          BY <4>1, ResponseIsTyped DEF TypeInv, Asks, Sent
        <4>3. CASE x = Response(cassette, ex)
          BY <4>1, <4>2, <4>3 DEF What, Kind
        <4>4. CASE x # Response(cassette, ex) /\ x \in Asks(cassette)
          BY <4>1, <4>4 DEF What, Kind
        <4>5. CASE x # Response(cassette, ex) /\ x \notin Asks(cassette)
          BY <4>1, <4>5 DEF What, Kind
        <4> QED
          BY <4>3, <4>4, <4>5
      <3>3. Item(What(n, x), x) \in Items
        BY <3>1, <3>2 DEF Kind, Item, Items, Kinds, Final
      <3>4. n \notin dropped => \E k \in DOMAIN shown'[n] : shown'[n][k] = Item(Kind(ex, x), x)
        BY <2>1, <3>2, <3>3, Shows DEF TypeInv
      <3>5. dropped \subseteq dropped'
        BY Grows
      <3> QED
        BY <1>0, <2>1, <3>4, <3>5 DEF Passed, Marked
    <2>4. \A k \in DOMAIN q : q[k] \in PostMessages(ex)
      BY <2>1, <2>2
    <2>5. \A j, k \in DOMAIN q : j < k => q[j] < q[k]
      <3> SUFFICES ASSUME NEW j \in DOMAIN q, NEW k \in DOMAIN q, j < k
                   PROVE  p[j + 1] < p[k + 1]
        BY <2>1
      <3>1. j + 1 < k + 1 /\ j + 1 \in DOMAIN p /\ k + 1 \in DOMAIN p
        BY <2>1
      <3> QED
        BY <2>2, <3>1
    <2>6. ASSUME NEW m, Queued(n, m), m # x PROVE Queued(n, m)'
      <3>1. PICK k \in DOMAIN p : p[k] = m
        BY <2>0, <2>6 DEF Queued
      <3>2. k - 1 \in DOMAIN q /\ q[k - 1] = m
        BY <2>0, <2>1, <2>6, <3>1
      <3> QED
        BY <3>2 DEF Queued
    <2>7. \A m \in PostMessages(ex) :
             tasks'[n].fault \in {"none", "delay", "disconnect_after"} =>
                 Queued(n, m)' \/ Passed(n, ex, m)'
      BY <1>1, <2>1, <2>2, <2>3, <2>6
    <2> QED
      BY <2>4, <2>5, <2>7
  <1>4. CASE \E y \in Exchanges(cassette) :
                /\ Response(cassette, y) # None
                /\ tasks'[n].ex = y /\ tasks'[n].queue = Reply(y)
    BY <1>4, ReplyIsWhole DEF Queued
  <1> QED
    BY <1>2, <1>3, <1>4, WhoServes

\* A call that was served has been shown its response, unless it has hung up.
LEMMA FinishServes ==
    ASSUME WellRecorded(cassette), TypeInv, CallInv, OwnInv, ServeInv, [Next]_vars,
           NEW n \in Id, Finish(n)
    PROVE  \A ex : ex = tasks[n].ex => Served(ex)'
  <1> SUFFICES ASSUME NEW ex, ex = tasks[n].ex PROVE Served(ex)'
    OBVIOUS
  <1>1. tasks[n].phase = "serve" /\ tasks[n].queue = <<>>
        /\ tasks[n].fault \in {"none", "delay", "disconnect_after"}
    BY DEF Finish, Serving, At
  <1>2. ex \in Exchanges(cassette) /\ Response(cassette, ex) # None /\ Recorded(sent[n].call, ex)
    BY <1>1 DEF TypeInv, Jobs, OwnInv
  <1>3. Passed(n, ex, Response(cassette, ex))
    <2>1. Response(cassette, ex) \in PostMessages(ex)
      BY <1>2, ReplyIsWhole
    <2>2. ~Queued(n, Response(cassette, ex))
      BY <1>1 DEF Queued
    <2> QED
      BY <1>1, <2>1, <2>2 DEF ServeInv
  <1>4. n \in dropped \/ \E k \in DOMAIN shown[n] :
                             shown[n][k] = Item("response", Response(cassette, ex))
    BY <1>3 DEF Passed, Kind
  <1>5. tasks'[n].phase = "done"
    BY Becomes DEF Finish, Closed, TypeInv, Idle, Job
  <1>6. n \in DOMAIN sent
    BY <1>1 DEF CallInv
  <1>7. shown' = shown /\ dropped' = dropped /\ sent' = sent /\ cassette' = cassette
    BY SameReplay DEF Finish, client, received
  <1>8. Recorded(sent[n].call, ex)'
    BY <1>2, <1>7 DEF Recorded
  <1>9. Served(ex)'
    BY <1>4, <1>5, <1>6, <1>7, <1>8 DEF Served
  <1> QED
    BY <1>9

\* A message goes on its way with the end of its call, which has been served by then.
LEMMA AfterStep ==
    ASSUME WellRecorded(cassette), TypeInv, CallInv, OwnInv, ServeInv, AfterInv, [Next]_vars
    PROVE  AfterInv'
  <1>0. cassette' = cassette
    BY SameReplay
  <1>1. ASSUME NEW ex, Served(ex) PROVE Served(ex)'
    <2>1. PICK n \in DOMAIN sent :
             /\ Recorded(sent[n].call, ex) /\ tasks[n].phase = "done"
             /\ \/ n \in dropped
                \/ \E i \in DOMAIN shown[n] :
                      shown[n][i] = Item("response", Response(cassette, ex))
      BY <1>1 DEF Served
    <2>2. n \in Id
      BY HttpAssumption DEF TypeInv, Id
    <2>3. n \in DOMAIN sent' /\ sent'[n] = sent[n] /\ tasks'[n] = tasks[n]
      BY <2>1, <2>2, Grows
    <2>4. \/ n \in dropped'
          \/ \E i \in DOMAIN shown'[n] :
                      shown'[n][i] = Item("response", Response(cassette, ex))
      BY <2>1, <2>2, Grows
    <2>5. Recorded(sent[n].call, ex)'
      BY <1>0, <2>1, <2>3 DEF Recorded
    <2> QED
      BY <1>0, <2>1, <2>3, <2>4, <2>5 DEF Served, Recorded
  <1> SUFFICES ASSUME NEW x \in OnItsWay', Anchor(cassette, x) # None
               PROVE  Served(Anchor(cassette, x))'
    BY <1>0 DEF AfterInv
  <1>2. CASE x \in OnItsWay
    <2>1. Served(Anchor(cassette, x))
      BY <1>2 DEF AfterInv
    <2>2. PICK ex : ex = Anchor(cassette, x)
      OBVIOUS
    <2>3. Served(ex)'
      BY <1>1, <2>1, <2>2
    <2> QED
      BY <1>0, <2>2, <2>3 DEF Served, Recorded
  <1>3. ASSUME NEW n \in Id, NEW q, Released(n, q), NEW k \in DOMAIN q, x = q[k]
        PROVE  Served(Anchor(cassette, x))'
    <2>1. Finish(n) /\ Anchor(cassette, x) = tasks[n].ex
      BY <1>3 DEF Released
    <2>2. PICK ex : ex = tasks[n].ex
      OBVIOUS
    <2>3. Served(ex)'
      BY <2>1, <2>2, FinishServes
    <2> QED
      BY <1>0, <2>1, <2>2, <2>3 DEF Served, Recorded
  <1>4. \/ x \in OnItsWay
        \/ \E n \in Id : \E q : Released(n, q) /\ \E k \in DOMAIN q : x = q[k]
    BY Arrives
  <1> QED
    BY <1>2, <1>3, <1>4

-----------------------------------------------------------------------------
(* The asks and their gates *)

\* The client answers what it was asked, and its answer opens the gate of that ask.
LEMMA AskStep ==
    ASSUME WellRecorded(cassette), TypeInv, AskInv, CallInv, [Next]_vars
    PROVE  AskInv'
  <1>0. cassette' = cassette
    BY SameReplay
  <1>1. \A n \in Id : \A k \in DOMAIN shown'[n] :
           shown'[n][k].what = "ask" => shown'[n][k].seq \in emitted'
    <2> SUFFICES ASSUME NEW n \in Id, NEW k \in DOMAIN shown'[n], shown'[n][k].what = "ask"
                 PROVE  shown'[n][k].seq \in emitted'
      OBVIOUS
    <2>1. CASE k \in DOMAIN shown[n] /\ shown'[n][k] = shown[n][k]
      BY <2>1, Grows DEF AskInv
    <2>2. CASE Emit(n) /\ shown'[n][k] = Item(What(n, Head(tasks[n].queue)), Head(tasks[n].queue))
      <3> DEFINE m == Head(tasks[n].queue)
      <3>1. What(n, m) = "ask" /\ shown'[n][k].seq = m
        BY <2>2 DEF Item
      <3>2. m \in Asks(cassette)
        BY <3>1 DEF What
      <3>3. Marked(m)
        BY <2>2, Emits
      <3> QED
        BY <3>1, <3>2, <3>3 DEF Marked
    <2> QED
      BY <2>1, <2>2, WhoShows
  <1>2. \A k \in DOMAIN heard' : heard'[k] \in Asks(cassette) => heard'[k] \in emitted'
    <2>1. CASE Deliver
      <3>1. /\ heard' = heard \/ heard' = Append(heard, listener.message)
            /\ Marked(listener.message)
        BY <2>1 DEF Deliver
      <3>2. listener.message \in GetPlan
        BY <2>1 DEF Deliver, TypeInv
      <3>3. \A k \in DOMAIN heard' :
               \/ k \in DOMAIN heard /\ heard'[k] = heard[k]
               \/ heard'[k] = listener.message
        <4>1. CASE heard' = heard
          BY <4>1
        <4>2. CASE heard' = Append(heard, listener.message)
          BY <3>2, <4>2, Appended DEF TypeInv
        <4> QED
          BY <3>1, <4>1, <4>2
      <3> QED
        BY <3>1, <3>3 DEF Marked, AskInv
    <2>2. CASE UNCHANGED heard
      BY <2>2, Grows DEF AskInv
    <2> QED
      BY <2>1, <2>2, WhoChanges
  <1>3. replied' \subseteq emitted'
    <2>1. ASSUME NEW ask, ClientAnswer(ask) PROVE replied' \subseteq emitted
      <3>1. ask \in Asks(cassette) /\ ask \in emitted
        BY <2>1 DEF ClientAnswer, Asked, AskInv, Item
      <3> QED
        BY <2>1, <3>1 DEF ClientAnswer, AskInv
    <2> QED
      BY <2>1, Grows, WhoChanges DEF AskInv
  <1>4. opened' \subseteq replied' /\ replied' \ mail' \subseteq opened'
    <2>1. CASE UNCHANGED <<replied, mail, opened>>
      BY <2>1 DEF AskInv
    <2>2. ASSUME NEW ask \in Asks(cassette), ClientAnswer(ask)
          PROVE  opened' \subseteq replied' /\ replied' \ mail' \subseteq opened'
      BY <2>2 DEF ClientAnswer, tracker, AskInv
    <2>3. ASSUME NEW ask \in Asks(cassette), OnAnswer(ask)
          PROVE  opened' \subseteq replied' /\ replied' \ mail' \subseteq opened'
      <3> DEFINE S == WithId(cassette, emitted \ opened, cassette[ask].id)
      <3>1. ask \in mail /\ mail' = mail \ {ask} /\ replied' = replied
            /\ opened' = opened \cup ({First(S)} \ {None})
        BY <2>3 DEF OnAnswer, client
      <3>2. ask \in replied /\ ask \in emitted
        BY <3>1 DEF TypeInv, AskInv
      <3>3. S = IF ask \in opened THEN {} ELSE {ask}
        <4>1. \A s \in S : /\ s \in Asks(cassette) /\ s \notin opened
                           /\ cassette[s].id = cassette[ask].id
          BY DEF WithId, TypeInv
        <4>2. \A s \in S : s = ask
          BY <4>1 DEF WellRecorded
        <4>3. ask \notin opened => ask \in S
          BY <3>2 DEF WithId
        <4> QED
          BY <4>1, <4>2, <4>3
      <3>4. ask \in Nat
        BY PlansAreTyped DEF TypeInv
      <3> HIDE DEF S
      <3>5. First(S) \in S \cup {None} /\ (ask \in S => First(S) \in S)
        <4>1. S \in SUBSET Nat
          BY <3>3, <3>4
        <4> QED
          BY <4>1, FirstOf
      <3>6. ask \in opened'
        <4>1. CASE ask \in opened
          BY <3>1, <4>1
        <4>2. CASE ask \notin opened
          <5>1. First(S) = ask
            BY <3>3, <3>5, <4>2
          <5>2. ask # None
            BY PlansAreTyped DEF TypeInv
          <5> QED
            BY <3>1, <5>1, <5>2
        <4> QED
          BY <4>1, <4>2
      <3>7. opened' \subseteq opened \cup {ask}
        BY <3>1, <3>3, <3>5
      <3> QED
        BY <3>1, <3>2, <3>6, <3>7 DEF AskInv
    <2> QED
      <3>1. UNCHANGED opened \/ \E ask \in Asks(cassette) : OnAnswer(ask)
        BY WhoChanges
      <3>2. \/ UNCHANGED <<replied, mail>>
            \/ \E ask \in Asks(cassette) : ClientAnswer(ask) \/ OnAnswer(ask)
        BY WhoChanges
      <3> QED
        BY <2>1, <2>2, <2>3, <3>1, <3>2
  <1> QED
    BY <1>0, <1>1, <1>2, <1>3, <1>4 DEF AskInv

\* The handler of the listening stream only starts with a GET.
LEMMA StreamOpens ==
    ASSUME TypeInv, [Next]_vars
    PROVE  /\ listener'.at # "off" => listener.at # "off" \/ ClientListen
           /\ UNCHANGED listens \/ ClientListen
  <1>0. listener = [at |-> listener.at, message |-> listener.message,
                    alive |-> listener.alive]
    BY DEF TypeInv, Listeners
  <1>1. ASSUME NEW n \in Id, Finish(n) \/ Replace(n) \/ Disconnect(n), listener'.at # "off"
        PROVE  listener.at # "off"
    <2>1. \/ listener' = listener
          \/ listener.at = "wait"
      BY <1>1, Releases DEF Released, Moved
    <2> QED
      BY <1>1, <2>1
  <1>2. ASSUME ClientHangUp PROVE listener'.at = listener.at
    <2>1. listener' = [listener EXCEPT !.alive = FALSE]
      BY <1>2 DEF ClientHangUp
    <2> QED
      BY <1>0, <2>1
  <1>3. ASSUME Listening PROVE listener.at # "off"
    BY <1>3 DEF Listening, StartStream, Take, Deliver, DeliverFails
  <1>4. UNCHANGED listens \/ ClientListen
    BY WhoChanges
  <1>5. \/ UNCHANGED listener
        \/ ClientListen \/ ClientHangUp \/ Listening
        \/ \E n \in Id : Finish(n) \/ Replace(n) \/ Disconnect(n)
    BY WhoChanges
  <1> QED
    BY <1>1, <1>2, <1>3, <1>4, <1>5

\* The only listening stream loses nothing while it lasts.
LEMMA LosslessStep ==
    ASSUME TypeInv, CallInv, Lossless, [Next]_vars
    PROVE  Lossless'
  <1>0. /\ cassette' = cassette /\ Asks(cassette)' = Asks(cassette) /\ GetPlan' = GetPlan
        /\ listens \in Nat /\ None \notin GetPlan
    BY SameReplay, PlansAreTyped, HttpAssumption DEF TypeInv
  <1>1. listens' = 0 => listener'.at = "off"
    <2>1. ClientListen => listens' = listens + 1
      BY DEF ClientListen
    <2> QED
      BY <1>0, <2>1, StreamOpens DEF Lossless
  <1> SUFFICES ASSUME listens' = 0 \/ (listens' = 1 /\ listener'.at # "off"),
                      NEW m \in GetPlan, m \notin unreleased'
               PROVE  \/ \E k \in DOMAIN ready' : ready'[k] = m
                      \/ listener'.message = m
                      \/ m \in Asks(cassette) => m \in emitted'
    BY <1>0, <1>1 DEF Lossless
  <1>2. listens = 0 \/ (listens = 1 /\ listener.at # "off")
    <2>1. ClientListen => listens' = listens + 1
      BY DEF ClientListen
    <2> QED
      BY <1>0, <2>1, StreamOpens
  <1>3. m \notin unreleased => \/ \E k \in DOMAIN ready : ready[k] = m
                               \/ listener.message = m
                               \/ m \in Asks(cassette) => m \in emitted
    BY <1>2 DEF Lossless
  <1>4. emitted \subseteq emitted'
    BY Grows
  <1>5. CASE /\ UNCHANGED <<unreleased, ready>>
             /\ listener'.message = listener.message
    BY <1>3, <1>4, <1>5
  <1>6. CASE /\ ready # <<>> /\ UNCHANGED unreleased /\ ready' = Tail(ready)
             /\ ~Holding /\ listener'.message = Head(ready)
    <2>1. listener.message = None
      BY <1>6 DEF Holding, TypeInv
    <2>2. \A k \in DOMAIN ready : \/ ready[k] = Head(ready)
                                 \/ \E j \in DOMAIN ready' : ready'[j] = ready[k]
      <3>1. /\ Head(ready) = ready[1] /\ DOMAIN ready = 1..Len(ready) /\ Len(ready) \in Nat
            /\ Len(ready') = Len(ready) - 1 /\ DOMAIN ready' = 1..Len(ready')
            /\ \A j \in DOMAIN ready' : ready'[j] = ready[j + 1]
        BY <1>6, HeadAndTail DEF TypeInv
      <3> SUFFICES ASSUME NEW k \in DOMAIN ready, k # 1
                   PROVE  \E j \in DOMAIN ready' : ready'[j] = ready[k]
        BY <3>1
      <3>2. k - 1 \in DOMAIN ready' /\ (k - 1) + 1 = k
        BY <3>1
      <3> QED
        BY <3>1, <3>2
    <2> QED
      BY <1>0, <1>3, <1>4, <1>6, <2>1, <2>2
  <1>7. CASE /\ Deliver \/ DeliverFails
             /\ UNCHANGED <<unreleased, ready>>
    <2>1. ASSUME Deliver PROVE Marked(listener.message)
      BY <2>1 DEF Deliver
    <2>2. ~DeliverFails
      <3>1. ASSUME DeliverFails
            PROVE  listener.at = "held" /\ listener'.at = "off" /\ listens' = listens
        BY <3>1 DEF DeliverFails, Listener, client
      <3> QED
        BY <1>2, <3>1 DEF Lossless
    <2> QED
      BY <1>3, <1>4, <1>7, <2>1, <2>2 DEF Marked
  <1>8. ASSUME NEW n \in Id, NEW q, Released(n, q), listener'.message = listener.message
        PROVE  \/ \E k \in DOMAIN ready' : ready'[k] = m
               \/ listener'.message = m
               \/ m \in Asks(cassette) => m \in emitted'
    <2>1. /\ q \in Seq(GetPlan) /\ ready' = ready \o q /\ ready \in Seq(GetPlan)
          /\ unreleased' = unreleased \ {q[k] : k \in DOMAIN q}
      BY <1>8, SeqMonotonic DEF Released, Moved, TypeInv
    <2>2. /\ \A k \in DOMAIN ready : k \in DOMAIN ready' /\ ready'[k] = ready[k]
          /\ \A k \in DOMAIN q : Len(ready) + k \in DOMAIN ready' /\ ready'[Len(ready) + k] = q[k]
      BY <2>1, Joined
    <2>3. CASE m \in unreleased
      <3>1. PICK k \in DOMAIN q : q[k] = m
        BY <2>1, <2>3
      <3> QED
        BY <2>2, <3>1
    <2>4. CASE m \notin unreleased
      BY <1>3, <1>4, <1>8, <2>2, <2>4
    <2> QED
      BY <2>3, <2>4
  <1> QED
    BY <1>5, <1>6, <1>7, <1>8, LineSteps

-----------------------------------------------------------------------------
(* What the client is served *)

\* The asks of the exchange of m that the client has to answer before it is shown m.
Unanswered(m) ==
    {s \in Asks(cassette) \ replied : /\ cassette[s].exchange = cassette[m].exchange
                                     /\ AnswerSeq(cassette, s) \in 1..(m - 1)}

\* An ask that holds m back was recorded before it and comes on the same stream.
LEMMA UnansweredIsBefore ==
    ASSUME WellRecorded(cassette), TypeInv, NEW m \in DOMAIN cassette,
           cassette[m].channel \in {"post", "get"}, NEW s \in Unanswered(m)
    PROVE  /\ s \in Asks(cassette) /\ s \in DOMAIN cassette /\ s \in Nat /\ m \in Nat /\ s < m
           /\ AnswerSeq(cassette, s) # None /\ AnswerSeq(cassette, s) < m
           /\ cassette[s].exchange = cassette[m].exchange
           /\ cassette[s].channel = cassette[m].channel /\ cassette[s].sender = "server"
  <1>1. s \in Asks(cassette) /\ s \in DOMAIN cassette /\ s \in Nat /\ m \in Nat
    BY PlansAreTyped DEF Unanswered, TypeInv
  <1>2. cassette[s].exchange = cassette[m].exchange /\ cassette[s].sender = "server"
    BY <1>1 DEF Unanswered, Asks, Sent
  <1>3. cassette[s].channel = cassette[m].channel
    BY <1>1, <1>2 DEF WellRecorded
  <1>4. AnswerSeq(cassette, s) \in 1..(m - 1)
    BY DEF Unanswered
  <1>5. AnswerSeq(cassette, s) # None /\ AnswerSeq(cassette, s) < m
    BY <1>1, <1>4 DEF None
  <1>6. s < AnswerSeq(cassette, s)
    BY <1>1, <1>5 DEF WellRecorded
  <1> QED
    BY <1>1, <1>2, <1>3, <1>4, <1>5, <1>6

\* What is emitted on the stream of a call has been asked and answered before.
LEMMA EmittedInTime ==
    ASSUME WellRecorded(cassette), TypeInv, ServeInv, AskInv, NEW n \in Id, Emit(n),
           What(n, Head(tasks[n].queue)) \in {"response", "note"}
    PROVE  Unanswered(Head(tasks[n].queue)) = {}
  <1> SUFFICES ASSUME NEW s \in Unanswered(Head(tasks[n].queue)) PROVE FALSE
    OBVIOUS
  <1>0. PICK m, ex, q : m = Head(tasks[n].queue) /\ ex = tasks[n].ex /\ q = tasks[n].queue
    OBVIOUS
  <1>1. /\ Serving(n) /\ tasks[n].phase = "serve" /\ m = q[1] /\ 1 \in DOMAIN q
        /\ CallBlockers(n) = {} /\ q \in Seq(DOMAIN cassette)
    BY <1>0, Emits
  <1>2. /\ m \in PostMessages(ex)
        /\ \A j, k \in DOMAIN q : j < k => q[j] < q[k]
        /\ \A x \in PostMessages(ex) : Queued(n, x) \/ Passed(n, ex, x)
    BY <1>0, <1>1 DEF ServeInv, Serving
  <1>3. /\ s \in Asks(cassette) /\ s \in DOMAIN cassette /\ s \in Nat /\ m \in Nat /\ s < m
        /\ AnswerSeq(cassette, s) # None /\ AnswerSeq(cassette, s) < m
        /\ cassette[s].exchange = cassette[m].exchange
        /\ cassette[s].channel = cassette[m].channel /\ cassette[s].sender = "server"
    BY <1>0, <1>2, UnansweredIsBefore DEF PostMessages
  <1>4. cassette[m].exchange = cassette[ex].exchange
    BY <1>2 DEF PostMessages
  <1>5. s \in PostMessages(ex)
    BY <1>2, <1>3, <1>4 DEF PostMessages
  <1>6. ~Queued(n, s)
    <2> SUFFICES ASSUME NEW k \in DOMAIN q, q[k] = s PROVE FALSE
      BY <1>0 DEF Queued
    <2>1. k = 1 \/ 1 < k
      BY <1>1
    <2> QED
      BY <1>1, <1>2, <1>3, <2>1
  <1>7. s \in emitted
    BY <1>2, <1>3, <1>5, <1>6 DEF Passed
  <1>8. s \notin opened
    BY DEF AskInv, Unanswered
  <1>9. s \in CallBlockers(n)
    BY <1>0, <1>3, <1>4, <1>7, <1>8 DEF CallBlockers, Blockers, Gates
  <1> QED
    BY <1>1, <1>9

\* The same for the listening stream, as long as nothing of it was cut off.
LEMMA HeardInTime ==
    ASSUME WellRecorded(cassette), TypeInv, LineInv, AskInv, Lossless, Deliver, listens <= 1,
           NEW s \in Unanswered(listener.message)
    PROVE  Anchor(cassette, s) # Anchor(cassette, listener.message)
  <1> SUFFICES ASSUME Anchor(cassette, s) = Anchor(cassette, listener.message) PROVE FALSE
    OBVIOUS
  <1>0. PICK m : m = listener.message
    OBVIOUS
  <1>1. Holding /\ ListenerBlockers = {} /\ m \in GetPlan /\ m \in DOMAIN cassette
    BY <1>0 DEF Deliver, Holding, TypeInv, GetPlan
  <1>2. /\ s \in Asks(cassette) /\ s \in DOMAIN cassette /\ s \in Nat /\ m \in Nat /\ s < m
        /\ AnswerSeq(cassette, s) # None /\ AnswerSeq(cassette, s) < m
        /\ cassette[s].exchange = cassette[m].exchange
        /\ cassette[s].channel = cassette[m].channel
    BY <1>0, <1>1, UnansweredIsBefore DEF GetPlan
  <1>3. s \in GetPlan
    BY <1>1, <1>2 DEF GetPlan
  <1>4. s \notin emitted
    <2>1. s \notin opened
      BY DEF AskInv, Unanswered
    <2>2. s \notin ListenerBlockers
      BY <1>1
    <2> QED
      BY <1>0, <1>2, <2>1, <2>2 DEF ListenerBlockers, Blockers, Gates
  <1>5. s \notin unreleased
    <2>1. m \in OnItsWay
      BY <1>0, <1>1 DEF OnItsWay
    <2> QED
      BY <1>0, <2>1 DEF LineInv
  <1>6. listens = 1 /\ listener.at # "off"
    <2>1. listens \in Nat /\ listens # 0 /\ listener.at = "held"
      BY <1>1, HttpAssumption DEF Holding, Lossless, TypeInv
    <2> QED
      BY <2>1
  <1>7. \E k \in DOMAIN ready : ready[k] = s
    BY <1>0, <1>2, <1>3, <1>4, <1>5, <1>6 DEF Lossless
  <1>8. Later(m, s)
    BY <1>0, <1>1, <1>7 DEF LineInv
  <1> QED
    BY <1>0, <1>2, <1>8 DEF Later

LEMMA HeldStep ==
    ASSUME WellRecorded(cassette), TypeInv, CallInv, ServeInv, LineInv, AskInv, Lossless,
           HeldUntilAnswered, [Next]_vars
    PROVE  HeldUntilAnswered'
  <1> DEFINE Pending(m) ==
                {s \in Asks(cassette) \ replied' :
                    /\ cassette[s].exchange = cassette[m].exchange
                    /\ AnswerSeq(cassette, s) \in 1..(m - 1)}
  <1>0. cassette' = cassette
    BY SameReplay
  <1>1. \A m : Pending(m) \subseteq Unanswered(m)
    BY Grows DEF Unanswered
  <1>2. /\ \A n \in Id : \A k \in DOMAIN shown[n] :
              shown[n][k].what \in {"response", "note"} => Unanswered(shown[n][k].seq) = {}
        /\ listens <= 1 =>
              \A k \in DOMAIN heard : \A s \in Unanswered(heard[k]) :
                  Anchor(cassette, s) # Anchor(cassette, heard[k])
    BY DEF HeldUntilAnswered, Unanswered
  <1> HIDE DEF Pending
  <1>3. ASSUME NEW n \in Id, NEW k \in DOMAIN shown'[n],
               shown'[n][k].what \in {"response", "note"}
        PROVE  Pending(shown'[n][k].seq) = {}
    <2>1. CASE k \in DOMAIN shown[n] /\ shown'[n][k] = shown[n][k]
      BY <1>1, <1>2, <1>3, <2>1
    <2>2. CASE Emit(n) /\ shown'[n][k] = Item(What(n, Head(tasks[n].queue)), Head(tasks[n].queue))
      <3>1. What(n, Head(tasks[n].queue)) \in {"response", "note"}
            /\ shown'[n][k].seq = Head(tasks[n].queue)
        BY <1>3, <2>2 DEF Item
      <3> QED
        BY <1>1, <2>2, <3>1, EmittedInTime
    <2> QED
      BY <1>3, <2>1, <2>2, WhoShows
  <1>4. ASSUME listens' <= 1, NEW k \in DOMAIN heard', NEW s \in Pending(heard'[k])
        PROVE  Anchor(cassette, s) # Anchor(cassette, heard'[k])
    <2>1. listens <= 1
      <3>1. listens \in Nat /\ listens <= listens'
        BY HttpAssumption, Grows DEF TypeInv
      <3>2. UNCHANGED listens \/ listens' = listens + 1
        BY StreamOpens DEF ClientListen
      <3> QED
        BY <1>4, <3>1, <3>2
    <2>2. \/ k \in DOMAIN heard /\ heard'[k] = heard[k]
          \/ Deliver /\ heard'[k] = listener.message
      <3>1. CASE Deliver
        <4>1. listener.message \in GetPlan
          BY <3>1 DEF Deliver, TypeInv
        <4>2. heard' = heard \/ heard' = Append(heard, listener.message)
          BY <3>1 DEF Deliver
        <4>3. CASE heard' = heard
          BY <4>3
        <4>4. CASE heard' = Append(heard, listener.message)
          BY <3>1, <4>1, <4>4, Appended DEF TypeInv
        <4> QED
          BY <4>2, <4>3, <4>4
      <3>2. CASE UNCHANGED heard
        BY <3>2
      <3> QED
        BY <3>1, <3>2, WhoChanges
    <2>3. s \in Unanswered(heard'[k])
      BY <1>1, <1>4
    <2> QED
      BY <1>2, <2>1, <2>2, <2>3, HeardInTime
  <1> QED
    BY <1>0, <1>3, <1>4 DEF HeldUntilAnswered, Pending

\* An exchange that is being served waits for no other one.
LEMMA OthersFollow ==
    ASSUME WellRecorded(cassette), TypeInv, ServeInv, AskInv
    PROVE  OthersAreServed
  <1> SUFFICES ASSUME NEW n \in DOMAIN sent \ dropped,
                      Serving(n), tasks[n].queue # <<>>, mail = {},
                      \A k \in DOMAIN shown[n] :
                         shown[n][k].what = "ask" => shown[n][k].seq \in replied,
                      NEW s \in CallBlockers(n)
               PROVE  FALSE
    BY DEF OthersAreServed
  <1>0. n \in Id
    BY HttpAssumption DEF TypeInv, Id
  <1>1. PICK m, ex, q : m = Head(tasks[n].queue) /\ ex = tasks[n].ex /\ q = tasks[n].queue
    OBVIOUS
  <1>2. /\ tasks[n].phase = "serve" /\ q \in Seq(DOMAIN cassette) /\ q # <<>>
        /\ ex \in Exchanges(cassette) /\ Response(cassette, ex) # None
    BY <1>0, <1>1 DEF Serving, At, TypeInv, Jobs
  <1>3. 1 \in DOMAIN q /\ m = q[1] /\ DOMAIN q \subseteq Nat \ {0}
    BY <1>1, <1>2, HeadAndTail
  <1>4. /\ m \in PostMessages(ex)
        /\ \A j, k \in DOMAIN q : j < k => q[j] < q[k]
        /\ \A x \in PostMessages(ex) : Queued(n, x) \/ Passed(n, ex, x)
    BY <1>0, <1>1, <1>2, <1>3 DEF ServeInv, Serving
  <1>5. /\ s \in emitted \ opened /\ AnswerSeq(cassette, s) # None /\ AnswerSeq(cassette, s) < m
        /\ cassette[s].exchange = cassette[ex].exchange
    BY <1>1 DEF CallBlockers, Blockers, Gates
  <1>6. /\ s \in Asks(cassette) /\ s \in DOMAIN cassette /\ s \in Nat /\ m \in Nat
        /\ cassette[s].sender = "server" /\ cassette[s].kind = "request"
    BY <1>4, <1>5, PlansAreTyped DEF TypeInv, Asks, Sent
  <1>7. s \in PostMessages(ex)
    BY <1>4, <1>5, <1>6 DEF PostMessages, WellRecorded
  <1>8. s < m
    <2>1. s < AnswerSeq(cassette, s)
      BY <1>5, <1>6 DEF WellRecorded
    <2>2. AnswerSeq(cassette, s) \in Nat
      <3> DEFINE S == WithId(cassette, Sent(cassette, "client", "response"), cassette[s].id)
      <3>1. S \in SUBSET Nat
        <4>1. S \subseteq DOMAIN cassette
          BY DEF WithId, Sent
        <4> QED
          BY <4>1, PlansAreTyped DEF TypeInv
      <3> HIDE DEF S
      <3>2. First(S) \in Nat
        BY <3>1, FirstOf, NoneIsNat
      <3> QED
        BY <3>2 DEF AnswerSeq, S
    <2> QED
      BY <1>5, <1>6, <2>1, <2>2
  <1>9. ~Queued(n, s)
    <2> SUFFICES ASSUME NEW k \in DOMAIN q, q[k] = s PROVE FALSE
      BY <1>1 DEF Queued
    <2>1. k = 1 \/ 1 < k
      BY <1>3
    <2> QED
      BY <1>3, <1>4, <1>6, <1>8, <2>1
  <1>10. PICK k \in DOMAIN shown[n] : shown[n][k] = Item(Kind(ex, s), s)
    BY <1>4, <1>7, <1>9 DEF Passed
  <1>11. Kind(ex, s) = "ask"
    <2>1. Response(cassette, ex) \notin Asks(cassette)
      BY <1>2, ResponseIsTyped DEF TypeInv, Asks, Sent
    <2> QED
      BY <1>6, <2>1 DEF Kind
  <1>12. s \in replied
    BY <1>10, <1>11 DEF Item
  <1> QED
    BY <1>5, <1>12 DEF AskInv

-----------------------------------------------------------------------------
(* The theorems *)

\* The invariants hold before the client has done anything.
LEMMA StartsClean ==
    ASSUME Init
    PROVE  /\ MissInv /\ TapeInv /\ LineInv /\ OwnInv /\ ServeInv /\ AfterInv /\ AskInv
           /\ Lossless /\ NoLostWakeup /\ OwnAnswer /\ HeldUntilAnswered
  <1>1. /\ \A n \in Id : shown[n] = <<>> /\ tasks[n].phase = "off"
        /\ heard = <<>> /\ ready = <<>> /\ misses = <<>> /\ tape = <<>>
        /\ listener.at = "off" /\ listener.message = None /\ exit = "running"
        /\ unreleased = GetPlan
        /\ replied = {} /\ mail = {} /\ emitted = {} /\ opened = {} /\ listens = 0
    BY DEF Init, Idle, Job, Listener
  <1>2. OnItsWay = {} /\ ~Holding
    BY <1>1 DEF OnItsWay, Holding
  <1>3. MissInv /\ TapeInv /\ OwnInv /\ ServeInv
    BY <1>1 DEF MissInv, TapeInv, OwnInv, ServeInv
  <1>4. LineInv /\ AfterInv
    BY <1>1, <1>2 DEF LineInv, AfterInv
  <1>5. AskInv /\ Lossless /\ NoLostWakeup
    BY <1>1 DEF AskInv, Lossless, NoLostWakeup
  <1>6. OwnAnswer /\ HeldUntilAnswered
    BY <1>1 DEF OwnAnswer, HeldUntilAnswered
  <1> QED
    BY <1>3, <1>4, <1>5, <1>6

\* Every variable keeps its type, no injector count exceeds the calls made, and a message
\* that was released is off the plan.
THEOREM TypeCorrect == Spec => []TypeOK
  <1> DEFINE Inv == TypeInv /\ CallInv /\ LineInv
  <1>1. Init => Inv
    BY TypeInit, CallInit, StartsClean
  <1>2. Inv /\ [Next]_vars => Inv'
    BY TypeStep, CallStep, LineStep
  <1>3. Inv => TypeOK
    <2> SUFFICES ASSUME Inv PROVE TypeOK
      OBVIOUS
    <2>1. counts \in [Methods -> 0..MaxCalls]
      <3>1. Cardinality(Handled) \in Nat /\ Cardinality(Handled) <= MaxCalls
        BY CallsAreFinite DEF Handled
      <3>2. counts \in [Methods -> Nat] /\ MaxCalls \in Nat
        BY HttpAssumption DEF TypeInv
      <3>3. \A m \in Methods : counts[m] \in 0..MaxCalls
        BY <3>1, <3>2 DEF CallInv
      <3> QED
        BY <3>2, <3>3
    <2>2. \A k \in DOMAIN ready : ready[k] \notin unreleased
      <3>1. \A k \in DOMAIN ready : ready[k] \in OnItsWay
        BY DEF OnItsWay
      <3> QED
        BY <3>1 DEF LineInv
    <2>3. \A n \in Id : tasks[n].phase \in Phases
      BY DEF TypeInv, Jobs
    <2>4. listener.at \in {"off", "start", "next", "wait", "held"}
      BY DEF TypeInv, Listeners
    <2>5. listener.at = "held" <=> listener.message # None
      BY PlansAreTyped DEF TypeInv
    <2> QED
      BY <2>1, <2>2, <2>3, <2>4, <2>5 DEF TypeOK, TypeInv, Phases
  <1> QED
    BY <1>1, <1>2, <1>3, PTL DEF Spec

\* No wakeup of the listening stream's handler is lost: whatever releases messages also
\* sets the event it waits for.
THEOREM WakeupsArrive == Spec => []NoLostWakeup
  <1>1. Init => NoLostWakeup
    BY StartsClean
  <1> QED
    BY <1>1, TypeHolds, WakeupStep, PTL DEF Spec

\* A client that was shown a miss makes the run fail, in its exit code and in the report.
THEOREM MissesAreReported == Spec => []MissesFailTheRun
  <1>1. Init => MissInv
    BY StartsClean
  <1>2. TypeInv /\ MissInv => MissesFailTheRun
    BY DEF MissInv, HasMissed, MissesFailTheRun
  <1> QED
    BY <1>1, <1>2, TypeHolds, MissStep, PTL DEF Spec

\* However the server ends, what the client has seen of the real server was appended to
\* the cassette after the request that asked for it.
THEOREM AnswersAreSaved == Spec => []ShownIsSaved
  <1>1. Init => TapeInv
    BY StartsClean
  <1>2. TypeInv /\ TapeInv => ShownIsSaved
    BY DEF TapeInv, Answering, ShownIsSaved
  <1> QED
    BY <1>1, <1>2, TypeHolds, TapeStep, PTL DEF Spec

LEMMA CallsHold == Spec => []CallInv
  BY CallInit, CallStep, TypeHolds, PTL DEF Spec

LEMMA LineHolds == Spec => []LineInv
  <1>1. Init => LineInv
    BY StartsClean
  <1> QED
    BY <1>1, LineStep, TypeHolds, PTL DEF Spec

LEMMA OwnHolds == Spec => []OwnInv
  <1>1. Init => OwnInv
    BY StartsClean
  <1> QED
    BY <1>1, OwnStep, TypeHolds, CallsHold, PTL DEF Spec

\* Whatever was recorded, and however the exchanges overlap, a call is answered with the
\* recording of that call.
THEOREM AnswersAreOwn == Spec => []OwnAnswer
  <1>1. Init => OwnAnswer
    BY StartsClean
  <1> QED
    BY <1>1, OwnAnswerStep, TypeHolds, CallsHold, OwnHolds, PTL DEF Spec

\* Whatever was recorded, a message of the listening stream comes once, and those of one
\* call come in their order.
THEOREM HeardInOrder == Spec => []HeardOnceInOrder
  <1>1. LineInv => HeardOnceInOrder
    BY DEF LineInv, Later, HeardOnceInOrder
  <1> QED
    BY <1>1, LineHolds, PTL

LEMMA CassetteIsGood ==
    ASSUME WellRecordings, TypeInv
    PROVE  WellRecorded(cassette)
  BY DEF WellRecordings, TypeInv, cassette

LEMMA ServeHolds ==
    ASSUME WellRecordings
    PROVE  Spec => []ServeInv
  <1>1. Init => ServeInv
    BY StartsClean
  <1>2. TypeInv /\ CallInv /\ ServeInv /\ [Next]_vars => ServeInv'
    BY CassetteIsGood, ServeStep
  <1> QED
    BY <1>1, <1>2, TypeHolds, CallsHold, PTL DEF Spec

\* A message of the listening stream comes only after the reply to the call it was
\* recorded after, when the ids of the recording are those of JSON-RPC.
THEOREM HeardRight ==
    ASSUME WellRecordings
    PROVE  Spec => []HeardAsRecorded
  <1>1. Init => AfterInv
    BY StartsClean
  <1>2. TypeInv /\ CallInv /\ OwnInv /\ ServeInv /\ AfterInv /\ [Next]_vars => AfterInv'
    BY CassetteIsGood, AfterStep
  <1>3. AfterInv => HeardAfterItsCall
    <2>1. \A k \in DOMAIN heard : heard[k] \in OnItsWay
      BY DEF OnItsWay
    <2> QED
      BY <2>1 DEF AfterInv, Served, HeardAfterItsCall
  <1>4. Spec => []AfterInv
    BY <1>1, <1>2, TypeHolds, CallsHold, OwnHolds, ServeHolds, PTL DEF Spec
  <1>5. HeardOnceInOrder /\ AfterInv => HeardAsRecorded
    BY <1>3 DEF HeardAsRecorded
  <1> QED
    BY <1>4, <1>5, HeardInOrder, PTL

\* The client is served what was recorded for its call, neither too early nor never, when
\* the ids of the recording are those of JSON-RPC.
THEOREM ServedRight ==
    ASSUME WellRecordings
    PROVE  Spec => []ServedAsRecorded
  <1> DEFINE Inv == AskInv /\ Lossless /\ HeldUntilAnswered
  <1>1. Init => Inv
    BY StartsClean
  <1>2. TypeInv /\ CallInv /\ ServeInv /\ LineInv /\ Inv /\ [Next]_vars => Inv'
    BY CassetteIsGood, AskStep, LosslessStep, HeldStep
  <1>3. TypeInv /\ ServeInv /\ Inv /\ OwnAnswer => ServedAsRecorded
    BY CassetteIsGood, OthersFollow DEF ServedAsRecorded
  <1> QED
    BY <1>1, <1>2, <1>3, TypeHolds, CallsHold, ServeHolds, LineHolds, AnswersAreOwn, PTL
       DEF Spec
=============================================================================
