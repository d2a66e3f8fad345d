-------------------------- MODULE HttpProxyProofs --------------------------
(***************************************************************************)
(* Proofs about HttpProxy: one listening stream at a time, a report and a  *)
(* freed claim only after the cassette, no checkpoint lost, and what a     *)
(* client is sent recorded event by event, for any requests, any answers   *)
(* cut into chunks anywhere, and any way to end.                           *)
(***************************************************************************)
EXTENDS HttpProxy, NaturalsInduction, SequenceTheorems, WellFoundedInduction, TLAPS

Places == phase \in [Exchange -> Idle \cup {"asking", "failing", "refusing", "conflict", "body",
                                            "reply", "stream", "chunk", "tail"}]

ListenInv == Places /\ OneListener

\* What every step of finalize leaves for the next one, and for a run that is killed.
Kept == messages # <<>> /\ ~fatal /\ ~failed => cassette = messages /\ partial = Nothing
FinalizeInv ==
    /\ cassette \in {Before, messages}
    /\ run \in {"up", "stopping", "drop", "save", "discard", "report", "release", "exited",
                "killed"}
    /\ run \in {"up", "stopping", "drop", "save"} => cassette = Before
    /\ run \in {"discard", "report"} => (messages # <<>> => cassette = messages)
    /\ run \in {"up", "stopping", "drop", "save", "discard", "report"} => ~report
    /\ run = "report" => partial = Nothing
    /\ run \in {"save", "discard", "report"} => ~fatal
    /\ run = "drop" => fatal
    /\ run # "exited" => claim
    /\ run \in {"release", "exited"} \/ report => Kept

\* A task that ends gives back the listening stream if it held it, and only then.
LEMMA ListenStep ==
    ASSUME ListenInv, [Next]_vars
    PROVE  ListenInv'
  <1> USE DEF ListenInv, Places, OneListener, Listens, Idle, exchanges, upstream
  <1>1. ASSUME NEW x \in Exchange, Serve(x) \/ FromUpstream(x) \/ Drop(x) PROVE ListenInv'
    <2>1. CASE Arrive(x)
      BY <2>1 DEF Arrive, Turn, Goto
    <2>2. CASE ErrorAtFirst(x) \/ Fail(x)
      BY <2>2 DEF ErrorAtFirst, Fail, Upstream, Turn, Goto
    <2>3. CASE Connect(x)
      BY <2>3 DEF Connect, Upstream, Turn, Goto
    <2>4. CASE ReadBody(x)
      BY <2>4 DEF ReadBody, Turn, Goto
    <2>5. CASE BodyBreaks(x)
      BY <2>5 DEF BodyBreaks, Turn, Halt
    <2>6. CASE Sent(x)
      BY <2>6 DEF Sent, Turn, Leave, Goto
    <2>7. CASE Refused(x)
      BY <2>7 DEF Refused, Turn, Halt, Leave, Goto
    <2>8. CASE SendBreaks(x)
      BY <2>8 DEF SendBreaks, Turn, Leave, Goto
    <2>9. CASE SendChunk(x)
      BY <2>9 DEF SendChunk, Turn, Goto
    <2>10. CASE Tap(x)
      BY <2>10 DEF Tap, Turn, Goto
    <2>11. CASE EndStream(x)
      BY <2>11 DEF EndStream, Turn, Goto
    <2>12. CASE StreamBreaks(x)
      BY <2>12 DEF StreamBreaks, Turn, Leave, Goto
    <2>13. CASE Drop(x)
      BY <2>13 DEF Drop
    <2> QED
      BY <1>1, <2>1, <2>2, <2>3, <2>4, <2>5, <2>6, <2>7, <2>8, <2>9, <2>10, <2>11, <2>12, <2>13
      DEF Serve, FromUpstream
  <1>2. CASE Stop
      BY <1>2 DEF Stop, Halt
  <1>3. CASE Checkpoint
      BY <1>3 DEF Checkpoint
  <1>4. CASE CheckpointSaved
      BY <1>4 DEF CheckpointSaved
  <1>5. CASE CheckpointFails
      BY <1>5 DEF CheckpointFails, Halt
  <1>6. CASE Finalize
      BY <1>6 DEF Finalize
  <1>7. CASE Save
      BY <1>7 DEF Save, Step
  <1>8. CASE SaveFails
      BY <1>8 DEF SaveFails, Step
  <1>9. CASE Discard
      BY <1>9 DEF Discard, Step
  <1>10. CASE WriteReport
      BY <1>10 DEF WriteReport, Step
  <1>11. CASE ReleaseClaim
      BY <1>11 DEF ReleaseClaim, Step
  <1>12. CASE Kill
      BY <1>12 DEF Kill
  <1>13. CASE UNCHANGED vars
      BY <1>13 DEF vars
  <1> QED
      BY <1>1, <1>2, <1>3, <1>4, <1>5, <1>6, <1>7, <1>8, <1>9, <1>10, <1>11, <1>12, <1>13
      DEF Next, Saves, Finalizes

\* For any plan the upstream is asked for one listening stream at a time.
THEOREM ListenersTakeTurns == Spec => []OneListener
  <1>1. Init => ListenInv
      BY DEF Init, ListenInv, Places, OneListener, Listens, Idle
  <1>2. ListenInv => OneListener
      BY DEF ListenInv
  <1> QED
      BY <1>1, <1>2, ListenStep, PTL DEF Spec

\* Recording ends before finalize begins, and finalize writes in its order.
LEMMA FinalizeStep ==
    ASSUME FinalizeInv, [Next]_vars
    PROVE  FinalizeInv'
  <1> USE DEF FinalizeInv, Kept, exchanges, upstream, disk
  <1>1. ASSUME NEW x \in Exchange, Serve(x) \/ FromUpstream(x) \/ Drop(x) PROVE FinalizeInv'
    <2>1. CASE Arrive(x)
      BY <2>1 DEF Arrive, Turn, Goto
    <2>2. CASE ErrorAtFirst(x) \/ Fail(x)
      BY <2>2 DEF ErrorAtFirst, Fail, Upstream, Turn, Goto
    <2>3. CASE Connect(x)
      BY <2>3 DEF Connect, Upstream, Turn, Goto
    <2>4. CASE ReadBody(x)
      BY <2>4 DEF ReadBody, Turn, Goto
    <2>5. CASE BodyBreaks(x)
      BY <2>5 DEF BodyBreaks, Turn, Halt
    <2>6. CASE Sent(x)
      BY <2>6 DEF Sent, Turn, Leave, Goto
    <2>7. CASE Refused(x)
      BY <2>7 DEF Refused, Turn, Halt, Leave, Goto
    <2>8. CASE SendBreaks(x)
      BY <2>8 DEF SendBreaks, Turn, Leave, Goto
    <2>9. CASE SendChunk(x)
      BY <2>9 DEF SendChunk, Turn, Goto
    <2>10. CASE Tap(x)
      BY <2>10 DEF Tap, Turn, Goto
    <2>11. CASE EndStream(x)
      BY <2>11 DEF EndStream, Turn, Goto
    <2>12. CASE StreamBreaks(x)
      BY <2>12 DEF StreamBreaks, Turn, Leave, Goto
    <2>13. CASE Drop(x)
      BY <2>13 DEF Drop
    <2> QED
      BY <1>1, <2>1, <2>2, <2>3, <2>4, <2>5, <2>6, <2>7, <2>8, <2>9, <2>10, <2>11, <2>12, <2>13
      DEF Serve, FromUpstream
  <1>2. CASE Stop
      BY <1>2 DEF Stop, Halt
  <1>3. CASE Checkpoint
      BY <1>3 DEF Checkpoint
  <1>4. CASE CheckpointSaved
      BY <1>4 DEF CheckpointSaved
  <1>5. CASE CheckpointFails
      BY <1>5 DEF CheckpointFails, Halt
  <1>6. CASE Finalize
    <2>1. CASE fatal
      BY <1>6, <2>1 DEF Finalize
    <2>2. CASE ~fatal /\ messages = <<>>
      BY <1>6, <2>2 DEF Finalize
    <2>3. CASE ~fatal /\ messages # <<>>
      BY <1>6, <2>3 DEF Finalize
    <2> QED
      BY <2>1, <2>2, <2>3
  <1>7. CASE Save
      BY <1>7 DEF Save, Step
  <1>8. CASE SaveFails
      BY <1>8 DEF SaveFails, Step
  <1>9. CASE Discard
      BY <1>9 DEF Discard, Step
  <1>10. CASE WriteReport
      BY <1>10 DEF WriteReport, Step
  <1>11. CASE ReleaseClaim
      BY <1>11 DEF ReleaseClaim, Step
  <1>12. CASE Kill
      BY <1>12 DEF Kill
  <1>13. CASE UNCHANGED vars
      BY <1>13 DEF vars
  <1> QED
      BY <1>1, <1>2, <1>3, <1>4, <1>5, <1>6, <1>7, <1>8, <1>9, <1>10, <1>11, <1>12, <1>13
      DEF Next, Saves, Finalizes

\* For any plan, whatever fails and whenever the process is killed: the cassette is the old
\* one or the whole recording, and neither the report nor the freed claim comes before it.
THEOREM CassetteComesFirst == Spec => []CassetteFirst
  <1>1. Init => FinalizeInv
      BY DEF Init, FinalizeInv, Kept
  <1>2. FinalizeInv => CassetteFirst
      BY DEF FinalizeInv, CassetteFirst, Kept
  <1> QED
      BY <1>1, <1>2, FinalizeStep, PTL DEF Spec

-----------------------------------------------------------------------------
(* Induction, for the recursive functions of the parser *)

LEMMA Induction ==
    ASSUME NEW S, 0 \in S, \A n \in Nat : n \in S => n + 1 \in S
    PROVE  Nat \subseteq S
  <1> DEFINE T == Nat \ S
  <1> SUFFICES ASSUME T # {} PROVE FALSE
    OBVIOUS
  <1>1. PICK m \in T : \A y \in T : ~(y < m)
    <2>1. IsWellFoundedOn(OpToRel(<, Nat), Nat)
      BY NatLessThanWellFounded
    <2>2. PICK m \in T : \A y \in T : <<y, m>> \notin OpToRel(<, Nat)
      BY <2>1, WFMin
    <2> QED
      BY <2>2 DEF OpToRel
  <1>2. m # 0 /\ m - 1 \in Nat /\ m - 1 \notin T
    BY <1>1
  <1> QED
    BY <1>1, <1>2

LEMMA HasGreatest ==
    ASSUME NEW n \in Nat, NEW S \in SUBSET Nat, S # {}, \A x \in S : x <= n
    PROVE  \E x \in S : \A y \in S : y <= x
  <1> DEFINE T == {k \in Nat : \A R \in SUBSET Nat :
                     R # {} /\ (\A x \in R : x <= k) => \E x \in R : \A y \in R : y <= x}
  <1>1. 0 \in T
    <2> SUFFICES ASSUME NEW R \in SUBSET Nat, R # {}, \A x \in R : x <= 0
                 PROVE  \E x \in R : \A y \in R : y <= x
      OBVIOUS
    <2>1. \A x \in R : x = 0
      OBVIOUS
    <2> QED
      BY <2>1
  <1>2. ASSUME NEW k \in Nat, k \in T PROVE k + 1 \in T
    <2> SUFFICES ASSUME NEW R \in SUBSET Nat, R # {}, \A x \in R : x <= k + 1
                 PROVE  \E x \in R : \A y \in R : y <= x
      OBVIOUS
    <2>1. CASE k + 1 \in R
      BY <2>1
    <2>2. CASE k + 1 \notin R
      <3>1. \A x \in R : x <= k
        BY <2>2
      <3> QED
        BY <1>2, <3>1
    <2> QED
      BY <2>1, <2>2
  <1> HIDE DEF T
  <1>3. n \in T
    BY <1>1, <1>2, Induction
  <1> QED
    BY <1>3 DEF T

-----------------------------------------------------------------------------
(* What the parser and the recorder make of a chunk *)

Parser == [buffer : Seq(Token), lines : Events]
Feeding == [buffer : Seq(Token), lines : Events, events : Seq(Events)]

LEMMA StrippedIsTyped ==
    ASSUME NEW line \in Seq(Token)
    PROVE  /\ Stripped(line) \in Seq(Token)
           /\ Stripped(line) # <<>> => Tail(Stripped(line)) \in Seq(Token)
  <1> DEFINE I == {i \in 1..Len(line) : line[i] # "cr"}
             m == IF I # {} THEN Max(I) ELSE 0
  <1>1. Stripped(line) = SubSeq(line, 1, m)
    BY DEF Stripped, SelectLastInSeq
  <1>2. m \in 0..Len(line)
    <2> SUFFICES ASSUME I # {} PROVE Max(I) \in I
      OBVIOUS
    <2>1. I \in SUBSET Nat /\ Len(line) \in Nat /\ \A i \in I : i <= Len(line)
      OBVIOUS
    <2> HIDE DEF I
    <2>2. PICK x \in I : \A y \in I : y <= x
      BY <2>1, HasGreatest
    <2> QED
      BY <2>1, <2>2 DEF Max
  <1> HIDE DEF m
  <1>3. SubSeq(line, 1, m) \in Seq(Token)
    BY <1>2
  <1> QED
    BY <1>1, <1>3

LEMMA FeedingWith ==
    ASSUME NEW q \in Feeding
    PROVE  /\ \A b \in Seq(Token) : [q EXCEPT !.buffer = b] \in Feeding
           /\ \A l \in Seq(Token) : [q EXCEPT !.lines = Append(@, l)] \in Feeding
           /\ [q EXCEPT !.lines = <<>>, !.events = Append(@, q.lines)] \in Feeding
           /\ q.buffer \in Seq(Token) /\ q.lines \in Events
  <1> DEFINE L == Seq(Token)
  <1>1. /\ q \in [buffer : L, lines : Seq(L), events : Seq(Seq(L))]
        /\ Feeding = [buffer : L, lines : Seq(L), events : Seq(Seq(L))]
    BY DEF Feeding, Events
  <1>2. Events = Seq(L)
    BY DEF Events
  <1> HIDE DEF L
  <1>3. q.lines \in Seq(L) /\ q.events \in Seq(Seq(L)) /\ q.buffer \in L
    BY <1>1
  <1>4. \A l \in L : Append(q.lines, l) \in Seq(L)
    BY <1>3
  <1>5. Append(q.events, q.lines) \in Seq(Seq(L)) /\ <<>> \in Seq(L)
    BY <1>3
  <1>6. \A b \in L : [q EXCEPT !.buffer = b] \in Feeding
    BY <1>1
  <1>7. \A l \in L : [q EXCEPT !.lines = Append(@, l)] \in Feeding
    BY <1>1, <1>4
  <1>8. [q EXCEPT !.lines = <<>>, !.events = Append(@, q.lines)] \in Feeding
    BY <1>1, <1>5
  <1> QED
    BY <1>2, <1>3, <1>6, <1>7, <1>8 DEF L

LEMMA FeedLineIsTyped ==
    ASSUME NEW q \in Feeding, NEW line \in Seq(Token), line # <<>> => Tail(line) \in Seq(Token)
    PROVE  FeedLine(q, line) \in Feeding
  <1>1. Dispatch(q) \in Feeding
    BY FeedingWith DEF Dispatch
  <1> QED
    BY <1>1, FeedingWith DEF FeedLine

LEMMA FeedTokenIsTyped ==
    ASSUME NEW p \in Feeding, NEW c \in Token
    PROVE  FeedToken(p, c) \in Feeding
  <1>3. <<>> \in Seq(Token)
    OBVIOUS
  <1>4. [p EXCEPT !.buffer = <<>>] \in Feeding
    BY <1>3, FeedingWith
  <1>5. FeedLine([p EXCEPT !.buffer = <<>>], Stripped(p.buffer)) \in Feeding
    <2>1. p.buffer \in Seq(Token)
      BY FeedingWith
    <2> QED
      BY <1>4, <2>1, StrippedIsTyped, FeedLineIsTyped
  <1>6. Append(p.buffer, c) \in Seq(Token)
    <2>1. p.buffer \in Seq(Token)
      BY FeedingWith
    <2> QED
      BY <2>1
  <1>7. [p EXCEPT !.buffer = Append(@, c)] = [p EXCEPT !.buffer = Append(p.buffer, c)]
    BY DEF Feeding
  <1>8. [p EXCEPT !.buffer = Append(@, c)] \in Feeding
    BY <1>6, <1>7, FeedingWith
  <1> QED
    BY <1>5, <1>8 DEF FeedToken

LEMMA AfterIsDefined ==
    ASSUME NEW p, NEW chunk, Len(chunk) \in Nat
    PROVE  After(p, chunk) = [n \in 0..Len(chunk) |->
                IF n = 0 THEN Loaded(p) ELSE FeedToken(After(p, chunk)[n - 1], chunk[n])]
  <1> DEFINE Is(f, m) ==
               f = [n \in 0..m |-> IF n = 0 THEN Loaded(p) ELSE FeedToken(f[n - 1], chunk[n])]
             S == {m \in Nat : \E f : Is(f, m)}
  <1>1. 0 \in S
    <2> DEFINE f == [n \in 0..0 |-> Loaded(p)]
    <2>1. Is(f, 0)
      OBVIOUS
    <2> QED
      BY <2>1
  <1>2. ASSUME NEW m \in Nat, m \in S PROVE m + 1 \in S
    <2>1. PICK f : Is(f, m)
      BY <1>2
    <2> DEFINE g == [n \in 0..(m + 1) |->
                      IF n <= m THEN f[n] ELSE FeedToken(f[m], chunk[m + 1])]
    <2>2. g = [n \in 0..(m + 1) |-> IF n = 0 THEN Loaded(p) ELSE FeedToken(g[n - 1], chunk[n])]
      <3>1. ASSUME NEW n \in 0..(m + 1)
            PROVE g[n] = IF n = 0 THEN Loaded(p) ELSE FeedToken(g[n - 1], chunk[n])
        <4>1. CASE n = 0
          BY <2>1, <4>1
        <4>2. CASE n \in 1..m
          <5>1. g[n] = f[n] /\ g[n - 1] = f[n - 1]
            BY <4>2
          <5> QED
            BY <2>1, <4>2, <5>1
        <4>3. CASE n = m + 1
          <5>1. g[n] = FeedToken(f[m], chunk[m + 1]) /\ g[n - 1] = f[m]
            BY <4>3
          <5> QED
            BY <4>3, <5>1
        <4> QED
          BY <4>1, <4>2, <4>3
      <3> QED
        BY <3>1
    <2>3. Is(g, m + 1)
      BY <2>2
    <2> HIDE DEF g
    <2> QED
      BY <2>3
  <1>3. Len(chunk) \in S
    <2> HIDE DEF S
    <2> QED
      BY <1>1, <1>2, Induction
  <1>4. PICK f : Is(f, Len(chunk))
    BY <1>3
  <1> QED
    BY <1>4 DEF After

LEMMA FeedIsTyped ==
    ASSUME NEW p \in Parser, NEW chunk \in Seq(Token)
    PROVE  Feed(p, chunk) \in Feeding
  <1> DEFINE after == After(p, chunk)
             S == {m \in Nat : m \in 0..Len(chunk) => after[m] \in Feeding}
  <1>1. /\ Len(chunk) \in Nat
        /\ \A n \in 0..Len(chunk) :
              after[n] = IF n = 0 THEN Loaded(p) ELSE FeedToken(after[n - 1], chunk[n])
    BY AfterIsDefined
  <1>2. Loaded(p) \in Feeding
    BY DEF Loaded, Parser, Feeding, Events
  <1> HIDE DEF after
  <1>3. 0 \in S
    BY <1>1, <1>2
  <1>4. ASSUME NEW m \in Nat, m \in S PROVE m + 1 \in S
    <2> SUFFICES ASSUME m + 1 \in 0..Len(chunk) PROVE after[m + 1] \in Feeding
      OBVIOUS
    <2>1. after[m] \in Feeding /\ chunk[m + 1] \in Token
      BY <1>1, <1>4
    <2>2. after[m + 1] = FeedToken(after[m], chunk[m + 1])
      BY <1>1
    <2> QED
      BY <2>1, <2>2, FeedTokenIsTyped
  <1> HIDE DEF S
  <1>5. Len(chunk) \in S
    BY <1>1, <1>3, <1>4, Induction
  <1> QED
    BY <1>1, <1>5 DEF S, Feed, after

LEMMA PickingIsDefined ==
    ASSUME NEW s, NEW S, Len(s) \in Nat
    PROVE  Picking(s, S) = [n \in 0..Len(s) |->
                IF n = 0 THEN <<>> ELSE OneMore(Picking(s, S)[n - 1], s, S, n)]
  <1> DEFINE Is(f, m) == f = [n \in 0..m |-> 
                                IF n = 0 THEN <<>> ELSE OneMore(f[n - 1], s, S, n)]
             N == {m \in Nat : \E f : Is(f, m)}
  <1>1. 0 \in N
    <2> DEFINE f == [n \in 0..0 |-> <<>>]
    <2>1. Is(f, 0)
      OBVIOUS
    <2> QED
      BY <2>1
  <1>2. ASSUME NEW m \in Nat, m \in N PROVE m + 1 \in N
    <2>1. PICK f : Is(f, m)
      BY <1>2
    <2> DEFINE g == [n \in 0..(m + 1) |-> IF n <= m THEN f[n] ELSE OneMore(f[m], s, S, m + 1)]
    <2>2. ASSUME NEW n \in 0..(m + 1)
          PROVE  g[n] = IF n = 0 THEN <<>> ELSE OneMore(g[n - 1], s, S, n)
      <3>1. CASE n = 0
        BY <2>1, <3>1
      <3>2. CASE n \in 1..m
        <4>1. g[n] = f[n] /\ g[n - 1] = f[n - 1]
          BY <3>2
        <4> QED
          BY <2>1, <3>2, <4>1
      <3>3. CASE n = m + 1
        <4>1. g[n] = OneMore(f[m], s, S, m + 1) /\ g[n - 1] = f[m]
          BY <3>3
        <4> QED
          BY <3>3, <4>1
      <3> QED
        BY <3>1, <3>2, <3>3
    <2>3. Is(g, m + 1)
      BY <2>2
    <2> HIDE DEF g
    <2> QED
      BY <2>3
  <1>3. Len(s) \in N
    <2> HIDE DEF N
    <2> QED
      BY <1>1, <1>2, Induction
  <1>4. PICK f : Is(f, Len(s))
    BY <1>3
  <1> QED
    BY <1>4 DEF Picking

\* What is picked grows by what stands at each place of S.
LEMMA PickingSteps ==
    ASSUME NEW s, NEW S, Len(s) \in Nat
    PROVE  /\ Picking(s, S)[0] = <<>>
           /\ \A n \in 1..Len(s) :
                 Picking(s, S)[n] = IF n \in S THEN Append(Picking(s, S)[n - 1], s[n])
                                    ELSE Picking(s, S)[n - 1]
  <1> DEFINE f == Picking(s, S)
  <1>1. f = [n \in 0..Len(s) |-> IF n = 0 THEN <<>> ELSE OneMore(f[n - 1], s, S, n)]
    BY PickingIsDefined
  <1> HIDE DEF f
  <1>2. f[0] = <<>> /\ \A n \in 1..Len(s) : f[n] = OneMore(f[n - 1], s, S, n)
    BY <1>1
  <1> QED
    BY <1>2 DEF f, OneMore

LEMMA PickedIsTyped ==
    ASSUME NEW D, NEW s \in Seq(D), NEW S
    PROVE  Picked(s, S) \in Seq(D)
  <1> DEFINE f == Picking(s, S)
             N == {m \in Nat : m <= Len(s) => f[m] \in Seq(D)}
  <1>1. /\ f[0] = <<>>
        /\ \A n \in 1..Len(s) : f[n] = IF n \in S THEN Append(f[n - 1], s[n]) ELSE f[n - 1]
    BY PickingSteps
  <1> HIDE DEF f
  <1>2. 0 \in N
    BY <1>1, EmptySeq
  <1>3. ASSUME NEW m \in Nat, m \in N PROVE m + 1 \in N
    <2> SUFFICES ASSUME m + 1 <= Len(s) PROVE f[m + 1] \in Seq(D)
      OBVIOUS
    <2>1. f[m] \in Seq(D) /\ s[m + 1] \in D
      BY <1>3
    <2>2. f[m + 1] = IF m + 1 \in S THEN Append(f[m], s[m + 1]) ELSE f[m]
      BY <1>1
    <2> QED
      BY <2>1, <2>2
  <1>4. Len(s) \in N
    <2> HIDE DEF N
    <2> QED
      BY <1>2, <1>3, Induction
  <1> QED
    BY <1>4 DEF Picked, f

\* What is picked up to a place depends on nothing after it.
LEMMA SamePicking ==
    ASSUME NEW s, NEW t, NEW S, NEW T, Len(s) \in Nat, Len(t) \in Nat,
           NEW k \in Nat, k <= Len(s), k <= Len(t),
           \A i \in 1..k : (i \in S <=> i \in T) /\ (i \in S => s[i] = t[i])
    PROVE  Picking(s, S)[k] = Picking(t, T)[k]
  <1> DEFINE f == Picking(s, S)
             g == Picking(t, T)
             N == {m \in Nat : m <= k => f[m] = g[m]}
  <1>1. /\ f[0] = <<>>
        /\ \A n \in 1..Len(s) : f[n] = IF n \in S THEN Append(f[n - 1], s[n]) ELSE f[n - 1]
    BY PickingSteps
  <1>2. /\ g[0] = <<>>
        /\ \A n \in 1..Len(t) : g[n] = IF n \in T THEN Append(g[n - 1], t[n]) ELSE g[n - 1]
    BY PickingSteps
  <1> HIDE DEF f, g
  <1>3. 0 \in N
    BY <1>1, <1>2
  <1>4. ASSUME NEW m \in Nat, m \in N PROVE m + 1 \in N
    <2> SUFFICES ASSUME m + 1 <= k PROVE f[m + 1] = g[m + 1]
      OBVIOUS
    <2>1. f[m] = g[m]
      BY <1>4
    <2>2. f[m + 1] = IF m + 1 \in S THEN Append(f[m], s[m + 1]) ELSE f[m]
      BY <1>1
    <2>3. g[m + 1] = IF m + 1 \in T THEN Append(g[m], t[m + 1]) ELSE g[m]
      BY <1>2
    <2> QED
      BY <2>1, <2>2, <2>3
  <1>5. k \in N
    <2> HIDE DEF N
    <2> QED
      BY <1>3, <1>4, Induction
  <1> QED
    BY <1>5 DEF f, g

LEMMA SamePicked ==
    ASSUME NEW s, NEW t, NEW S, NEW T, Len(s) \in Nat, Len(t) = Len(s),
           \A i \in 1..Len(s) : (i \in S <=> i \in T) /\ (i \in S => s[i] = t[i])
    PROVE  Picked(s, S) = Picked(t, T)
  BY SamePicking DEF Picked

LEMMA OneMorePicked ==
    ASSUME NEW s, NEW t, NEW S, NEW T, Len(s) \in Nat, Len(t) = Len(s) + 1,
           \A i \in 1..Len(s) : (i \in S <=> i \in T) /\ (i \in S => s[i] = t[i])
    PROVE  Picked(t, T) = IF Len(t) \in T THEN Append(Picked(s, S), t[Len(t)]) ELSE Picked(s, S)
  <1>1. Picking(s, S)[Len(s)] = Picking(t, T)[Len(s)]
    BY SamePicking
  <1>2. Len(t) \in Nat /\ Len(t) \in 1..Len(t)
    OBVIOUS
  <1>3. \A n \in 1..Len(t) :
           Picking(t, T)[n] = IF n \in T THEN Append(Picking(t, T)[n - 1], t[n])
                              ELSE Picking(t, T)[n - 1]
    BY <1>2, PickingSteps
  <1>4. Len(t) - 1 = Len(s)
    OBVIOUS
  <1> QED
    BY <1>1, <1>2, <1>3, <1>4 DEF Picked

LEMMA NonePicked ==
    ASSUME NEW s, NEW S, Len(s) \in Nat, \A i \in 1..Len(s) : i \notin S
    PROVE  Picked(s, S) = <<>>
  <1> DEFINE f == Picking(s, S)
             N == {m \in Nat : m <= Len(s) => f[m] = <<>>}
  <1>1. /\ f[0] = <<>>
        /\ \A n \in 1..Len(s) : f[n] = IF n \in S THEN Append(f[n - 1], s[n]) ELSE f[n - 1]
    BY PickingSteps
  <1> HIDE DEF f
  <1>2. 0 \in N
    BY <1>1
  <1>3. ASSUME NEW m \in Nat, m \in N PROVE m + 1 \in N
    BY <1>1, <1>3
  <1>4. Len(s) \in N
    <2> HIDE DEF N
    <2> QED
      BY <1>2, <1>3, Induction
  <1> QED
    BY <1>4 DEF Picked, f

LEMMA AppendsLast ==
    ASSUME NEW D, NEW s \in Seq(D), NEW t \in Seq(D), NEW e \in D
    PROVE  s \o Append(t, e) = Append(s \o t, e)
  <1>1. <<e>> \in Seq(D) /\ s \o t \in Seq(D)
    OBVIOUS
  <1>2. Append(t, e) = t \o <<e>> /\ Append(s \o t, e) = (s \o t) \o <<e>>
    BY <1>1, AppendIsConcat
  <1>3. (s \o t) \o <<e>> = s \o (t \o <<e>>)
    BY <1>1, ConcatAssociative
  <1> QED
    BY <1>2, <1>3

\* What is picked of two sequences one after the other.
Joined(s, S, t, T, u, U) ==
    /\ Len(u) = Len(s) + Len(t)
    /\ \A i \in 1..Len(s) : (i \in S <=> i \in U) /\ s[i] = u[i]
    /\ \A i \in 1..Len(t) : (i \in T <=> Len(s) + i \in U) /\ t[i] = u[Len(s) + i]

LEMMA PickedOfBoth ==
    ASSUME NEW D, NEW s \in Seq(D), NEW t \in Seq(D), NEW u \in Seq(D), NEW S, NEW T, NEW U,
           Joined(s, S, t, T, u, U)
    PROVE  Picked(u, U) = Picked(s, S) \o Picked(t, T)
  <1> DEFINE f == Picking(u, U)
             g == Picking(t, T)
             own == Picked(s, S)
             N == {m \in Nat : m <= Len(t) => g[m] \in Seq(D) /\ f[Len(s) + m] = own \o g[m]}
  <1>0. /\ Len(u) = Len(s) + Len(t) /\ Len(s) \in Nat /\ Len(t) \in Nat /\ Len(u) \in Nat
        /\ Len(s) <= Len(u)
        /\ \A i \in 1..Len(s) : (i \in S <=> i \in U) /\ (i \in S => s[i] = u[i])
        /\ \A i \in 1..Len(t) : (i \in T <=> Len(s) + i \in U) /\ t[i] = u[Len(s) + i]
    BY DEF Joined
  <1>1. /\ f[0] = <<>>
        /\ \A n \in 1..Len(u) : f[n] = IF n \in U THEN Append(f[n - 1], u[n]) ELSE f[n - 1]
    BY PickingSteps
  <1>2. /\ g[0] = <<>>
        /\ \A n \in 1..Len(t) : g[n] = IF n \in T THEN Append(g[n - 1], t[n]) ELSE g[n - 1]
    BY PickingSteps
  <1>3. own \in Seq(D)
    BY PickedIsTyped
  <1>4. f[Len(s)] = own
    BY <1>0, SamePicking DEF Picked
  <1> HIDE DEF f, g, own
  <1>5. 0 \in N
    <2>1. own \o <<>> = own /\ <<>> \in Seq(D) /\ Len(s) + 0 = Len(s)
      BY <1>3, ConcatEmptySeq
    <2> QED
      BY <1>0, <1>2, <1>4, <2>1
  <1>8. \A a \in Seq(D), e \in D : own \o Append(a, e) = Append(own \o a, e)
    BY <1>3, AppendsLast
  <1>6. ASSUME NEW m \in Nat, m \in N PROVE m + 1 \in N
    <2> SUFFICES ASSUME m + 1 <= Len(t)
                 PROVE  g[m + 1] \in Seq(D) /\ f[Len(s) + (m + 1)] = own \o g[m + 1]
      OBVIOUS
    <2>1. g[m] \in Seq(D) /\ f[Len(s) + m] = own \o g[m] /\ t[m + 1] \in D
          /\ m + 1 \in 1..Len(t)
      BY <1>0, <1>6
    <2>2. g[m + 1] = IF m + 1 \in T THEN Append(g[m], t[m + 1]) ELSE g[m]
      BY <1>2, <2>1
    <2>3. Len(s) + (m + 1) \in 1..Len(u) /\ (Len(s) + (m + 1)) - 1 = Len(s) + m
      BY <1>0, <2>1
    <2>4. f[Len(s) + (m + 1)] =
              IF Len(s) + (m + 1) \in U THEN Append(f[Len(s) + m], u[Len(s) + (m + 1)])
              ELSE f[Len(s) + m]
      BY <1>1, <2>3
    <2>5. (m + 1 \in T <=> Len(s) + (m + 1) \in U) /\ t[m + 1] = u[Len(s) + (m + 1)]
      BY <1>0, <2>1
    <2>6. own \o Append(g[m], t[m + 1]) = Append(own \o g[m], t[m + 1])
      BY <1>8, <2>1
    <2>7. Append(g[m], t[m + 1]) \in Seq(D)
      BY <2>1, AppendProperties
    <2>8. CASE m + 1 \in T
      <3>1. g[m + 1] = Append(g[m], t[m + 1])
        BY <2>2, <2>8
      <3>2. f[Len(s) + (m + 1)] = Append(f[Len(s) + m], t[m + 1])
        BY <2>4, <2>5, <2>8
      <3> QED
        BY <2>1, <2>6, <2>7, <3>1, <3>2
    <2>9. CASE m + 1 \notin T
      BY <2>1, <2>2, <2>4, <2>5, <2>9
    <2> QED
      BY <2>8, <2>9
  <1>7. Len(t) \in N
    <2> HIDE DEF N
    <2> QED
      BY <1>0, <1>5, <1>6, Induction
  <1>9. f[Len(u)] = own \o g[Len(t)]
    BY <1>0, <1>7
  <1> QED
    BY <1>9 DEF Picked, f, g, own

LEMMA AllPicked ==
    ASSUME NEW D, NEW s \in Seq(D), NEW S, \A i \in 1..Len(s) : i \in S
    PROVE  Picked(s, S) = s
  <1> DEFINE f == Picking(s, S)
             N == {m \in Nat : m <= Len(s) => f[m] = SubSeq(s, 1, m)}
  <1>1. /\ f[0] = <<>>
        /\ \A n \in 1..Len(s) : f[n] = IF n \in S THEN Append(f[n - 1], s[n]) ELSE f[n - 1]
    BY PickingSteps
  <1> HIDE DEF f
  <1>2. 0 \in N
    <2>1. SubSeq(s, 1, 0) = <<>>
      BY SubSeqEmpty
    <2> QED
      BY <1>1, <2>1
  <1>3. ASSUME NEW m \in Nat, m \in N PROVE m + 1 \in N
    <2> SUFFICES ASSUME m + 1 <= Len(s) PROVE f[m + 1] = SubSeq(s, 1, m + 1)
      OBVIOUS
    <2>1. m + 1 \in 1..Len(s) /\ 1 \in 1..Len(s) /\ m + 1 \in 1..Len(s) /\ (m + 1) - 1 = m
          /\ s[m + 1] \in D
      OBVIOUS
    <2>2. f[m + 1] = Append(SubSeq(s, 1, m), s[m + 1])
      <3>1. f[m] = SubSeq(s, 1, m) /\ m + 1 \in S
        BY <1>3, <2>1
      <3> QED
        BY <1>1, <2>1, <3>1
    <2>3. SubSeq(s, 1, m) \in Seq(D)
      OBVIOUS
    <2>4. Append(SubSeq(s, 1, m), s[m + 1]) = SubSeq(s, 1, m) \o <<s[m + 1]>>
      BY <2>1, <2>3, AppendIsConcat
    <2>5. SubSeq(s, 1, m + 1) = SubSeq(s, 1, m) \o <<s[m + 1]>>
      BY <2>1, SubSeqRecursiveSecond
    <2> QED
      BY <2>2, <2>4, <2>5
  <1>4. Len(s) \in N
    <2> HIDE DEF N
    <2> QED
      BY <1>2, <1>3, Induction
  <1>5. SubSeq(s, 1, Len(s)) = s
    BY SubSeqFull
  <1> QED
    BY <1>4, <1>5 DEF Picked, f

LEMMA RecordableIsTyped ==
    ASSUME NEW events \in Seq(Events)
    PROVE  Recordable(events) \in Seq(Events)
  BY PickedIsTyped DEF Recordable

\* What is recorded of an answer is a sequence of messages.
LEMMA FromServerIsTyped ==
    ASSUME NEW x \in Exchange, NEW events \in Seq(Events)
    PROVE  FromServer(x, events) \in Seq(Message)
  <1> DEFINE own == Recordable(events)
  <1>1. own \in Seq(Events)
    BY RecordableIsTyped
  <1> HIDE DEF own
  <1>2. \A k \in 1..Len(own) : [from |-> "server", x |-> x, data |-> own[k]] \in Message
    BY <1>1 DEF Message
  <1>3. Len(own) \in Nat
    BY <1>1
  <1>4. [k \in 1..Len(own) |-> [from |-> "server", x |-> x, data |-> own[k]]] \in Seq(Message)
    BY <1>2, <1>3
  <1> QED
    BY <1>4 DEF FromServer, own

\* Of events in turn what is recorded is recorded in turn.
LEMMA RecordableInTurn ==
    ASSUME NEW a \in Seq(Events), NEW b \in Seq(Events)
    PROVE  Recordable(a \o b) = Recordable(a) \o Recordable(b)
  <1> DEFINE Says(events) ==
               {n \in 1..Len(events) : \E k \in 1..Len(events[n]) : events[n][k] # <<>>}
  <1>1. /\ a \o b \in Seq(Events) /\ Len(a \o b) = Len(a) + Len(b)
        /\ \A i \in 1..Len(a) : (a \o b)[i] = a[i] /\ i \in 1..Len(a \o b)
        /\ \A i \in 1..Len(b) : (a \o b)[Len(a) + i] = b[i] /\ Len(a) + i \in 1..Len(a \o b)
    BY ConcatProperties
  <1>2. \A i \in 1..Len(a) : i \in Says(a) <=> i \in Says(a \o b)
    BY <1>1
  <1>3. \A i \in 1..Len(b) : i \in Says(b) <=> Len(a) + i \in Says(a \o b)
    BY <1>1
  <1>5. \A i \in 1..Len(a) : (i \in Says(a) <=> i \in Says(a \o b)) /\ a[i] = (a \o b)[i]
    BY <1>1, <1>2
  <1>6. \A i \in 1..Len(b) : (i \in Says(b) <=> Len(a) + i \in Says(a \o b))
                            /\ b[i] = (a \o b)[Len(a) + i]
    BY <1>1, <1>3
  <1>7. Joined(a, Says(a), b, Says(b), a \o b, Says(a \o b))
    BY <1>1, <1>5, <1>6 DEF Joined
  <1> DEFINE both == a \o b
             S == Says(a)
             T == Says(b)
             U == Says(both)
  <1>8. both \in Seq(Events) /\ Joined(a, S, b, T, both, U)
    BY <1>1, <1>7
  <1> HIDE DEF both, S, T, U
  <1>4. Picked(both, U) = Picked(a, S) \o Picked(b, T)
    BY <1>8, PickedOfBoth
  <1> QED
    BY <1>4 DEF Recordable, Says, both, S, T, U

\* What is recorded of an exchange grows by what is recorded of it, and by nothing else.
LEMMA RecordedMore ==
    ASSUME NEW log \in Seq(Message), NEW x \in Exchange, NEW y \in Exchange,
           NEW events \in Seq(Events)
    PROVE  RecordedIn(log \o FromServer(y, events), x) =
               IF x = y THEN RecordedIn(log, x) \o Recordable(events) ELSE RecordedIn(log, x)
  <1> DEFINE own == Recordable(events)
             more == FromServer(y, events)
             both == log \o more
             data == [k \in 1..Len(log) |-> log[k].data]
             all == [k \in 1..Len(both) |-> both[k].data]
             At(s) == {k \in 1..Len(s) : s[k].from = "server" /\ s[k].x = x}
  <1>1. own \in Seq(Events) /\ more \in Seq(Message)
    BY RecordableIsTyped, FromServerIsTyped
  <1>2. more = [k \in 1..Len(own) |-> [from |-> "server", x |-> y, data |-> own[k]]]
    BY DEF FromServer
  <1> HIDE DEF own
  <1>3. Len(more) = Len(own) /\ \A k \in 1..Len(own) :
            more[k].from = "server" /\ more[k].x = y /\ more[k].data = own[k]
    BY <1>1, <1>2
  <1> HIDE DEF more
  <1>4. /\ both \in Seq(Message) /\ Len(both) = Len(log) + Len(own)
        /\ \A i \in 1..Len(log) : both[i] = log[i] /\ i \in 1..Len(both)
        /\ \A i \in 1..Len(own) : both[Len(log) + i] = more[i] /\ Len(log) + i \in 1..Len(both)
    <2>1. /\ both \in Seq(Message) /\ Len(both) = Len(log) + Len(more)
          /\ \A i \in 1..(Len(log) + Len(more)) :
                both[i] = IF i <= Len(log) THEN log[i] ELSE more[i - Len(log)]
      BY <1>1, ConcatProperties
    <2> HIDE DEF both
    <2>2. Len(log) \in Nat /\ Len(own) \in Nat
      BY <1>1
    <2>3. Len(both) = Len(log) + Len(own)
      BY <1>3, <2>1
    <2>4. \A i \in 1..Len(log) : both[i] = log[i] /\ i \in 1..Len(both)
      BY <1>3, <2>1, <2>2
    <2>5. ASSUME NEW i \in 1..Len(own)
          PROVE  both[Len(log) + i] = more[i] /\ Len(log) + i \in 1..Len(both)
      <3>1. Len(log) + i \in 1..(Len(log) + Len(more)) /\ ~(Len(log) + i <= Len(log))
            /\ (Len(log) + i) - Len(log) = i
        BY <1>3, <2>2
      <3> QED
        BY <2>1, <3>1
    <2> QED
      BY <2>1, <2>3, <2>4, <2>5
  <1> HIDE DEF both
  <1>5. \A m \in Message : m.data \in Events
    BY DEF Message
  <1>6. data \in Seq(Events) /\ Len(data) = Len(log) /\ all \in Seq(Events) /\ Len(all) = Len(both)
    <2>1. Len(log) \in Nat /\ Len(both) \in Nat
      BY <1>4
    <2>2. \A k \in 1..Len(log) : log[k].data \in Events
      BY <1>5
    <2>3. \A k \in 1..Len(both) : both[k].data \in Events
      BY <1>4, <1>5
    <2> QED
      BY <2>1, <2>2, <2>3
  <1>7. \A i \in 1..Len(data) : (i \in At(log) <=> i \in At(both)) /\ data[i] = all[i]
    BY <1>4, <1>6
  <1>8. \A i \in 1..Len(own) : own[i] = all[Len(log) + i] /\ (Len(log) + i \in At(both) <=> x = y)
    BY <1>3, <1>4
  <1>9. RecordedIn(log, x) = Picked(data, At(log)) /\ RecordedIn(both, x) = Picked(all, At(both))
    BY DEF RecordedIn
  <1>10. Picked(data, At(log)) \in Seq(Events)
    BY <1>6, PickedIsTyped
  <1> HIDE DEF data, all, At
  <1>11. CASE x = y
    <2>3. Len(all) = Len(data) + Len(own)
      BY <1>4, <1>6
    <2>4. \A i \in 1..Len(own) : (i \in 1..Len(own) <=> Len(data) + i \in At(both))
                                /\ own[i] = all[Len(data) + i]
      BY <1>6, <1>8, <1>11
    <2>1. Picked(all, At(both)) = Picked(data, At(log)) \o Picked(own, 1..Len(own))
      <3>1. Joined(data, At(log), own, 1..Len(own), all, At(both))
        BY <1>6, <1>7, <2>3, <2>4 DEF Joined
      <3> QED
        BY <1>1, <1>6, <3>1, PickedOfBoth
    <2>2. Picked(own, 1..Len(own)) = own
      BY <1>1, AllPicked
    <2> QED
      BY <1>9, <1>11, <2>1, <2>2 DEF own, both, more
  <1>12. CASE x # y
    <2>4. Len(all) = Len(data) + Len(own)
      BY <1>4, <1>6
    <2>5. \A i \in 1..Len(own) : (i \in {} <=> Len(data) + i \in At(both))
                                /\ own[i] = all[Len(data) + i]
      BY <1>6, <1>8, <1>12
    <2>1. Picked(all, At(both)) = Picked(data, At(log)) \o Picked(own, {})
      <3>1. Joined(data, At(log), own, {}, all, At(both))
        BY <1>6, <1>7, <2>4, <2>5 DEF Joined
      <3> QED
        BY <1>1, <1>6, <3>1, PickedOfBoth
    <2>2. Picked(own, {}) = <<>>
      BY <1>1, NonePicked
    <2>3. Picked(data, At(log)) \o <<>> = Picked(data, At(log))
      BY <1>10, ConcatEmptySeq
    <2> QED
      BY <1>9, <1>12, <2>1, <2>2, <2>3 DEF both, more
  <1> QED
    BY <1>11, <1>12

LEMMA RecordedOfClient ==
    ASSUME NEW log \in Seq(Message), NEW x \in Exchange, NEW y \in Exchange
    PROVE  RecordedIn(Append(log, FromClient(y)), x) = RecordedIn(log, x)
  <1> DEFINE both == Append(log, FromClient(y))
             data == [k \in 1..Len(log) |-> log[k].data]
             all == [k \in 1..Len(both) |-> both[k].data]
             At(s) == {k \in 1..Len(s) : s[k].from = "server" /\ s[k].x = x}
  <1>1. FromClient(y) \in Message /\ FromClient(y).from = "client"
    BY DEF FromClient, Message, Events
  <1>2. /\ Len(both) = Len(log) + 1 /\ both[Len(log) + 1] = FromClient(y)
        /\ \A i \in 1..Len(log) : both[i] = log[i] /\ i \in 1..Len(both)
    BY <1>1, AppendProperties
  <1> HIDE DEF both
  <1>3. Len(data) = Len(log) /\ Len(all) = Len(both) /\ Len(log) \in Nat
    BY <1>2
  <1>4. \A i \in 1..Len(data) : (i \in At(log) <=> i \in At(both)) /\ data[i] = all[i]
    BY <1>2, <1>3
  <1>5. Len(all) \notin At(both)
    BY <1>1, <1>2, <1>3
  <1>6. RecordedIn(log, x) = Picked(data, At(log)) /\ RecordedIn(both, x) = Picked(all, At(both))
    BY DEF RecordedIn
  <1> HIDE DEF data, all, At
  <1>7. Len(all) = Len(data) + 1 /\ Len(data) \in Nat
    BY <1>2, <1>3
  <1>8. Picked(all, At(both)) = Picked(data, At(log))
    BY <1>4, <1>5, <1>7, OneMorePicked
  <1> QED
    BY <1>6, <1>8 DEF both

LEMMA FinishIsTyped ==
    ASSUME NEW p \in Parser
    PROVE  Finish(p) \in Seq(Events)
  <1>1. Loaded(p) \in Feeding /\ p.buffer \in Seq(Token)
    BY DEF Loaded, Parser, Feeding, Events
  <1>2. [Loaded(p) EXCEPT !.buffer = <<>>] \in Feeding
    <2>1. <<>> \in Seq(Token)
      OBVIOUS
    <2> QED
      BY <1>1, <2>1, FeedingWith
  <1>3. \A q \in Feeding : Dispatch(q) \in Feeding
    BY FeedingWith DEF Dispatch
  <1>4. FeedLine([Loaded(p) EXCEPT !.buffer = <<>>], Stripped(p.buffer)) \in Feeding
    BY <1>1, <1>2, StrippedIsTyped, FeedLineIsTyped
  <1>5. \A q \in Feeding : q.events \in Seq(Events)
    BY DEF Feeding
  <1> QED
    BY <1>1, <1>3, <1>4, <1>5 DEF Finish

LEMMA BodyIsTyped == <<Body>> \in Seq(Events)
  <1>1. <<"a">> \in Seq(Token)
    BY DEF Token
  <1>2. Body \in Events
    BY <1>1 DEF Body, Events
  <1> QED
    BY <1>2

-----------------------------------------------------------------------------
(* What the parser keeps of a text, and the events of the text *)

LEMMA SomePicked ==
    ASSUME NEW D, NEW s \in Seq(D), NEW S, NEW i \in 1..Len(s), i \in S
    PROVE  Picked(s, S) # <<>>
  <1> DEFINE f == Picking(s, S)
             N == {m \in Nat : m <= Len(s) => f[m] \in Seq(D) /\ (i <= m => f[m] # <<>>)}
  <1>1. /\ f[0] = <<>>
        /\ \A n \in 1..Len(s) : f[n] = IF n \in S THEN Append(f[n - 1], s[n]) ELSE f[n - 1]
    BY PickingSteps
  <1> HIDE DEF f
  <1>2. 0 \in N
    <2>1. <<>> \in Seq(D) /\ ~(i <= 0)
      BY EmptySeq
    <2> QED
      BY <1>1, <2>1
  <1>3. ASSUME NEW m \in Nat, m \in N PROVE m + 1 \in N
    <2> SUFFICES ASSUME m + 1 <= Len(s)
                 PROVE  f[m + 1] \in Seq(D) /\ (i <= m + 1 => f[m + 1] # <<>>)
      OBVIOUS
    <2>1. f[m] \in Seq(D) /\ s[m + 1] \in D /\ (i <= m => f[m] # <<>>)
      BY <1>3
    <2>2. f[m + 1] = IF m + 1 \in S THEN Append(f[m], s[m + 1]) ELSE f[m]
      BY <1>1
    <2>3. Append(f[m], s[m + 1]) \in Seq(D) /\ Append(f[m], s[m + 1]) # <<>>
      BY <2>1, AppendProperties
    <2>4. i <= m + 1 => i <= m \/ m + 1 \in S
      OBVIOUS
    <2> QED
      BY <2>1, <2>2, <2>3, <2>4
  <1>4. Len(s) \in N
    <2> HIDE DEF N
    <2> QED
      BY <1>2, <1>3, Induction
  <1> QED
    BY <1>4 DEF Picked, f

LEMMA MaxIs ==
    ASSUME NEW S \in SUBSET Nat, NEW m \in S, \A y \in S : y <= m
    PROVE  Max(S) = m
  <1>1. \E x \in S : \A y \in S : x >= y
    OBVIOUS
  <1>2. Max(S) \in S /\ \A y \in S : Max(S) >= y
    BY <1>1 DEF Max
  <1>3. Max(S) \in Nat /\ m \in Nat /\ Max(S) >= m /\ Max(S) <= m
    BY <1>2
  <1> QED
    BY <1>3

LEMMA MaxIsThere ==
    ASSUME NEW n \in Nat, NEW S \in SUBSET (0..n), S # {}
    PROVE  Max(S) \in S
  <1>1. S \in SUBSET Nat /\ \A y \in S : y <= n
    OBVIOUS
  <1>2. PICK m \in S : \A y \in S : y <= m
    BY <1>1, HasGreatest
  <1> QED
    BY <1>1, <1>2, MaxIs

LEMMA SamePart ==
    ASSUME NEW D, NEW s \in Seq(D), NEW t \in Seq(D), NEW a \in Nat \ {0}, NEW b \in Nat,
           b <= Len(s), b <= Len(t), \A i \in 1..b : s[i] = t[i]
    PROVE  SubSeq(s, a, b) = SubSeq(t, a, b)
  <1>1. a \in Int /\ b \in Int /\ (\A i \in a..b : s[i] \in D) /\ (\A i \in a..b : t[i] \in D)
    OBVIOUS
  <1>2. /\ SubSeq(s, a, b) \in Seq(D) /\ Len(SubSeq(s, a, b)) = IF a <= b THEN b - a + 1 ELSE 0
        /\ \A i \in 1..(b - a + 1) : SubSeq(s, a, b)[i] = s[a + i - 1]
    BY <1>1, SubSeqProperties
  <1>3. /\ SubSeq(t, a, b) \in Seq(D) /\ Len(SubSeq(t, a, b)) = IF a <= b THEN b - a + 1 ELSE 0
        /\ \A i \in 1..(b - a + 1) : SubSeq(t, a, b)[i] = t[a + i - 1]
    BY <1>1, SubSeqProperties
  <1>4. \A i \in 1..(b - a + 1) : s[a + i - 1] = t[a + i - 1]
    OBVIOUS
  <1>5. Len(SubSeq(s, a, b)) = Len(SubSeq(t, a, b))
        /\ \A i \in 1..Len(SubSeq(s, a, b)) : SubSeq(s, a, b)[i] = SubSeq(t, a, b)[i]
    BY <1>2, <1>3, <1>4
  <1> QED
    BY <1>2, <1>3, <1>5, SeqEqual

LastFeed(text, e) == Max({i \in Feeds(text) : i < e} \cup {0})

\* What stands after the last line feed; the lines that no blank line follows, and theirs.
Rest(text) == SubSeq(text, LastFeed(text, Len(text) + 1) + 1, Len(text))
Unended(text) == {e \in Data(text) : ~\E c \in Blank(text) : e < c}
Contents(text) == [e \in 1..Len(text) |-> Content(Line(text, e))]
Pending(text) == Picked(Contents(text), Unended(text))

LEMMA BeforeIsTyped ==
    ASSUME NEW s \in Seq(Token), NEW e \in 1..(Len(s) + 1)
    PROVE  LastFeed(s, e) \in 0..(e - 1) /\ (LastFeed(s, e) # 0 => LastFeed(s, e) \in Feeds(s))
  <1> DEFINE S == {i \in Feeds(s) : i < e} \cup {0}
  <1>1. S \in SUBSET (0..(e - 1)) /\ S # {} /\ e - 1 \in Nat
    BY DEF Feeds
  <1>2. Max(S) \in S
    <2> HIDE DEF S
    <2> QED
      BY <1>1, MaxIsThere
  <1> QED
    BY <1>1, <1>2 DEF LastFeed

LEMMA LineIsTyped ==
    ASSUME NEW s \in Seq(Token), NEW e \in 1..(Len(s) + 1)
    PROVE  Line(s, e) \in Seq(Token) /\ Content(Line(s, e)) \in Seq(Token)
  <1>1. LastFeed(s, e) \in Nat /\ e - 1 <= Len(s) /\ e - 1 \in Nat
    BY BeforeIsTyped
  <1>2. SubSeq(s, LastFeed(s, e) + 1, e - 1) \in Seq(Token)
    BY <1>1
  <1>3. Line(s, e) = Stripped(SubSeq(s, LastFeed(s, e) + 1, e - 1))
    BY DEF Line, LastFeed
  <1> QED
    BY <1>2, <1>3, StrippedIsTyped, EmptySeq DEF Content

\* A token more leaves the lines that there are.
LEMMA LinesStay ==
    ASSUME NEW s \in Seq(Token), NEW c \in Token
    PROVE  /\ \A i \in 1..Len(s) : i \in Feeds(Append(s, c)) <=> i \in Feeds(s)
           /\ Len(s) + 1 \in Feeds(Append(s, c)) <=> c = "lf"
           /\ \A e \in 1..(Len(s) + 1) : LastFeed(Append(s, c), e) = LastFeed(s, e)
           /\ \A e \in 1..Len(s) : Line(Append(s, c), e) = Line(s, e)
           /\ Line(Append(s, c), Len(s) + 1) = Stripped(Rest(s))
  <1> DEFINE t == Append(s, c)
  <1>1. t \in Seq(Token) /\ Len(t) = Len(s) + 1 /\ t[Len(s) + 1] = c
        /\ \A i \in 1..Len(s) : t[i] = s[i]
    BY AppendProperties
  <1> HIDE DEF t
  <1>2. \A i \in 1..Len(s) : i \in Feeds(t) <=> i \in Feeds(s)
    BY <1>1 DEF Feeds
  <1>3. Len(s) + 1 \in Feeds(t) <=> c = "lf"
    BY <1>1 DEF Feeds
  <1>4. ASSUME NEW e \in 1..(Len(s) + 1) PROVE LastFeed(t, e) = LastFeed(s, e)
    <2>1. {i \in Feeds(t) : i < e} = {i \in Feeds(s) : i < e}
      BY <1>1, <1>2 DEF Feeds
    <2> QED
      BY <2>1 DEF LastFeed
  <1>5. ASSUME NEW e \in 1..(Len(s) + 1)
        PROVE  Line(t, e) = Stripped(SubSeq(s, LastFeed(s, e) + 1, e - 1))
    <2>1. LastFeed(s, e) + 1 \in Nat \ {0} /\ e - 1 \in Nat /\ e - 1 <= Len(s) /\ e - 1 <= Len(t)
      BY <1>1, BeforeIsTyped
    <2>2. \A i \in 1..(e - 1) : s[i] = t[i]
      BY <1>1
    <2>3. SubSeq(s, LastFeed(s, e) + 1, e - 1) = SubSeq(t, LastFeed(s, e) + 1, e - 1)
      BY <1>1, <2>1, <2>2, SamePart
    <2> QED
      BY <1>4, <2>3 DEF Line, LastFeed
  <1>6. \A e \in 1..Len(s) : Line(t, e) = Line(s, e)
    BY <1>5 DEF Line, LastFeed
  <1>7. Line(t, Len(s) + 1) = Stripped(Rest(s))
    BY <1>5 DEF Rest
  <1> QED
    BY <1>2, <1>3, <1>4, <1>6, <1>7 DEF t

LEMMA RestGrows ==
    ASSUME NEW s \in Seq(Token), NEW c \in Token
    PROVE  /\ Rest(s) \in Seq(Token)
           /\ Rest(Append(s, c)) = IF c = "lf" THEN <<>> ELSE Append(Rest(s), c)
  <1> DEFINE t == Append(s, c)
             m == LastFeed(s, Len(s) + 1)
  <1>1. t \in Seq(Token) /\ Len(t) = Len(s) + 1 /\ t[Len(s) + 1] = c
        /\ \A i \in 1..Len(s) : t[i] = s[i]
    BY AppendProperties
  <1>2. /\ \A i \in 1..Len(s) : i \in Feeds(t) <=> i \in Feeds(s)
        /\ Len(s) + 1 \in Feeds(t) <=> c = "lf"
    BY LinesStay
  <1> HIDE DEF t
  <1>3. m \in 0..Len(s)
    <2>1. Len(s) + 1 \in 1..(Len(s) + 1)
      OBVIOUS
    <2> QED
      BY <2>1, BeforeIsTyped
  <1>4. Rest(s) = SubSeq(s, m + 1, Len(s))
    BY DEF Rest
  <1> HIDE DEF m
  <1>5. Rest(s) \in Seq(Token)
    BY <1>3, <1>4
  <1>6. CASE c = "lf"
    <2> DEFINE S == {i \in Feeds(t) : i < Len(t) + 1} \cup {0}
    <2>1. S \in SUBSET Nat /\ Len(t) \in S /\ \A y \in S : y <= Len(t)
      BY <1>1, <1>2, <1>6 DEF Feeds
    <2>2. Max(S) = Len(t)
      <3> HIDE DEF S
      <3> QED
        BY <2>1, MaxIs
    <2>3. Rest(t) = SubSeq(t, Len(t) + 1, Len(t))
      BY <2>2 DEF Rest, LastFeed
    <2>4. SubSeq(t, Len(t) + 1, Len(t)) = <<>>
      BY <1>1, SubSeqEmpty
    <2> QED
      BY <1>5, <1>6, <2>3, <2>4 DEF t
  <1>7. CASE c # "lf"
    <2>1. {i \in Feeds(t) : i < Len(t) + 1} = {i \in Feeds(s) : i < Len(s) + 1}
      BY <1>1, <1>2, <1>7 DEF Feeds
    <2>2. Rest(t) = SubSeq(t, m + 1, Len(t))
      BY <2>1 DEF Rest, LastFeed, m
    <2>3. m + 1 \in 1..Len(t) /\ Len(t) \in (m + 1)..Len(t) /\ Len(t) - 1 = Len(s)
      BY <1>1, <1>3
    <2>4. SubSeq(t, m + 1, Len(t)) = SubSeq(t, m + 1, Len(t) - 1) \o <<t[Len(t)]>>
      BY <1>1, <2>3, SubSeqRecursiveSecond
    <2>5. SubSeq(s, m + 1, Len(s)) = SubSeq(t, m + 1, Len(s))
      <3>1. m + 1 \in Nat \ {0} /\ Len(s) \in Nat /\ Len(s) <= Len(t)
        BY <1>1, <1>3
      <3> QED
        BY <1>1, <3>1, SamePart
    <2>6. Append(Rest(s), c) = Rest(s) \o <<c>>
      BY <1>5, AppendIsConcat
    <2> QED
      BY <1>1, <1>4, <1>5, <1>7, <2>2, <2>3, <2>4, <2>5, <2>6 DEF t
  <1> QED
    BY <1>6, <1>7

LEMMA KindsStay ==
    ASSUME NEW s \in Seq(Token), NEW c \in Token
    PROVE  /\ \A e \in 1..Len(s) : e \in Blank(Append(s, c)) <=> e \in Blank(s)
           /\ \A e \in 1..Len(s) : e \in Data(Append(s, c)) <=> e \in Data(s)
           /\ Len(s) + 1 \in Blank(Append(s, c)) <=> c = "lf" /\ Stripped(Rest(s)) = <<>>
           /\ Len(s) + 1 \in Data(Append(s, c)) <=>
                  c = "lf" /\ Stripped(Rest(s)) # <<>> /\ Stripped(Rest(s))[1] = "data"
           /\ Blank(s) \cup Data(s) \subseteq 1..Len(s)
           /\ Blank(Append(s, c)) \cup Data(Append(s, c)) \subseteq 1..(Len(s) + 1)
  <1> DEFINE t == Append(s, c)
  <1>1. Len(t) = Len(s) + 1
    BY AppendProperties
  <1>2. /\ \A i \in 1..Len(s) : i \in Feeds(t) <=> i \in Feeds(s)
        /\ Len(s) + 1 \in Feeds(t) <=> c = "lf"
        /\ \A e \in 1..Len(s) : Line(t, e) = Line(s, e)
        /\ Line(t, Len(s) + 1) = Stripped(Rest(s))
    BY LinesStay
  <1> HIDE DEF t
  <1>3. /\ \A e \in 1..Len(s) : e \in Blank(t) <=> e \in Blank(s)
        /\ Len(s) + 1 \in Blank(t) <=> c = "lf" /\ Stripped(Rest(s)) = <<>>
    BY <1>2 DEF Blank
  <1>4. /\ \A e \in 1..Len(s) : e \in Data(t) <=> e \in Data(s)
        /\ Len(s) + 1 \in Data(t) <=>
               c = "lf" /\ Stripped(Rest(s)) # <<>> /\ Stripped(Rest(s))[1] = "data"
    BY <1>2 DEF Data
  <1>5. Blank(s) \cup Data(s) \subseteq 1..Len(s) /\ Blank(t) \cup Data(t) \subseteq 1..Len(t)
    BY DEF Blank, Data, Feeds
  <1> QED
    BY <1>1, <1>3, <1>4, <1>5 DEF t

LEMMA ContentsStay ==
    ASSUME NEW s \in Seq(Token), NEW c \in Token
    PROVE  /\ Contents(s) \in Seq(Seq(Token)) /\ Len(Contents(s)) = Len(s)
           /\ Len(Contents(Append(s, c))) = Len(s) + 1
           /\ \A e \in 1..Len(s) : Contents(s)[e] = Contents(Append(s, c))[e]
           /\ Contents(Append(s, c))[Len(s) + 1] = Content(Stripped(Rest(s)))
  <1> DEFINE t == Append(s, c)
             D == Seq(Token)
  <1>1. Len(t) = Len(s) + 1 /\ Len(s) \in Nat
    BY AppendProperties
  <1>2. /\ \A e \in 1..Len(s) : Line(t, e) = Line(s, e)
        /\ Line(t, Len(s) + 1) = Stripped(Rest(s))
    BY LinesStay
  <1>3. \A e \in 1..Len(s) : Content(Line(s, e)) \in D
    BY LineIsTyped
  <1> HIDE DEF t, D
  <1>4. Contents(s) \in Seq(D)
    BY <1>1, <1>3 DEF Contents
  <1>5. Len(Contents(s)) = Len(s) /\ Len(Contents(t)) = Len(s) + 1
    BY <1>1 DEF Contents
  <1>6. \A e \in 1..Len(s) : Contents(s)[e] = Contents(t)[e]
    BY <1>1, <1>2 DEF Contents
  <1>7. Contents(t)[Len(s) + 1] = Content(Stripped(Rest(s)))
    BY <1>1, <1>2 DEF Contents
  <1> QED
    BY <1>4, <1>5, <1>6, <1>7 DEF t, D

LEMMA PendingGrows ==
    ASSUME NEW s \in Seq(Token), NEW c \in Token
    PROVE  /\ Pending(s) \in Events
           /\ Pending(s) = <<>> <=> Unended(s) = {}
           /\ c # "lf" => Pending(Append(s, c)) = Pending(s)
           /\ c = "lf" /\ Stripped(Rest(s)) = <<>> => Pending(Append(s, c)) = <<>>
           /\ c = "lf" /\ Stripped(Rest(s)) # <<>> =>
                  Pending(Append(s, c)) =
                      IF Stripped(Rest(s))[1] = "data"
                      THEN Append(Pending(s), Tail(Stripped(Rest(s)))) ELSE Pending(s)
  <1> DEFINE t == Append(s, c)
             L == Stripped(Rest(s))
  <1>1. /\ \A e \in 1..Len(s) : e \in Blank(t) <=> e \in Blank(s)
        /\ \A e \in 1..Len(s) : e \in Data(t) <=> e \in Data(s)
        /\ Len(s) + 1 \in Blank(t) <=> c = "lf" /\ L = <<>>
        /\ Len(s) + 1 \in Data(t) <=> c = "lf" /\ L # <<>> /\ L[1] = "data"
        /\ Blank(s) \cup Data(s) \subseteq 1..Len(s)
        /\ Blank(t) \cup Data(t) \subseteq 1..(Len(s) + 1)
    BY KindsStay
  <1>2. /\ Contents(s) \in Seq(Seq(Token)) /\ Len(Contents(s)) = Len(s)
        /\ Len(Contents(t)) = Len(s) + 1
        /\ \A e \in 1..Len(s) : Contents(s)[e] = Contents(t)[e]
        /\ Contents(t)[Len(s) + 1] = Content(L)
    BY ContentsStay
  <1>3. Len(s) \in Nat /\ Rest(s) \in Seq(Token)
    BY RestGrows
  <1> HIDE DEF t, L
  <1>4. Pending(s) \in Events
    BY <1>2, PickedIsTyped DEF Pending, Events
  <1>5. Pending(s) = <<>> <=> Unended(s) = {}
    <2>1. Unended(s) \subseteq 1..Len(Contents(s))
      BY <1>1, <1>2 DEF Unended
    <2>2. ASSUME NEW i \in Unended(s) PROVE Pending(s) # <<>>
      BY <1>2, <2>1, <2>2, SomePicked DEF Pending
    <2>3. ASSUME Unended(s) = {} PROVE Pending(s) = <<>>
      BY <1>2, <1>3, <2>3, NonePicked DEF Pending
    <2> QED
      BY <2>2, <2>3
  <1>6. ASSUME ~(c = "lf" /\ L = <<>>)
        PROVE  Pending(t) =
                   IF Len(s) + 1 \in Data(t) THEN Append(Pending(s), Content(L)) ELSE Pending(s)
    <2>1. \A e \in 1..Len(s) : e \in Unended(s) <=> e \in Unended(t)
      BY <1>1, <1>3, <1>6 DEF Unended
    <2>2. Len(s) + 1 \in Unended(t) <=> Len(s) + 1 \in Data(t)
      BY <1>1, <1>3 DEF Unended
    <2>3. Picked(Contents(t), Unended(t)) =
              IF Len(Contents(t)) \in Unended(t)
              THEN Append(Picked(Contents(s), Unended(s)), Contents(t)[Len(Contents(t))])
              ELSE Picked(Contents(s), Unended(s))
      BY <1>2, <1>3, <2>1, OneMorePicked
    <2> QED
      BY <1>2, <2>2, <2>3 DEF Pending
  <1>7. ASSUME c = "lf", L = <<>> PROVE Pending(t) = <<>>
    <2>1. Unended(t) = {}
      BY <1>1, <1>3, <1>7 DEF Unended
    <2> QED
      BY <1>2, <1>3, <2>1, NonePicked DEF Pending
  <1>8. L # <<>> => Content(L) = Tail(L)
    BY DEF Content
  <1> QED
    BY <1>1, <1>4, <1>5, <1>6, <1>7, <1>8 DEF t, L

\* The blank lines of a text that end an event.
Dispatching(text) == {b \in Blank(text) : Block(text, b) # {}}

LEMMA BlocksStay ==
    ASSUME NEW s \in Seq(Token), NEW c \in Token
    PROVE  /\ \A b \in 1..Len(s) : Block(Append(s, c), b) = Block(s, b)
           /\ Block(Append(s, c), Len(s) + 1) = Unended(s)
           /\ \A b \in 1..Len(s) : b \in Dispatching(Append(s, c)) <=> b \in Dispatching(s)
           /\ Len(s) + 1 \in Dispatching(Append(s, c)) <=>
                  c = "lf" /\ Stripped(Rest(s)) = <<>> /\ Unended(s) # {}
           /\ \A b \in 1..Len(s) : Event(Append(s, c), b) = Event(s, b)
           /\ Event(Append(s, c), Len(s) + 1) = Pending(s)
  <1> DEFINE t == Append(s, c)
             L == Stripped(Rest(s))
  <1>1. /\ \A e \in 1..Len(s) : e \in Blank(t) <=> e \in Blank(s)
        /\ \A e \in 1..Len(s) : e \in Data(t) <=> e \in Data(s)
        /\ Len(s) + 1 \in Blank(t) <=> c = "lf" /\ L = <<>>
        /\ Blank(s) \cup Data(s) \subseteq 1..Len(s)
        /\ Blank(t) \cup Data(t) \subseteq 1..(Len(s) + 1)
    BY KindsStay
  <1>2. /\ Len(Contents(s)) = Len(s) /\ Len(Contents(t)) = Len(s) + 1
        /\ \A e \in 1..Len(s) : Contents(s)[e] = Contents(t)[e]
    BY ContentsStay
  <1>3. Len(s) \in Nat
    OBVIOUS
  <1> HIDE DEF t, L
  <1>4. ASSUME NEW b \in 1..Len(s) PROVE Block(t, b) = Block(s, b)
    BY <1>1, <1>3 DEF Block
  <1>5. Block(t, Len(s) + 1) = Unended(s)
    BY <1>1, <1>3 DEF Block, Unended
  <1>6. ASSUME NEW b \in 1..(Len(s) + 1), NEW B \in SUBSET (1..Len(s))
        PROVE  Picked(Contents(t), B) = Picked(Contents(s), B)
    <2>1. Len(Contents(t)) \notin B
      BY <1>2, <1>3
    <2> QED
      BY <1>2, <1>3, <2>1, OneMorePicked
  <1>7. ASSUME NEW b \in 1..Len(s) PROVE Event(t, b) = Event(s, b)
    <2>1. Block(s, b) \in SUBSET (1..Len(s))
      BY <1>1 DEF Block
    <2> QED
      BY <1>4, <1>6, <2>1 DEF Event, Contents
  <1>8. Event(t, Len(s) + 1) = Pending(s)
    <2>1. Unended(s) \in SUBSET (1..Len(s))
      BY <1>1 DEF Unended
    <2> QED
      BY <1>3, <1>5, <1>6, <2>1 DEF Event, Contents, Pending
  <1>9. \A b \in 1..Len(s) : b \in Dispatching(t) <=> b \in Dispatching(s)
    BY <1>1, <1>4 DEF Dispatching
  <1>10. Len(s) + 1 \in Dispatching(t) <=> c = "lf" /\ L = <<>> /\ Unended(s) # {}
    BY <1>1, <1>5 DEF Dispatching
  <1> QED
    BY <1>4, <1>5, <1>7, <1>8, <1>9, <1>10 DEF t, L

\* The events of a text, one for every place, and nothing where none ends.
EventAt(text) ==
    [b \in 1..Len(text) |-> IF b \in Dispatching(text) THEN Event(text, b) ELSE <<>>]

LEMMA CompletedGrows ==
    ASSUME NEW s \in Seq(Token), NEW c \in Token
    PROVE  /\ Completed(s) \in Seq(Events)
           /\ Completed(Append(s, c)) =
                  IF c = "lf" /\ Stripped(Rest(s)) = <<>> /\ Pending(s) # <<>>
                  THEN Append(Completed(s), Pending(s)) ELSE Completed(s)
  <1> DEFINE t == Append(s, c)
             L == Stripped(Rest(s))
  <1>1. /\ \A b \in 1..Len(s) : b \in Dispatching(t) <=> b \in Dispatching(s)
        /\ Len(s) + 1 \in Dispatching(t) <=> c = "lf" /\ L = <<>> /\ Unended(s) # {}
        /\ \A b \in 1..Len(s) : Event(t, b) = Event(s, b)
        /\ Event(t, Len(s) + 1) = Pending(s)
    BY BlocksStay
  <1>2. Len(t) = Len(s) + 1 /\ Len(s) \in Nat
    BY AppendProperties
  <1>3. Pending(s) = <<>> <=> Unended(s) = {}
    BY PendingGrows
  <1>4. Contents(s) \in Seq(Seq(Token))
    BY ContentsStay
  <1> HIDE DEF t, L
  <1>5. \A b \in 1..Len(s) : Event(s, b) \in Events
    BY <1>4, PickedIsTyped DEF Event, Contents, Events
  <1>6. EventAt(s) \in Seq(Events)
    <2>1. <<>> \in Events
      BY DEF Events
    <2>2. \A b \in 1..Len(s) : (IF b \in Dispatching(s) THEN Event(s, b) ELSE <<>>) \in Events
      BY <1>5, <2>1
    <2> QED
      BY <1>2, <2>2 DEF EventAt
  <1>7. Len(EventAt(s)) = Len(s) /\ Len(EventAt(t)) = Len(s) + 1
    BY <1>2 DEF EventAt
  <1>8. \A b \in 1..Len(s) : EventAt(s)[b] = EventAt(t)[b]
    BY <1>1, <1>2 DEF EventAt
  <1>9. Len(s) + 1 \in Dispatching(t) => EventAt(t)[Len(s) + 1] = Pending(s)
    BY <1>1, <1>2 DEF EventAt
  <1>10. Completed(s) = Picked(EventAt(s), Dispatching(s))
         /\ Completed(t) = Picked(EventAt(t), Dispatching(t))
    BY DEF Completed, EventAt, Dispatching
  <1>11. Completed(s) \in Seq(Events)
    BY <1>6, <1>10, PickedIsTyped
  <1>12. Picked(EventAt(t), Dispatching(t)) =
             IF Len(EventAt(t)) \in Dispatching(t)
             THEN Append(Picked(EventAt(s), Dispatching(s)), EventAt(t)[Len(EventAt(t))])
             ELSE Picked(EventAt(s), Dispatching(s))
    BY <1>1, <1>2, <1>7, <1>8, OneMorePicked
  <1> QED
    BY <1>1, <1>3, <1>7, <1>9, <1>10, <1>11, <1>12 DEF t, L

\* The parser q has been fed the text s, and has returned its events but for the first ones.
Knows(q, s, first) ==
    /\ q.buffer = Rest(s)
    /\ q.lines = Pending(s)
    /\ Completed(s) = first \o q.events

\* Whatever comes next, the parser knows what has come.
LEMMA KnowsMore ==
    ASSUME NEW s \in Seq(Token), NEW c \in Token, NEW q \in Feeding, NEW first \in Seq(Events),
           Knows(q, s, first)
    PROVE  Knows(FeedToken(q, c), Append(s, c), first)
  <1> DEFINE t == Append(s, c)
             L == Stripped(Rest(s))
             n == [q EXCEPT !.buffer = <<>>]
  <1>1. /\ Rest(s) \in Seq(Token) /\ Rest(t) = IF c = "lf" THEN <<>> ELSE Append(Rest(s), c)
    BY RestGrows
  <1>2. /\ Pending(s) \in Events
        /\ c # "lf" => Pending(t) = Pending(s)
        /\ c = "lf" /\ L = <<>> => Pending(t) = <<>>
        /\ c = "lf" /\ L # <<>> =>
               Pending(t) = IF L[1] = "data" THEN Append(Pending(s), Tail(L)) ELSE Pending(s)
    BY PendingGrows
  <1>3. Completed(t) = IF c = "lf" /\ L = <<>> /\ Pending(s) # <<>>
                       THEN Append(Completed(s), Pending(s)) ELSE Completed(s)
    BY CompletedGrows
  <1>4. q.buffer = Rest(s) /\ q.lines = Pending(s) /\ Completed(s) = first \o q.events
        /\ q.events \in Seq(Events)
    BY DEF Knows, Feeding
  <1>5. n.buffer = <<>> /\ n.lines = q.lines /\ n.events = q.events
    BY DEF Feeding
  <1>6. FeedToken(q, "lf") = FeedLine(n, L)
    BY <1>4 DEF FeedToken
  <1>7. n \in Feeding
    BY FeedingWith, EmptySeq
  <1> HIDE DEF t, L, n
  <1>8. CASE c # "lf"
    <2>1. FeedToken(q, c) = [q EXCEPT !.buffer = Append(@, c)]
      BY <1>8 DEF FeedToken
    <2>2. /\ FeedToken(q, c).buffer = Append(q.buffer, c)
          /\ FeedToken(q, c).lines = q.lines /\ FeedToken(q, c).events = q.events
      BY <2>1 DEF Feeding
    <2> QED
      BY <1>1, <1>2, <1>3, <1>4, <1>8, <2>2 DEF Knows, t
  <1>9. CASE c = "lf" /\ L = <<>>
    <2>1. FeedToken(q, c) = Dispatch(n)
      BY <1>6, <1>9 DEF FeedLine
    <2>2. CASE Pending(s) = <<>>
      <3>1. Dispatch(n) = n
        BY <1>4, <1>5, <2>2 DEF Dispatch
      <3> QED
        BY <1>1, <1>2, <1>3, <1>4, <1>5, <1>9, <2>1, <2>2, <3>1 DEF Knows, t
    <2>3. CASE Pending(s) # <<>>
      <3>1. Dispatch(n) = [n EXCEPT !.lines = <<>>, !.events = Append(@, n.lines)]
        BY <1>4, <1>5, <2>3 DEF Dispatch
      <3>2. /\ Dispatch(n).buffer = <<>> /\ Dispatch(n).lines = <<>>
            /\ Dispatch(n).events = Append(q.events, Pending(s))
        BY <1>4, <1>5, <1>7, <3>1 DEF Feeding
      <3>3. first \o Append(q.events, Pending(s)) = Append(first \o q.events, Pending(s))
        <4>1. \A a \in Seq(Events), e \in Events : first \o Append(a, e) = Append(first \o a, e)
          BY AppendsLast
        <4> QED
          BY <1>2, <1>4, <4>1
      <3> QED
        BY <1>1, <1>2, <1>3, <1>4, <1>9, <2>1, <2>3, <3>2, <3>3 DEF Knows, t
    <2> QED
      BY <2>2, <2>3
  <1>10. CASE c = "lf" /\ L # <<>>
    <2>1. CASE L[1] = "data"
      <3>1. FeedToken(q, c) = [n EXCEPT !.lines = Append(@, Tail(L))]
        BY <1>6, <1>10, <2>1 DEF FeedLine
      <3>2. /\ FeedToken(q, c).buffer = <<>> /\ FeedToken(q, c).lines = Append(q.lines, Tail(L))
            /\ FeedToken(q, c).events = q.events
        BY <1>5, <1>7, <3>1 DEF Feeding
      <3> QED
        BY <1>1, <1>2, <1>3, <1>4, <1>10, <2>1, <3>2 DEF Knows, t
    <2>2. CASE L[1] # "data"
      <3>1. FeedToken(q, c) = n
        BY <1>6, <1>10, <2>2 DEF FeedLine
      <3> QED
        BY <1>1, <1>2, <1>3, <1>4, <1>5, <1>10, <2>2, <3>1 DEF Knows, t
    <2> QED
      BY <2>1, <2>2
  <1> QED
    BY <1>8, <1>9, <1>10

\* However a text is cut: fed to a parser that knows what came before it, a chunk returns
\* the events that it completes.
LEMMA FeedCompletes ==
    ASSUME NEW s \in Seq(Token), NEW chunk \in Seq(Token), NEW p \in Parser,
           p.buffer = Rest(s), p.lines = Pending(s)
    PROVE  Knows(Feed(p, chunk), s \o chunk, Completed(s))
  <1> DEFINE after == After(p, chunk)
             first == Completed(s)
             N == {m \in Nat : m <= Len(chunk) =>
                      after[m] \in Feeding /\ Knows(after[m], s \o SubSeq(chunk, 1, m), first)}
  <1>1. /\ Len(chunk) \in Nat
        /\ \A n \in 0..Len(chunk) :
              after[n] = IF n = 0 THEN Loaded(p) ELSE FeedToken(after[n - 1], chunk[n])
    BY AfterIsDefined
  <1>2. first \in Seq(Events)
    BY CompletedGrows DEF Token
  <1>3. Loaded(p) \in Feeding /\ Loaded(p).buffer = p.buffer /\ Loaded(p).lines = p.lines
        /\ Loaded(p).events = <<>>
    BY DEF Loaded, Parser, Feeding, Events
  <1> HIDE DEF after
  <1>4. 0 \in N
    <2>1. SubSeq(chunk, 1, 0) = <<>>
      BY SubSeqEmpty
    <2>2. s \o <<>> = s /\ first \o <<>> = first
      BY <1>2, ConcatEmptySeq
    <2>3. after[0] = Loaded(p)
      BY <1>1
    <2> HIDE DEF first
    <2> QED
      BY <1>3, <2>1, <2>2, <2>3 DEF Knows, first
  <1> HIDE DEF first
  <1>5. ASSUME NEW m \in Nat, m \in N PROVE m + 1 \in N
    <2> DEFINE t == s \o SubSeq(chunk, 1, m)
    <2> SUFFICES ASSUME m + 1 <= Len(chunk)
                 PROVE  /\ after[m + 1] \in Feeding
                        /\ Knows(after[m + 1], s \o SubSeq(chunk, 1, m + 1), first)
      OBVIOUS
    <2>1. after[m] \in Feeding /\ Knows(after[m], t, first)
      BY <1>1, <1>5
    <2>2. m + 1 \in 1..Len(chunk) /\ 1 \in 1..Len(chunk) /\ m + 1 \in 1..Len(chunk)
          /\ (m + 1) - 1 = m /\ chunk[m + 1] \in Token /\ SubSeq(chunk, 1, m) \in Seq(Token)
      BY <1>1
    <2>3. after[m + 1] = FeedToken(after[m], chunk[m + 1])
      BY <1>1, <2>2
    <2>4. SubSeq(chunk, 1, m + 1) = Append(SubSeq(chunk, 1, m), chunk[m + 1])
      <3>1. SubSeq(chunk, 1, m + 1) = SubSeq(chunk, 1, m) \o <<chunk[m + 1]>>
        BY <2>2, SubSeqRecursiveSecond
      <3>2. Append(SubSeq(chunk, 1, m), chunk[m + 1]) = SubSeq(chunk, 1, m) \o <<chunk[m + 1]>>
        BY <2>2, AppendIsConcat
      <3> QED
        BY <3>1, <3>2
    <2>5. s \o SubSeq(chunk, 1, m + 1) = Append(t, chunk[m + 1]) /\ t \in Seq(Token)
      BY <2>2, <2>4, AppendsLast
    <2> HIDE DEF t
    <2>6. FeedToken(after[m], chunk[m + 1]) \in Feeding
      BY <2>1, <2>2, FeedTokenIsTyped
    <2>7. Knows(FeedToken(after[m], chunk[m + 1]), Append(t, chunk[m + 1]), first)
      BY <1>2, <2>1, <2>2, <2>5, KnowsMore
    <2> QED
      BY <2>3, <2>5, <2>6, <2>7
  <1>6. Len(chunk) \in N
    <2> HIDE DEF N
    <2> QED
      BY <1>1, <1>4, <1>5, Induction
  <1>7. SubSeq(chunk, 1, Len(chunk)) = chunk
    BY SubSeqFull
  <1>8. Knows(after[Len(chunk)], s \o SubSeq(chunk, 1, Len(chunk)), first)
    BY <1>1, <1>6
  <1>9. Knows(after[Len(chunk)], s \o chunk, first)
    BY <1>7, <1>8
  <1> QED
    BY <1>9 DEF Feed, after, first

\* The end of a text completes its last event, though its blank line, or the end of its
\* last line, is missing.
LEMMA FinishCompletes ==
    ASSUME NEW s \in Seq(Token), NEW p \in Parser, p.buffer = Rest(s), p.lines = Pending(s)
    PROVE  Completed(s \o <<"lf", "lf">>) = Completed(s) \o Finish(p)
  <1> DEFINE q == Loaded(p)
             n == [q EXCEPT !.buffer = <<>>]
             r == FeedToken(q, "lf")
             one == Append(s, "lf")
  <1>1. q \in Feeding /\ q.buffer = p.buffer /\ q.lines = p.lines /\ q.events = <<>>
    BY DEF Loaded, Parser, Feeding, Events
  <1>2. Completed(s) \in Seq(Events)
    BY CompletedGrows DEF Token
  <1>3. Knows(q, s, Completed(s))
    <2>1. Completed(s) \o <<>> = Completed(s)
      BY <1>2, ConcatEmptySeq
    <2> QED
      BY <1>1, <2>1 DEF Knows
  <1>4. "lf" \in Token
    BY DEF Token
  <1>5. one \in Seq(Token) /\ r \in Feeding /\ Knows(r, one, Completed(s))
    BY <1>1, <1>2, <1>3, <1>4, KnowsMore, FeedTokenIsTyped
  <1>6. Knows(FeedToken(r, "lf"), Append(one, "lf"), Completed(s))
    <2> HIDE DEF one, r
    <2> QED
      BY <1>2, <1>4, <1>5, KnowsMore
  <1>7. Append(one, "lf") = s \o <<"lf", "lf">>
    BY <1>4
  <1>8. FeedToken(r, "lf").events = Finish(p)
    <2>1. n \in Feeding /\ (p.buffer = <<>> => n = q)
      BY <1>1, FeedingWith, EmptySeq DEF Feeding
    <2>2. Stripped(<<>>) = <<>>
      <3> DEFINE I == {i \in 1..Len(<<>>) : <<>>[i] # "cr"}
      <3>1. Stripped(<<>>) = SubSeq(<<>>, 1, IF I # {} THEN Max(I) ELSE 0)
        BY DEF Stripped, SelectLastInSeq
      <3>2. I = {}
        BY EmptySeq
      <3> QED
        BY <3>1, <3>2, SubSeqEmpty
    <2>3. r = FeedLine(n, Stripped(p.buffer))
      BY <1>1 DEF FeedToken
    <2>4. Rest(one) = <<>> /\ r.buffer = <<>>
      BY <1>4, <1>5, RestGrows DEF Knows
    <2>5. FeedToken(r, "lf") = Dispatch([r EXCEPT !.buffer = <<>>])
      BY <2>2, <2>4 DEF FeedToken, FeedLine
    <2>6. [r EXCEPT !.buffer = <<>>] = r
      BY <1>5, <2>4 DEF Feeding
    <2>7. CASE p.buffer # <<>>
      BY <2>3, <2>5, <2>6, <2>7 DEF Finish
    <2>8. CASE p.buffer = <<>>
      <3>1. r = Dispatch(q)
        BY <2>1, <2>2, <2>3, <2>8 DEF FeedLine
      <3>2. Dispatch(Dispatch(q)) = Dispatch(q)
        BY <1>1 DEF Dispatch, Feeding
      <3> QED
        BY <2>5, <2>6, <2>8, <3>1, <3>2 DEF Finish
    <2> QED
      BY <2>7, <2>8
  <1> QED
    BY <1>6, <1>7, <1>8 DEF Knows

-----------------------------------------------------------------------------
(* Types, and what a checkpoint keeps *)

StreamTypes ==
    /\ plan \in Plans
    /\ answer \in [Exchange -> Answer \cup {"none"}]
    /\ sent \in [Exchange -> Nat] /\ fed \in [Exchange -> Nat]
    /\ \A x \in Exchange : sent[x] <= Len(plan[x].text) /\ fed[x] <= sent[x]
    /\ parser \in [Exchange -> Parser]
    /\ gone \subseteq {x \in Exchange : plan[x].drops}

RunTypes ==
    /\ listening \in BOOLEAN /\ contact \in BOOLEAN /\ fatal \in BOOLEAN
    /\ messages \in Seq(Message) /\ snapshot \in Seq(Message) /\ kept \in Seq(Message)
    /\ ckpt \in {"sleep", "thread"}
    /\ partial \in Seq(Message) \cup {Nothing}
    /\ report \in BOOLEAN /\ claim \in BOOLEAN /\ failed \in BOOLEAN

LEMMA PlanIsTyped ==
    ASSUME plan \in Plans, NEW x \in Exchange
    PROVE  /\ plan[x].answers \in SUBSET Answer /\ plan[x].text \in Seq(Token)
           /\ Len(plan[x].text) \in Nat
  <1>1. plan[x] \in Request
    BY ConstantsAssumption
  <1>2. plan[x].answers \in SUBSET Answer /\ plan[x].text \in Seq(Token)
    BY <1>1 DEF Request
  <1> QED
    BY <1>2

LEMMA Concatenated ==
    ASSUME NEW S, NEW s \in Seq(S), NEW t \in Seq(S)
    PROVE  s \o t \in Seq(S) /\ (s \o t = <<>> => s = <<>>)
  OBVIOUS

\* What a chunk gives the parser of x.
LEMMA TapIsTyped ==
    ASSUME StreamTypes, NEW x \in Exchange
    PROVE  Feed(parser[x], SubSeq(plan[x].text, fed[x] + 1, sent[x])) \in Feeding
  <1>1. /\ plan[x].text \in Seq(Token) /\ Len(plan[x].text) \in Nat
        /\ fed[x] \in Nat /\ sent[x] \in Nat /\ sent[x] <= Len(plan[x].text)
        /\ parser[x] \in Parser
    BY PlanIsTyped DEF StreamTypes
  <1>2. SubSeq(plan[x].text, fed[x] + 1, sent[x]) \in Seq(Token)
    BY <1>1
  <1> QED
    BY <1>1, <1>2, FeedIsTyped

LEMMA StreamStep ==
    ASSUME StreamTypes, [Next]_vars
    PROVE  StreamTypes'
  <1> USE DEF streams, exchanges
  <1>1. CASE UNCHANGED <<plan, answer, streams, gone>>
    BY <1>1 DEF StreamTypes
  <1>2. ASSUME NEW x \in Exchange, NEW a \in Answer, answer' = [answer EXCEPT ![x] = a],
               UNCHANGED <<plan, streams, gone>>
        PROVE  StreamTypes'
    BY <1>2 DEF StreamTypes
  <1>3. ASSUME NEW x \in Exchange, NEW a, Upstream(x, a)
        PROVE  a \in Answer /\ answer' = [answer EXCEPT ![x] = a]
    BY <1>3, PlanIsTyped DEF Upstream, StreamTypes
  <1>4. ASSUME NEW x \in Exchange, ErrorAtFirst(x) \/ Fail(x) \/ Connect(x), answer' # answer
        PROVE  StreamTypes'
    <2>1. PICK a : Upstream(x, a)
      BY <1>4 DEF ErrorAtFirst, Fail, Connect
    <2>2. UNCHANGED <<plan, streams, gone>>
      BY <1>4 DEF ErrorAtFirst, Fail, Connect
    <2> QED
      BY <1>2, <1>3, <2>1, <2>2
  <1>5. ASSUME NEW x \in Exchange, SendChunk(x) PROVE StreamTypes'
    <2>1. PICK n \in (sent[x] + 1)..Len(plan[x].text) : sent' = [sent EXCEPT ![x] = n]
      BY <1>5 DEF SendChunk
    <2>2. UNCHANGED <<plan, answer, fed, parser, gone>>
      BY <1>5 DEF SendChunk
    <2>3. n \in Nat /\ sent[x] <= n /\ n <= Len(plan[x].text)
      BY <2>1, PlanIsTyped DEF StreamTypes
    <2> QED
      BY <2>1, <2>2, <2>3 DEF StreamTypes
  <1>6. ASSUME NEW x \in Exchange, Tap(x) PROVE StreamTypes'
    <2> DEFINE after == Feed(parser[x], SubSeq(plan[x].text, fed[x] + 1, sent[x]))
    <2>1. /\ fed' = [fed EXCEPT ![x] = sent[x]] /\ UNCHANGED <<plan, answer, sent, gone>>
          /\ parser' = [parser EXCEPT ![x] = Parsed(after)]
      BY <1>6 DEF Tap
    <2>2. after \in Feeding
      BY TapIsTyped
    <2> HIDE DEF after
    <2>3. Parsed(after) \in Parser
      BY <2>2 DEF Parsed, Parser, Feeding
    <2> QED
      BY <2>1, <2>3 DEF StreamTypes
  <1>7. ASSUME NEW x \in Exchange, Drop(x) PROVE StreamTypes'
    BY <1>7 DEF Drop, StreamTypes
  <1>8. ASSUME NEW x \in Exchange, Serve(x) \/ FromUpstream(x),
               ~((ErrorAtFirst(x) \/ Fail(x) \/ Connect(x)) /\ answer' # answer), ~SendChunk(x), ~Tap(x)
        PROVE  UNCHANGED <<plan, answer, streams, gone>>
    BY <1>8 DEF Serve, FromUpstream, Arrive, Sent, Refused, SendBreaks, ErrorAtFirst, Fail, Connect,
       ReadBody, BodyBreaks, EndStream, StreamBreaks
  <1>9. ASSUME Stop \/ Checkpoint \/ Saves \/ Finalizes \/ Kill \/ UNCHANGED vars
        PROVE  UNCHANGED <<plan, answer, streams, gone>>
    BY <1>9 DEF Stop, Checkpoint, Saves, CheckpointSaved, CheckpointFails, Finalizes, Finalize,
       Save, SaveFails, Discard, WriteReport, ReleaseClaim, Kill, vars
  <1> QED
    BY <1>1, <1>4, <1>5, <1>6, <1>7, <1>8, <1>9 DEF Next

\* The recording only grows, and only while the proxy is up.
LEMMA RecordingGrows ==
    ASSUME StreamTypes, RunTypes, [Next]_vars
    PROVE  /\ messages' \in Seq(Message) /\ (messages' = <<>> => messages = <<>>)
           /\ messages' # messages => run = "up" /\ UNCHANGED <<disk, ckpt, snapshot>>
  <1>0. messages \in Seq(Message)
    BY DEF RunTypes
  <1>1. ASSUME NEW m \in Message, messages' = Append(messages, m)
        PROVE  messages' \in Seq(Message) /\ messages' # <<>>
    BY <1>0, <1>1
  <1>2. ASSUME NEW x \in Exchange, NEW events \in Seq(Events),
               messages' = messages \o FromServer(x, events)
        PROVE  messages' \in Seq(Message) /\ (messages' = <<>> => messages = <<>>)
    BY <1>0, <1>2, FromServerIsTyped, Concatenated
  <1>3. ASSUME NEW x \in Exchange, Arrive(x)
        PROVE  messages' \in Seq(Message) /\ (messages' = <<>> => messages = <<>>)
    <2>1. FromClient(x) \in Message
      BY DEF FromClient, Message, Events
    <2>2. messages' = Append(messages, FromClient(x)) \/ messages' = messages
      BY <1>3 DEF Arrive
    <2> QED
      BY <1>0, <1>1, <2>1, <2>2
  <1>4. ASSUME NEW x \in Exchange, ReadBody(x)
        PROVE  messages' \in Seq(Message) /\ (messages' = <<>> => messages = <<>>)
    <2>1. messages' = messages \o FromServer(x, <<Body>>) \/ messages' = messages
      BY <1>4 DEF ReadBody
    <2> QED
      BY <1>0, <1>2, <2>1, BodyIsTyped
  <1>5. ASSUME NEW x \in Exchange, Tap(x)
        PROVE  messages' \in Seq(Message) /\ (messages' = <<>> => messages = <<>>)
    <2> DEFINE after == Feed(parser[x], SubSeq(plan[x].text, fed[x] + 1, sent[x]))
    <2>1. messages' = messages \o FromServer(x, after.events)
      BY <1>5 DEF Tap
    <2>2. after \in Feeding
      BY TapIsTyped
    <2> HIDE DEF after
    <2>3. after.events \in Seq(Events)
      BY <2>2 DEF Feeding
    <2> QED
      BY <1>2, <2>1, <2>3
  <1>6. ASSUME NEW x \in Exchange, EndStream(x)
        PROVE  messages' \in Seq(Message) /\ (messages' = <<>> => messages = <<>>)
    <2>1. messages' = messages \o FromServer(x, Finish(parser[x])) /\ parser[x] \in Parser
      BY <1>6 DEF EndStream, StreamTypes
    <2> QED
      BY <1>2, <2>1, FinishIsTyped
  <1>7. ASSUME NEW x \in Exchange, Arrive(x) \/ ReadBody(x) \/ Tap(x) \/ EndStream(x)
        PROVE  run = "up" /\ UNCHANGED <<disk, ckpt, snapshot>>
    BY <1>7 DEF Arrive, ReadBody, Tap, EndStream, Turn
  <1>8. ASSUME NEW x \in Exchange, Serve(x) \/ FromUpstream(x) \/ Drop(x),
               ~Arrive(x), ~ReadBody(x), ~Tap(x), ~EndStream(x)
        PROVE  messages' = messages
    BY <1>8 DEF Serve, FromUpstream, Sent, Refused, SendBreaks, ErrorAtFirst, Fail, Connect, BodyBreaks,
       SendChunk, StreamBreaks, Drop
  <1>9. ASSUME Stop \/ Checkpoint \/ Saves \/ Finalizes \/ Kill \/ UNCHANGED vars
        PROVE  messages' = messages
    BY <1>9 DEF Stop, Checkpoint, Saves, CheckpointSaved, CheckpointFails, Finalizes, Finalize,
       Save, SaveFails, Discard, WriteReport, ReleaseClaim, Kill, vars
  <1> QED
    BY <1>0, <1>3, <1>4, <1>5, <1>6, <1>7, <1>8, <1>9 DEF Next

LEMMA RunStep ==
    ASSUME StreamTypes, RunTypes, [Next]_vars
    PROVE  RunTypes'
  <1>1. messages' \in Seq(Message)
    BY RecordingGrows
  <1> USE DEF upstream, disk
  <1>2. ASSUME NEW x \in Exchange, Serve(x) \/ FromUpstream(x) \/ Drop(x)
        PROVE  /\ UNCHANGED <<snapshot, kept, ckpt, partial, report, claim, failed>>
               /\ listening' \in BOOLEAN /\ contact' \in BOOLEAN /\ fatal' \in BOOLEAN
    BY <1>2 DEF RunTypes, Serve, FromUpstream, Arrive, Sent, Refused, SendBreaks, Tap, ErrorAtFirst, Fail, Connect,
       ReadBody, BodyBreaks, SendChunk, EndStream, StreamBreaks, Drop, Leave, Halt
  <1>3. ASSUME Stop \/ Checkpoint \/ Saves \/ Finalizes \/ Kill \/ UNCHANGED vars
        PROVE  RunTypes'
    BY <1>1, <1>3 DEF RunTypes, Stop, Checkpoint, Saves, CheckpointSaved, CheckpointFails, Finalizes,
       Finalize, Save, SaveFails, Discard, WriteReport, ReleaseClaim, Kill, vars, Halt
  <1> QED
    BY <1>1, <1>2, <1>3 DEF Next, RunTypes

\* A checkpoint that was written is in the sidecar until the recording has replaced the
\* cassette.
KeptInv ==
    /\ messages = <<>> => snapshot = <<>> /\ kept = <<>>
    /\ CheckpointIsKept

LEMMA KeptStep ==
    ASSUME StreamTypes, RunTypes, FinalizeInv, KeptInv, [Next]_vars
    PROVE  KeptInv'
  <1>0. /\ messages' = <<>> => messages = <<>>
        /\ messages' # messages => run = "up" /\ UNCHANGED <<disk, ckpt, snapshot>>
    BY RecordingGrows
  <1>1. run = "up" => cassette # messages
    BY ConstantsAssumption DEF FinalizeInv, RunTypes
  <1>2. fatal => fatal'
    BY DEF Next, Serve, FromUpstream, Arrive, Sent, Refused, SendBreaks, Tap, ErrorAtFirst, Fail, Connect,
       ReadBody, BodyBreaks, SendChunk, EndStream, StreamBreaks, Drop, Stop, Checkpoint, Saves,
       CheckpointSaved, CheckpointFails, Finalizes, Finalize, Save, SaveFails, Discard, WriteReport,
       ReleaseClaim, Kill, vars, upstream
  <1> USE DEF disk
  <1>3. CASE UNCHANGED <<kept, cassette, partial, snapshot>>
    BY <1>0, <1>1, <1>2, <1>3 DEF KeptInv, CheckpointIsKept
  <1>4. ASSUME NEW x \in Exchange, Serve(x) \/ FromUpstream(x) \/ Drop(x)
        PROVE  UNCHANGED <<kept, cassette, partial, snapshot>>
    BY <1>4 DEF Serve, FromUpstream, Arrive, Sent, Refused, SendBreaks, Tap, ErrorAtFirst, Fail, Connect,
       ReadBody, BodyBreaks, SendChunk, EndStream, StreamBreaks, Drop
  <1>5. ASSUME Stop \/ CheckpointFails \/ Finalize \/ SaveFails \/ WriteReport \/ ReleaseClaim
               \/ Kill \/ UNCHANGED vars
        PROVE  UNCHANGED <<kept, cassette, partial, snapshot>>
    BY <1>5 DEF Stop, CheckpointFails, Finalize, SaveFails, WriteReport, ReleaseClaim, Kill, vars
  <1>6. CASE Checkpoint
    BY <1>2, <1>6 DEF Checkpoint, KeptInv, CheckpointIsKept
  <1>7. CASE CheckpointSaved
    BY <1>2, <1>7 DEF CheckpointSaved, KeptInv, CheckpointIsKept
  <1>8. CASE Save
    BY <1>2, <1>8 DEF Save, KeptInv, CheckpointIsKept
  <1>9. CASE Discard
    BY <1>2, <1>9 DEF Discard, Step, FinalizeInv, KeptInv, CheckpointIsKept, upstream
  <1> QED
    BY <1>3, <1>4, <1>5, <1>6, <1>7, <1>8, <1>9 DEF Next, Saves, Finalizes

LEMMA Started ==
    ASSUME Init
    PROVE  StreamTypes /\ RunTypes /\ ListenInv /\ FinalizeInv /\ KeptInv
  <1>1. StreamTypes
    <2>1. NewParser \in Parser
      BY DEF NewParser, Parser, Events
    <2>2. \A x \in Exchange : Len(plan[x].text) \in Nat
      BY PlanIsTyped DEF Init
    <2> QED
      BY <2>1, <2>2 DEF Init, StreamTypes
  <1>2. RunTypes /\ KeptInv
    <2>1. <<>> \in Seq(Message)
      OBVIOUS
    <2>2. RunTypes
      BY <2>1 DEF Init, RunTypes
    <2>3. KeptInv
      BY DEF Init, KeptInv, CheckpointIsKept
    <2> QED
      BY <2>2, <2>3
  <1>3. ListenInv /\ FinalizeInv
    BY DEF Init, ListenInv, Places, OneListener, Listens, Idle, FinalizeInv, Kept
  <1> QED
    BY <1>1, <1>2, <1>3

\* Every reachable state is well typed, whatever the texts and wherever they are cut.
THEOREM TypeCorrect == Spec => []TypeOK
  <1> DEFINE All == StreamTypes /\ RunTypes /\ ListenInv /\ FinalizeInv
  <1>1. Init => All
    BY Started
  <1>2. All /\ [Next]_vars => All'
    BY StreamStep, RunStep, ListenStep, FinalizeStep
  <1>3. All => TypeOK
    <2> SUFFICES ASSUME All PROVE TypeOK
      OBVIOUS
    <2>1. \A x \in Exchange : sent[x] \in 0..Len(plan[x].text) /\ fed[x] \in 0..sent[x]
      BY PlanIsTyped DEF StreamTypes
    <2>2. cassette \in Seq(Message) \cup {Before}
      BY DEF FinalizeInv, RunTypes
    <2> QED
      BY <2>1, <2>2 DEF TypeOK, StreamTypes, RunTypes, ListenInv, Places, FinalizeInv, Finalizing,
         Parser
  <1> QED
    BY <1>1, <1>2, <1>3, PTL DEF Spec

\* What a checkpoint has written is never lost, whatever fails and whenever it is killed.
THEOREM CheckpointStays == Spec => []CheckpointIsKept
  <1> DEFINE All == StreamTypes /\ RunTypes /\ FinalizeInv /\ KeptInv
  <1>1. Init => All
    BY Started
  <1>2. All /\ [Next]_vars => All'
    BY StreamStep, RunStep, FinalizeStep, KeptStep
  <1>3. All => CheckpointIsKept
    BY DEF KeptInv
  <1> QED
    BY <1>1, <1>2, <1>3, PTL DEF Spec

-----------------------------------------------------------------------------
(* What was sent is recorded *)

Fed(x) == SubSeq(plan[x].text, 1, fed[x])

\* What is recorded of the answer to x, and what the parser knows of it, in every phase.
AnswerInv(x) ==
    /\ phase[x] \in {"new", "asking", "conflict"} => answer[x] = "none"
    /\ phase[x] \in {"new", "asking"} => sent[x] = 0 /\ fed[x] = 0 /\ parser[x] = NewParser
    /\ phase[x] \in {"new", "asking", "conflict", "failing", "refusing", "body"} =>
           Recording(x) = <<>>
    /\ phase[x] \in {"failing", "refusing"} => answer[x] \in {"down", "error"}
    /\ phase[x] \in {"body", "reply"} => answer[x] \in {"error", "body", "empty"}
    /\ phase[x] \in {"reply", "done"} /\ answer[x] \in {"body", "empty"} =>
           Recording(x) = IF answer[x] = "body" /\ plan[x].method = "post" THEN <<Body>> ELSE <<>>
    /\ phase[x] \in {"stream", "chunk"} =>
           /\ answer[x] = "stream" /\ (phase[x] = "stream" => fed[x] = sent[x])
           /\ parser[x].buffer = Rest(Fed(x)) /\ parser[x].lines = Pending(Fed(x))
           /\ Recording(x) = EventsSoFar(Fed(x))
    /\ phase[x] = "tail" => answer[x] = "stream" /\ fed[x] = Len(plan[x].text)
    /\ phase[x] \in {"tail", "done"} /\ answer[x] = "stream" =>
           Recording(x) = WholeEvents(plan[x].text)
    /\ phase[x] = "cut" /\ answer[x] = "stream" =>
           \/ Recording(x) = EventsSoFar(Fed(x))
           \/ fed[x] = Len(plan[x].text) /\ Recording(x) = WholeEvents(plan[x].text)

\* The request is recorded before anything else of its exchange.
Asked(log, x) ==
    \E j \in 1..Len(log) : log[j] = FromClient(x) /\ \A k \in 1..(j - 1) : log[k].x # x
RequestInv(x) ==
    /\ phase[x] = "new" => \A k \in 1..Len(messages) : messages[k].x # x
    /\ plan[x].method = "post" /\ phase[x] # "new" => Asked(messages, x)

SentInv == \A x \in Exchange : AnswerInv(x) /\ RequestInv(x)

\* A step leaves the answer to x alone, or cuts it off.
Untouched(x) ==
    /\ plan' = plan /\ answer'[x] = answer[x] /\ sent'[x] = sent[x] /\ fed'[x] = fed[x]
    /\ parser'[x] = parser[x]
    /\ RecordedIn(messages', x) = RecordedIn(messages, x)
    /\ phase'[x] = phase[x] \/ (phase'[x] = "cut" /\ phase[x] \notin Idle)

LEMMA UntouchedStays ==
    ASSUME Places, NEW x \in Exchange, AnswerInv(x), Untouched(x)
    PROVE  AnswerInv(x)'
  <1>1. CASE phase'[x] = phase[x]
    BY <1>1 DEF AnswerInv, Untouched, Recording, Fed
  <1>2. CASE phase'[x] = "cut" /\ phase[x] \notin Idle
    <2>1. phase[x] \in {"asking", "failing", "refusing", "conflict", "body", "reply", "stream",
                        "chunk", "tail"}
      BY <1>2 DEF Places
    <2> QED
      BY <1>2, <2>1 DEF AnswerInv, Untouched, Recording, Fed
  <1> QED
    BY <1>1, <1>2 DEF Untouched

\* What a step of the exchange y adds to the recording.
LEMMA LogGrows ==
    ASSUME StreamTypes, RunTypes, NEW y \in Exchange,
           Serve(y) \/ FromUpstream(y) \/ Drop(y)
    PROVE  /\ messages' \in Seq(Message) /\ Len(messages) <= Len(messages')
           /\ \A k \in 1..Len(messages) : messages'[k] = messages[k]
           /\ \A k \in 1..Len(messages') : k > Len(messages) => messages'[k].x = y
           /\ \A x \in Exchange \ {y} : RecordedIn(messages', x) = RecordedIn(messages, x)
           /\ \/ \E events \in Seq(Events) : messages' = messages \o FromServer(y, events)
              \/ messages' = messages
              \/ messages' = Append(messages, FromClient(y))
  <1>0. messages \in Seq(Message)
    BY DEF RunTypes
  <1> DEFINE Grows ==
               /\ messages' \in Seq(Message) /\ Len(messages) <= Len(messages')
               /\ \A k \in 1..Len(messages) : messages'[k] = messages[k]
               /\ \A k \in 1..Len(messages') : k > Len(messages) => messages'[k].x = y
               /\ \A x \in Exchange \ {y} : RecordedIn(messages', x) = RecordedIn(messages, x)
  <1>1. ASSUME NEW events \in Seq(Events), messages' = messages \o FromServer(y, events)
        PROVE  Grows
    <2> DEFINE more == FromServer(y, events)
    <2>1. more \in Seq(Message)
      BY FromServerIsTyped
    <2>2. \A k \in 1..Len(more) : more[k].x = y
      <3> DEFINE own == Recordable(events)
      <3>1. more = [k \in 1..Len(own) |-> [from |-> "server", x |-> y, data |-> own[k]]]
        BY DEF FromServer
      <3>2. Len(own) \in Nat
        BY RecordableIsTyped
      <3> HIDE DEF own, more
      <3> QED
        BY <3>1, <3>2
    <2>3. \A x \in Exchange \ {y} : RecordedIn(messages', x) = RecordedIn(messages, x)
      BY <1>0, <1>1, RecordedMore
    <2> HIDE DEF more
    <2>4. /\ messages' \in Seq(Message) /\ Len(messages') = Len(messages) + Len(more)
          /\ \A k \in 1..(Len(messages) + Len(more)) :
                messages'[k] = IF k <= Len(messages) THEN messages[k] ELSE more[k - Len(messages)]
      BY <1>0, <1>1, <2>1, ConcatProperties DEF more
    <2>5. Len(messages) \in Nat /\ Len(more) \in Nat
      BY <1>0, <2>1
    <2>6. ASSUME NEW k \in 1..Len(messages'), k > Len(messages) PROVE messages'[k].x = y
      <3>1. messages'[k] = more[k - Len(messages)] /\ k - Len(messages) \in 1..Len(more)
        BY <2>4, <2>5, <2>6
      <3> QED
        BY <2>2, <3>1
    <2>7. Len(messages) <= Len(messages')
      BY <2>4, <2>5
    <2>8. ASSUME NEW k \in 1..Len(messages) PROVE messages'[k] = messages[k]
      <3>1. k \in 1..(Len(messages) + Len(more)) /\ k <= Len(messages)
        BY <2>5
      <3> QED
        BY <2>4, <3>1
    <2> QED
      BY <2>3, <2>4, <2>6, <2>7, <2>8
  <1>2. ASSUME messages' = messages PROVE Grows
    BY <1>0, <1>2
  <1>3. ASSUME messages' = Append(messages, FromClient(y)) PROVE Grows
    <2>1. FromClient(y) \in Message /\ FromClient(y).x = y
      BY DEF FromClient, Message, Events
    <2>2. \A x \in Exchange : RecordedIn(messages', x) = RecordedIn(messages, x)
      BY <1>0, <1>3, RecordedOfClient
    <2> QED
      BY <1>0, <1>3, <2>1, <2>2, AppendProperties
  <1>4. \/ \E events \in Seq(Events) : messages' = messages \o FromServer(y, events)
        \/ messages' = messages
        \/ messages' = Append(messages, FromClient(y))
    <2>1. CASE Arrive(y)
      BY <2>1 DEF Arrive
    <2>2. CASE ReadBody(y)
      BY <2>2, BodyIsTyped DEF ReadBody
    <2>3. CASE Tap(y)
      <3> DEFINE after == Feed(parser[y], SubSeq(plan[y].text, fed[y] + 1, sent[y]))
      <3>1. messages' = messages \o FromServer(y, after.events)
        BY <2>3 DEF Tap
      <3>2. after \in Feeding
        BY TapIsTyped
      <3> HIDE DEF after
      <3>3. after.events \in Seq(Events)
        BY <3>2 DEF Feeding
      <3> QED
        BY <3>1, <3>3
    <2>4. CASE EndStream(y)
      <3>1. messages' = messages \o FromServer(y, Finish(parser[y])) /\ parser[y] \in Parser
        BY <2>4 DEF EndStream, StreamTypes
      <3> QED
        BY <3>1, FinishIsTyped
    <2>5. CASE ~(Arrive(y) \/ ReadBody(y) \/ Tap(y) \/ EndStream(y))
      BY <2>5 DEF Serve, FromUpstream, Sent, Refused, SendBreaks, ErrorAtFirst, Fail, Connect, BodyBreaks,
         SendChunk, StreamBreaks, Drop
    <2> QED
      BY <2>1, <2>2, <2>3, <2>4, <2>5
  <1> QED
    BY <1>1, <1>2, <1>3, <1>4

\* A step of one exchange leaves the answers to the others alone, or cuts them off.
LEMMA OthersUntouched ==
    ASSUME StreamTypes, RunTypes, Places, NEW y \in Exchange,
           Serve(y) \/ FromUpstream(y) \/ Drop(y), NEW x \in Exchange, x # y
    PROVE  Untouched(x)
  <1> USE DEF streams, exchanges
  <1>1. RecordedIn(messages', x) = RecordedIn(messages, x)
    BY LogGrows
  <1>2. /\ plan' = plan /\ answer'[x] = answer[x] /\ sent'[x] = sent[x] /\ fed'[x] = fed[x]
        /\ parser'[x] = parser[x]
    BY DEF StreamTypes, Serve, FromUpstream, Arrive, Sent, Refused, SendBreaks, Tap, ErrorAtFirst, Fail, Connect,
       ReadBody, BodyBreaks, SendChunk, EndStream, StreamBreaks, Drop, Upstream
  <1>3. phase'[x] = phase[x] \/ (phase'[x] = "cut" /\ phase[x] \notin Idle)
    BY DEF Places, Serve, FromUpstream, Arrive, Sent, Refused, SendBreaks, Tap, ErrorAtFirst, Fail, Connect,
       ReadBody, BodyBreaks, SendChunk, EndStream, StreamBreaks, Drop, Goto, Leave, Halt
  <1> QED
    BY <1>1, <1>2, <1>3 DEF Untouched

\* What a chunk completes is recorded.
LEMMA TapRecords ==
    ASSUME StreamTypes, RunTypes, Places, NEW x \in Exchange, AnswerInv(x), Tap(x)
    PROVE  AnswerInv(x)'
  <1> DEFINE chunk == SubSeq(plan[x].text, fed[x] + 1, sent[x])
             after == Feed(parser[x], chunk)
  <1>1. /\ plan[x].text \in Seq(Token) /\ Len(plan[x].text) \in Nat
        /\ fed[x] \in Nat /\ sent[x] \in Nat /\ sent[x] <= Len(plan[x].text) /\ fed[x] <= sent[x]
        /\ parser[x] \in Parser /\ messages \in Seq(Message)
    BY PlanIsTyped DEF StreamTypes, RunTypes
  <1>2. /\ phase[x] = "chunk" /\ phase'[x] = "stream" /\ fed'[x] = sent[x]
        /\ parser'[x] = Parsed(after) /\ messages' = messages \o FromServer(x, after.events)
        /\ plan' = plan /\ answer'[x] = answer[x] /\ sent'[x] = sent[x]
    BY DEF Tap, Turn, Goto, Places, StreamTypes
  <1>3. /\ answer[x] = "stream" /\ parser[x].buffer = Rest(Fed(x)) /\ parser[x].lines = Pending(Fed(x))
        /\ Recording(x) = EventsSoFar(Fed(x))
    BY <1>2 DEF AnswerInv
  <1>4. Fed(x) \in Seq(Token) /\ chunk \in Seq(Token)
    BY <1>1 DEF Fed
  <1>5. Fed(x) \o chunk = SubSeq(plan[x].text, 1, sent[x])
    <2>1. 1 \in 1..(Len(plan[x].text) + 1) /\ fed[x] \in (1 - 1)..Len(plan[x].text)
          /\ sent[x] \in fed[x]..Len(plan[x].text)
      BY <1>1
    <2> QED
      BY <1>1, <2>1, ConcatAdjacentSubSeq DEF Fed
  <1>6. after \in Feeding
    BY TapIsTyped
  <1>7. Knows(after, Fed(x) \o chunk, Completed(Fed(x)))
    BY <1>1, <1>3, <1>4, FeedCompletes
  <1> HIDE DEF chunk, after
  <1>8. after.events \in Seq(Events) /\ Completed(Fed(x)) \in Seq(Events)
    BY <1>4, <1>6, CompletedGrows DEF Feeding, Token
  <1>9. EventsSoFar(Fed(x) \o chunk) = EventsSoFar(Fed(x)) \o Recordable(after.events)
    BY <1>7, <1>8, RecordableInTurn DEF EventsSoFar, Knows
  <1>10. RecordedIn(messages', x) = EventsSoFar(Fed(x)) \o Recordable(after.events)
    BY <1>1, <1>2, <1>3, <1>8, RecordedMore DEF Recording
  <1>11. Fed(x)' = Fed(x) \o chunk
    BY <1>2, <1>5 DEF Fed
  <1>12. parser'[x].buffer = Rest(Fed(x) \o chunk) /\ parser'[x].lines = Pending(Fed(x) \o chunk)
    BY <1>2, <1>7 DEF Parsed, Knows
  <1> QED
    BY <1>2, <1>3, <1>9, <1>10, <1>11, <1>12 DEF AnswerInv, Recording

\* At the end of the stream its last event is recorded.
LEMMA EndRecords ==
    ASSUME StreamTypes, RunTypes, Places, NEW x \in Exchange, AnswerInv(x), EndStream(x)
    PROVE  AnswerInv(x)'
  <1> DEFINE text == plan[x].text
  <1>1. /\ text \in Seq(Token) /\ Len(text) \in Nat /\ parser[x] \in Parser
        /\ messages \in Seq(Message)
    BY PlanIsTyped DEF StreamTypes, RunTypes
  <1>2. /\ phase[x] = "stream" /\ phase'[x] = "tail" /\ sent[x] = Len(text)
        /\ messages' = messages \o FromServer(x, Finish(parser[x]))
        /\ plan' = plan /\ answer'[x] = answer[x] /\ fed'[x] = fed[x]
    BY DEF EndStream, Turn, Goto, Places, streams
  <1>3. /\ answer[x] = "stream" /\ fed[x] = Len(text)
        /\ parser[x].buffer = Rest(Fed(x)) /\ parser[x].lines = Pending(Fed(x))
        /\ Recording(x) = EventsSoFar(Fed(x))
    BY <1>2 DEF AnswerInv
  <1>4. Fed(x) = text
    BY <1>1, <1>3, SubSeqFull DEF Fed
  <1>5. Completed(text \o <<"lf", "lf">>) = Completed(text) \o Finish(parser[x])
    BY <1>1, <1>3, <1>4, FinishCompletes
  <1>6. Finish(parser[x]) \in Seq(Events) /\ Completed(text) \in Seq(Events)
    BY <1>1, FinishIsTyped, CompletedGrows DEF Token
  <1>7. WholeEvents(text) = EventsSoFar(text) \o Recordable(Finish(parser[x]))
    BY <1>5, <1>6, RecordableInTurn DEF WholeEvents, EventsSoFar
  <1>8. RecordedIn(messages', x) = EventsSoFar(text) \o Recordable(Finish(parser[x]))
    BY <1>1, <1>2, <1>3, <1>4, <1>6, RecordedMore DEF Recording
  <1> QED
    BY <1>2, <1>3, <1>7, <1>8 DEF AnswerInv, Recording
\* Of an empty text nothing is kept and nothing is completed.
LEMMA NothingFed == Rest(<<>>) = <<>> /\ Pending(<<>>) = <<>> /\ EventsSoFar(<<>>) = <<>>
  <1>1. Feeds(<<>>) = {} /\ Data(<<>>) = {} /\ Blank(<<>>) = {}
    BY DEF Feeds, Data, Blank
  <1>2. Rest(<<>>) = <<>>
    <2>1. Max({0}) = 0
      BY MaxIs
    <2>2. LastFeed(<<>>, Len(<<>>) + 1) = 0
      BY <1>1, <2>1 DEF LastFeed
    <2> QED
      BY <2>2, SubSeqEmpty DEF Rest
  <1>3. Pending(<<>>) = <<>>
    <2>1. Len(Contents(<<>>)) = 0
      BY DEF Contents
    <2> QED
      BY <1>1, <2>1, NonePicked DEF Pending, Unended
  <1>4. \A S : Picked(<<>>, S) = <<>>
    BY NonePicked
  <1>5. [b \in 1..Len(<<>>) |->
            IF b \in {e \in Blank(<<>>) : Block(<<>>, e) # {}} THEN Event(<<>>, b) ELSE <<>>] = <<>>
    OBVIOUS
  <1>6. Completed(<<>>) = <<>>
    BY <1>4, <1>5 DEF Completed
  <1> QED
    BY <1>2, <1>3, <1>4, <1>6 DEF EventsSoFar, Recordable

\* What an upstream that has answered makes of the exchange.
LEMMA ConnectAnswers ==
    ASSUME StreamTypes, RunTypes, Places, NEW x \in Exchange, AnswerInv(x), Connect(x)
    PROVE  AnswerInv(x)'
  <1>1. /\ phase[x] = "asking" /\ plan' = plan /\ sent' = sent /\ fed' = fed /\ parser' = parser
        /\ messages' = messages /\ answer'[x] \in {"error", "body", "empty", "stream"}
        /\ phase'[x] = IF answer'[x] = "stream" THEN "stream" ELSE "body"
    BY DEF Connect, Upstream, Turn, Goto, Places, StreamTypes, streams
  <1>2. Recording(x) = <<>> /\ sent[x] = 0 /\ fed[x] = 0 /\ parser[x] = NewParser
    BY <1>1 DEF AnswerInv
  <1>3. Fed(x) = <<>> /\ parser[x].buffer = <<>> /\ parser[x].lines = <<>>
    BY <1>2, PlanIsTyped, SubSeqEmpty DEF Fed, NewParser, StreamTypes
  <1>4. /\ Recording(x)' = <<>> /\ Fed(x)' = <<>>
        /\ parser'[x].buffer = <<>> /\ parser'[x].lines = <<>> /\ fed'[x] = sent'[x]
    BY <1>1, <1>2, <1>3 DEF Recording, Fed
  <1>5. CASE answer'[x] = "stream"
    BY <1>1, <1>4, <1>5, NothingFed DEF AnswerInv
  <1>6. CASE answer'[x] # "stream"
    BY <1>1, <1>4, <1>6 DEF AnswerInv
  <1> QED
    BY <1>5, <1>6

\* The body of the answer to a POST is recorded as it is.
LEMMA BodyRecorded ==
    ASSUME StreamTypes, RunTypes, Places, NEW x \in Exchange, AnswerInv(x), ReadBody(x)
    PROVE  AnswerInv(x)'
  <1>1. /\ phase[x] = "body" /\ phase'[x] = "reply" /\ plan' = plan /\ answer' = answer
        /\ messages' = IF plan[x].method = "post" /\ answer[x] # "empty"
                       THEN messages \o FromServer(x, <<Body>>) ELSE messages
    BY DEF ReadBody, Turn, Goto, Places, streams
  <1>2. Recording(x) = <<>> /\ answer[x] \in {"error", "body", "empty"}
    BY <1>1 DEF AnswerInv
  <1>3. Recordable(<<Body>>) = <<Body>>
    <2>1. \A n \in 1..Len(<<Body>>) :
             n \in {m \in 1..Len(<<Body>>) : \E k \in 1..Len(<<Body>>[m]) : <<Body>>[m][k] # <<>>}
      BY DEF Body
    <2> QED
      BY <2>1, BodyIsTyped, AllPicked DEF Recordable
  <1>4. RecordedIn(messages \o FromServer(x, <<Body>>), x) = <<>> \o <<Body>>
    <2>1. messages \in Seq(Message) /\ RecordedIn(messages, x) = <<>>
      BY <1>2 DEF RunTypes, Recording
    <2> DEFINE bodies == <<Body>>
    <2>2. bodies \in Seq(Events) /\ Recordable(bodies) = bodies
      BY <1>3, BodyIsTyped
    <2> HIDE DEF bodies
    <2>3. RecordedIn(messages \o FromServer(x, bodies), x) =
              RecordedIn(messages, x) \o Recordable(bodies)
      BY <2>1, <2>2, RecordedMore
    <2>4. RecordedIn(messages \o FromServer(x, bodies), x) = <<>> \o bodies
      BY <2>1, <2>2, <2>3, Zenon
    <2> QED
      BY <2>4 DEF bodies
  <1>5. <<>> \o <<Body>> = <<Body>>
    BY BodyIsTyped, ConcatEmptySeq
  <1> QED
    BY <1>1, <1>2, <1>4, <1>5 DEF AnswerInv, Recording

\* Each step of an exchange leaves it as it should be in the phase that it comes to.
LEMMA OwnAnswer ==
    ASSUME StreamTypes, RunTypes, Places, NEW x \in Exchange, AnswerInv(x),
           Serve(x) \/ FromUpstream(x) \/ Drop(x)
    PROVE  AnswerInv(x)'
  <1> USE DEF streams, exchanges
  <1>1. CASE Arrive(x)
    <2>1. RecordedIn(messages', x) = RecordedIn(messages, x)
      BY <1>1, RecordedOfClient DEF Arrive, RunTypes
    <2>2. /\ phase[x] = "new" /\ phase'[x] \in {"asking", "conflict"}
          /\ UNCHANGED <<plan, answer, sent, fed, parser>>
      BY <1>1 DEF Arrive, Turn, Goto, Places
    <2> QED
      BY <2>1, <2>2 DEF AnswerInv, Recording
  <1>2. CASE ErrorAtFirst(x) \/ Fail(x)
    <2>1. /\ phase[x] \in {"asking", "failing"} /\ phase'[x] \in {"failing", "refusing"}
          /\ answer'[x] \in {"down", "error"} /\ messages' = messages
      <3>1. phase[x] = "failing" => answer[x] \in {"down", "error"}
        BY DEF AnswerInv
      <3> QED
        BY <1>2, <3>1 DEF ErrorAtFirst, Fail, Upstream, Turn, Goto, Places, StreamTypes
    <2> QED
      BY <2>1 DEF AnswerInv, Recording
  <1>3. CASE Connect(x)
    BY <1>3, ConnectAnswers
  <1>4. CASE ReadBody(x)
    BY <1>4, BodyRecorded
  <1>5. CASE Tap(x)
    BY <1>5, TapRecords
  <1>6. CASE EndStream(x)
    BY <1>6, EndRecords
  <1>7. CASE SendChunk(x)
    <2>1. /\ phase[x] = "stream" /\ phase'[x] = "chunk"
          /\ UNCHANGED <<plan, answer, fed, parser, messages>>
      BY <1>7 DEF SendChunk, Turn, Goto, Places
    <2> QED
      BY <2>1 DEF AnswerInv, Recording, Fed
  <1>8. CASE Sent(x)
    <2>1. /\ phase[x] \in {"reply", "conflict", "tail"} /\ phase'[x] = "done"
          /\ UNCHANGED <<plan, answer, fed, parser, messages>>
      BY <1>8 DEF Sent, Turn, Leave, Goto, Places
    <2> QED
      BY <2>1 DEF AnswerInv, Recording, Fed
  <1>9. CASE Refused(x)
    <2>1. /\ phase[x] = "refusing" /\ phase'[x] = "done"
          /\ UNCHANGED <<plan, answer, fed, parser, messages>>
      BY <1>9 DEF Refused, Turn, Halt, Leave, Goto, Places, Idle
    <2> QED
      BY <2>1 DEF AnswerInv, Recording, Fed
  <1>10. CASE SendBreaks(x) \/ BodyBreaks(x) \/ StreamBreaks(x) \/ Drop(x)
    <2>1. /\ UNCHANGED <<plan, answer, sent, fed, parser, messages>>
          /\ phase'[x] = phase[x] \/ (phase'[x] = "cut" /\ phase[x] \notin Idle)
      BY <1>10 DEF SendBreaks, BodyBreaks, StreamBreaks, Drop, Turn, Halt, Leave, Goto, Places, Idle
    <2>2. Untouched(x)
      BY <2>1 DEF Untouched
    <2> QED
      BY <2>2, UntouchedStays
  <1> QED
    BY <1>1, <1>2, <1>3, <1>4, <1>5, <1>6, <1>7, <1>8, <1>9, <1>10 DEF Serve, FromUpstream

\* A request is recorded as it comes in, and what is recorded of it later comes after it.
LEMMA RequestStep ==
    ASSUME StreamTypes, RunTypes, Places, NEW x \in Exchange, RequestInv(x),
           NEW y \in Exchange, Serve(y) \/ FromUpstream(y) \/ Drop(y)
    PROVE  RequestInv(x)'
  <1>1. /\ messages \in Seq(Message) /\ messages' \in Seq(Message) /\ Len(messages) <= Len(messages')
        /\ \A k \in 1..Len(messages) : messages'[k] = messages[k]
        /\ \A k \in 1..Len(messages') : k > Len(messages) => messages'[k].x = y
    BY LogGrows DEF RunTypes
  <1>2. Len(messages) \in Nat /\ Len(messages') \in Nat
    BY <1>1
  <1>3. plan' = plan
    BY DEF Serve, FromUpstream, Arrive, Sent, Refused, SendBreaks, Tap, ErrorAtFirst, Fail, Connect, ReadBody,
       BodyBreaks, SendChunk, EndStream, StreamBreaks, Drop, exchanges
  <1>4. Asked(messages, x) => Asked(messages', x)
    <2> SUFFICES ASSUME NEW j \in 1..Len(messages), messages[j] = FromClient(x),
                        \A k \in 1..(j - 1) : messages[k].x # x
                 PROVE  Asked(messages', x)
      BY DEF Asked
    <2>1. j \in 1..Len(messages') /\ \A k \in 1..(j - 1) : k \in 1..Len(messages)
      BY <1>1, <1>2
    <2> QED
      BY <1>1, <2>1 DEF Asked
  <1>5. ASSUME phase[x] # "new" PROVE RequestInv(x)'
    <2>1. phase'[x] # "new"
      BY <1>5 DEF Places, Serve, FromUpstream, Arrive, Sent, Refused, SendBreaks, Tap, ErrorAtFirst, Fail, Connect,
         ReadBody, BodyBreaks, SendChunk, EndStream, StreamBreaks, Drop, Goto, Leave, Halt, Idle,
         exchanges
    <2> QED
      BY <1>3, <1>4, <1>5, <2>1 DEF RequestInv
  <1>6. ASSUME phase[x] = "new", x # y PROVE RequestInv(x)'
    <2>1. phase'[x] = "new"
      BY <1>6 DEF Places, Serve, FromUpstream, Arrive, Sent, Refused, SendBreaks, Tap, ErrorAtFirst, Fail, Connect,
         ReadBody, BodyBreaks, SendChunk, EndStream, StreamBreaks, Drop, Goto, Leave, Halt, Idle,
         exchanges
    <2>2. \A k \in 1..Len(messages) : messages[k].x # x
      BY <1>6 DEF RequestInv
    <2>3. \A k \in 1..Len(messages') : k \in 1..Len(messages) \/ k > Len(messages)
      BY <1>2
    <2>4. \A k \in 1..Len(messages') : messages'[k].x # x
      BY <1>1, <1>6, <2>2, <2>3
    <2> QED
      BY <2>1, <2>4 DEF RequestInv
  <1>7. ASSUME phase[x] = "new", x = y PROVE RequestInv(x)'
    <2>1. Arrive(x)
      BY <1>7 DEF Serve, FromUpstream, Sent, Refused, SendBreaks, Tap, ErrorAtFirst, Fail, Connect, Upstream,
         ReadBody, BodyBreaks, SendChunk, EndStream, StreamBreaks, Drop, Turn, Idle
    <2>2. phase'[x] # "new"
      BY <2>1 DEF Arrive, Goto, Places
    <2>3. \A k \in 1..Len(messages) : messages[k].x # x
      BY <1>7 DEF RequestInv
    <2>4. ASSUME plan[x].method = "post" PROVE Asked(messages', x)
      <3>1. messages' = Append(messages, FromClient(x))
        BY <2>1, <2>4 DEF Arrive
      <3>2. FromClient(x) \in Message
        BY DEF FromClient, Message, Events
      <3>3. /\ Len(messages') = Len(messages) + 1
            /\ messages'[Len(messages) + 1] = FromClient(x)
        BY <1>1, <3>1, <3>2, AppendProperties
      <3>4. \A k \in 1..((Len(messages) + 1) - 1) : messages'[k].x # x
        BY <1>1, <1>2, <2>3
      <3>5. Len(messages) + 1 \in 1..Len(messages')
        BY <1>2, <3>3
      <3> QED
        BY <3>3, <3>4, <3>5 DEF Asked
    <2> QED
      BY <1>3, <2>2, <2>4 DEF RequestInv
  <1> QED
    BY <1>5, <1>6, <1>7

LEMMA SentStep ==
    ASSUME StreamTypes, RunTypes, Places, SentInv, [Next]_vars
    PROVE  SentInv'
  <1>1. ASSUME NEW y \in Exchange, Serve(y) \/ FromUpstream(y) \/ Drop(y) PROVE SentInv'
    <2>1. ASSUME NEW x \in Exchange PROVE AnswerInv(x)'
      <3>1. AnswerInv(x)
        BY DEF SentInv
      <3>2. CASE x = y
        BY <1>1, <3>1, <3>2, OwnAnswer
      <3>3. CASE x # y
        <4>1. Untouched(x)
          BY <1>1, <3>3, OthersUntouched
        <4> QED
          BY <3>1, <4>1, UntouchedStays
      <3> QED
        BY <3>2, <3>3
    <2>2. ASSUME NEW x \in Exchange PROVE RequestInv(x)'
      BY <1>1, RequestStep DEF SentInv
    <2> QED
      BY <2>1, <2>2 DEF SentInv
  <1>2. ASSUME Stop \/ Checkpoint \/ Saves \/ Finalizes \/ Kill \/ UNCHANGED vars PROVE SentInv'
    <2>1. /\ UNCHANGED <<plan, answer, sent, fed, parser, messages>>
          /\ \A x \in Exchange :
                phase'[x] = phase[x] \/ (phase'[x] = "cut" /\ phase[x] \notin Idle)
      BY <1>2 DEF Stop, Checkpoint, Saves, CheckpointSaved, CheckpointFails, Finalizes, Finalize,
         Save, SaveFails, Discard, WriteReport, ReleaseClaim, Kill, Halt, vars, exchanges, streams
    <2>2. ASSUME NEW x \in Exchange PROVE AnswerInv(x)' /\ RequestInv(x)'
      <3>1. AnswerInv(x) /\ RequestInv(x)
        BY DEF SentInv
      <3>2. Untouched(x)
        BY <2>1 DEF Untouched
      <3>3. AnswerInv(x)'
        BY <3>1, <3>2, UntouchedStays
      <3>4. phase'[x] = "new" <=> phase[x] = "new"
        BY <2>1 DEF Idle
      <3>5. RequestInv(x)'
        BY <2>1, <3>1, <3>4 DEF RequestInv, Asked
      <3> QED
        BY <3>3, <3>5
    <2> QED
      BY <2>2 DEF SentInv
  <1> QED
    BY <1>1, <1>2 DEF Next

\* For any requests, whatever the upstream answers, however a stream is cut into chunks and
\* whatever is served beside it: what a client has been sent is recorded, event by event as
\* the text defines them, and the request before it.
THEOREM SentStaysRecorded == Spec => []SentIsRecorded
  <1> DEFINE All == StreamTypes /\ RunTypes /\ ListenInv /\ SentInv
  <1>1. Init => All
    <2> SUFFICES ASSUME Init PROVE All
      OBVIOUS
    <2>1. StreamTypes /\ RunTypes /\ ListenInv
      BY Started
    <2>2. ASSUME NEW x \in Exchange PROVE AnswerInv(x) /\ RequestInv(x)
      <3>1. /\ phase[x] = "new" /\ answer[x] = "none" /\ sent[x] = 0 /\ fed[x] = 0
            /\ parser[x] = NewParser /\ messages = <<>>
        BY DEF Init
      <3>2. Recording(x) = <<>>
        BY <3>1, NonePicked DEF Recording, RecordedIn
      <3> QED
        BY <3>1, <3>2 DEF AnswerInv, RequestInv
    <2> QED
      BY <2>1, <2>2 DEF SentInv
  <1>2. All /\ [Next]_vars => All'
    <2> SUFFICES ASSUME All, [Next]_vars PROVE All'
      OBVIOUS
    <2>1. Places
      BY DEF ListenInv
    <2> QED
      BY <2>1, StreamStep, RunStep, ListenStep, SentStep
  <1>3. All => SentIsRecorded
    <2> SUFFICES ASSUME All, NEW x \in Exchange
                 PROVE  /\ phase[x] \in {"stream", "chunk", "cut"} /\ answer[x] = "stream" =>
                              \/ Recording(x) = EventsSoFar(Fed(x))
                              \/ /\ phase[x] = "cut" /\ fed[x] = Len(plan[x].text)
                                 /\ Recording(x) = WholeEvents(plan[x].text)
                        /\ phase[x] \in {"tail", "done"} /\ answer[x] = "stream" =>
                               Recording(x) = WholeEvents(plan[x].text)
                        /\ phase[x] \in {"reply", "done"} /\ answer[x] \in {"body", "empty"} =>
                               Recording(x) = IF answer[x] = "body" /\ plan[x].method = "post"
                                              THEN <<Body>> ELSE <<>>
                        /\ plan[x].method = "post" /\ Recording(x) # <<>> => Asked(messages, x)
      BY DEF SentIsRecorded, Fed, Asked
    <2>1. AnswerInv(x) /\ RequestInv(x)
      BY DEF SentInv
    <2> QED
      BY <2>1 DEF AnswerInv, RequestInv
  <1> QED
    BY <1>1, <1>2, <1>3, PTL DEF Spec
=============================================================================
