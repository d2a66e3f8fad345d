--------------------------- MODULE MatchingProofs ---------------------------
(***************************************************************************)
(* What the lookups of Matching return, for every cassette: a message of   *)
(* the kind that was looked for, or None.  That a set of positions has a   *)
(* first and a latest one rests on the well-foundedness of < on Nat.       *)
(***************************************************************************)
EXTENDS Matching, FiniteSetTheorems, SequenceTheorems, TLAPS

(* Sequences, as the provers need them *)

LEMMA HeadAndTail ==
    ASSUME NEW S, NEW q \in Seq(S), q # <<>>
    PROVE  /\ 1 \in DOMAIN q /\ DOMAIN q = 1..Len(q) /\ Head(q) = q[1] /\ Head(q) \in S
           /\ Tail(q) \in Seq(S) /\ Len(Tail(q)) = Len(q) - 1
           /\ \A k \in DOMAIN Tail(q) :
                 k \in Nat \ {0} /\ k + 1 \in DOMAIN q /\ Tail(q)[k] = q[k + 1]
  OBVIOUS

LEMMA Appended ==
    ASSUME NEW S, NEW q \in Seq(S), NEW x \in S
    PROVE  /\ Append(q, x) \in Seq(S) /\ Len(Append(q, x)) = Len(q) + 1
           /\ DOMAIN Append(q, x) = DOMAIN q \cup {Len(q) + 1}
           /\ \A k \in DOMAIN q : Append(q, x)[k] = q[k] /\ k < Len(q) + 1
           /\ Append(q, x)[Len(q) + 1] = x
           /\ \A k \in DOMAIN Append(q, x) :
                 \/ k \in DOMAIN q /\ Append(q, x)[k] = q[k]
                 \/ k = Len(q) + 1 /\ Append(q, x)[k] = x
  OBVIOUS

\* The same without a type for the elements.
LEMMA SequencesAreSeq ==
    ASSUME NEW S, NEW q \in Seq(S)
    PROVE  IsSeq(q)
  <1> DEFINE T == {q[k] : k \in DOMAIN q}
  <1>1. Len(q) \in Nat /\ q \in [1..Len(q) -> S]
    OBVIOUS
  <1>2. q \in [1..Len(q) -> T]
    BY <1>1
  <1>3. q \in Seq(T)
    <2> HIDE DEF T
    <2> QED
      BY <1>1, <1>2, SeqDef
  <1> QED
    BY <1>3 DEF IsSeq

LEMMA TailOfAny ==
    ASSUME NEW q, IsSeq(q), q # <<>>
    PROVE  /\ IsSeq(Tail(q)) /\ 1 \in DOMAIN q /\ Head(q) = q[1]
           /\ \A k \in DOMAIN Tail(q) : /\ k \in Nat \ {0} /\ k + 1 \in DOMAIN q
                                        /\ Tail(q)[k] = q[k + 1]
  <1> DEFINE S == {q[k] : k \in DOMAIN q}
  <1>1. q \in Seq(S)
    BY DEF IsSeq
  <1> HIDE DEF S
  <1>2. Tail(q) \in Seq(S)
    BY <1>1, HeadAndTail
  <1>3. IsSeq(Tail(q))
    BY <1>2, SequencesAreSeq
  <1> QED
    BY <1>1, <1>3, HeadAndTail

LEMMA AppendedAny ==
    ASSUME NEW q, IsSeq(q), NEW x
    PROVE  /\ IsSeq(Append(q, x)) /\ Len(q) \in Nat
           /\ \A k \in DOMAIN Append(q, x) :
                 \/ k \in DOMAIN q /\ Append(q, x)[k] = q[k] /\ k < Len(q) + 1
                 \/ k = Len(q) + 1 /\ Append(q, x)[k] = x
  <1> DEFINE T == {q[k] : k \in DOMAIN q}
             S == T \cup {x}
  <1>1. q \in Seq(T)
    BY DEF IsSeq
  <1> HIDE DEF T
  <1>2. q \in Seq(S) /\ x \in S
    BY <1>1, SeqMonotonic
  <1> HIDE DEF S
  <1>3. Append(q, x) \in Seq(S) /\ Len(q) \in Nat
    BY <1>2
  <1>4. IsSeq(Append(q, x))
    BY <1>3, SequencesAreSeq
  <1> QED
    BY <1>2, <1>3, <1>4, Appended

-----------------------------------------------------------------------------
(* Sets of positions *)

Below == {pair \in Nat \X Nat : pair[1] < pair[2]}

LEMMA NoneIsNat == None \in Nat
  BY DEF None

LEMMA HasLeast ==
    ASSUME NEW S \in SUBSET Nat, S # {}
    PROVE  \E x \in S : \A y \in S : x <= y
  <1>1. IsWellFoundedOn(Below, Nat)
    BY NatLessThanWellFounded DEF OpToRel, Below
  <1>2. PICK x \in S : \A y \in S : ~(<<y, x>> \in Below)
    BY <1>1, WFMin
  <1>3. ASSUME NEW y \in S PROVE x <= y
    <2>1. <<y, x>> \in Nat \X Nat
      OBVIOUS
    <2>2. ~(<<y, x>>[1] < <<y, x>>[2])
      BY <1>2, <2>1 DEF Below
    <2> QED
      BY <2>2
  <1> QED
    BY <1>3

LEMMA HasGreatest ==
    ASSUME NEW S \in SUBSET Nat, S # {}, NEW n \in Nat, \A x \in S : x <= n
    PROVE  \E x \in S : \A y \in S : y <= x
  <1> DEFINE Bounds == {k \in Nat : \A x \in S : x <= k}
  <1>1. PICK m \in Bounds : \A y \in Bounds : m <= y
    BY HasLeast
  <1>2. SUFFICES ASSUME m \notin S PROVE FALSE
    BY <1>1
  <1>3. PICK s \in S : s <= m
    BY <1>1
  <1>4. m > 0
    BY <1>1, <1>2, <1>3
  <1>5. m - 1 \in Bounds
    BY <1>1, <1>2, <1>4
  <1> QED
    BY <1>1, <1>4, <1>5

LEMMA FirstOf ==
    ASSUME NEW S \in SUBSET Nat
    PROVE  /\ First(S) \in S \cup {None}
           /\ \A y \in S : First(S) \in S /\ First(S) <= y
  <1>1. CASE S = {}
    BY <1>1 DEF First
  <1>2. CASE S # {}
    <2>1. \E x \in S : \A y \in S : x <= y
      BY <1>2, HasLeast
    <2> QED
      BY <1>2, <2>1 DEF First, Min
  <1> QED
    BY <1>1, <1>2

LEMMA LatestOf ==
    ASSUME NEW n \in Nat, NEW S \in SUBSET (1..n)
    PROVE  /\ Latest(S) \in S \cup {None}
           /\ \A y \in S : Latest(S) \in S /\ y <= Latest(S)
  <1>1. CASE S = {}
    BY <1>1 DEF Latest
  <1>2. CASE S # {}
    <2>1. \E x \in S : \A y \in S : y <= x
      <3>1. S \in SUBSET Nat /\ \A x \in S : x <= n
        OBVIOUS
      <3> QED
        BY <1>2, <3>1, HasGreatest
    <2>2. \E x \in S : \A y \in S : x >= y
      BY <2>1
    <2> QED
      BY <1>2, <2>2 DEF Latest, Max
  <1> QED
    BY <1>1, <1>2

\* The messages of a finite set of positions, in their order, are a sequence of them.
LEMMA InOrderIsOfThem ==
    ASSUME NEW n \in Nat, NEW S \in SUBSET (1..n)
    PROVE  InOrder(S) \in Seq(S)
  <1> DEFINE UpTo(m) == {x \in S : x <= m}
  <1>1. IsFiniteSet(S) /\ Cardinality(S) \in Nat
    <2>1. IsFiniteSet(1..n)
      BY FS_Interval
    <2>2. IsFiniteSet(S)
      BY <2>1, FS_Subset
    <2> QED
      BY <2>2, FS_CardinalityType
  <1>2. ASSUME NEW k \in 1..Cardinality(S)
        PROVE  First({m \in S : Cardinality(UpTo(m)) >= k}) \in S
    <2> DEFINE Enough == {m \in S : Cardinality(UpTo(m)) >= k}
    <2>1. S # {}
      BY <1>1, <1>2, FS_EmptySet
    <2>2. PICK top \in S : \A y \in S : y <= top
      <3>1. S \in SUBSET Nat /\ \A x \in S : x <= n
        OBVIOUS
      <3> QED
        BY <2>1, <3>1, HasGreatest
    <2>3. UpTo(top) = S
      BY <2>2
    <2>4. Cardinality(UpTo(top)) >= k
      BY <1>1, <1>2, <2>3
    <2> HIDE DEF UpTo
    <2>5. top \in Enough
      BY <2>4
    <2>6. Enough \in SUBSET Nat
      BY S \in SUBSET Nat
    <2> HIDE DEF Enough
    <2>7. First(Enough) \in Enough
      BY <2>5, <2>6, FirstOf
    <2> QED
      BY <2>7 DEF Enough
  <1>3. InOrder(S) = [k \in 1..Cardinality(S) |-> First({m \in S : Cardinality(UpTo(m)) >= k})]
    BY DEF InOrder
  <1> HIDE DEF UpTo
  <1>4. InOrder(S) \in [1..Cardinality(S) -> S]
    BY <1>2, <1>3
  <1> QED
    BY <1>1, <1>4, SeqDef

\* They are in the order of the recording, and none is left out.
LEMMA InOrderIsSorted ==
    ASSUME NEW n \in Nat, NEW S \in SUBSET (1..n)
    PROVE  /\ \A i, j \in DOMAIN InOrder(S) : i < j => InOrder(S)[i] < InOrder(S)[j]
           /\ \A m \in S : \E i \in DOMAIN InOrder(S) : InOrder(S)[i] = m
  <1> DEFINE UpTo(m) == {x \in S : x <= m}
             N == Cardinality(S)
             Enough(k) == {m \in S : Cardinality(UpTo(m)) >= k}
             q == InOrder(S)
  <1>1. /\ IsFiniteSet(S) /\ N \in Nat /\ S \in SUBSET Nat
        /\ \A T \in SUBSET S : /\ IsFiniteSet(T) /\ Cardinality(T) \in Nat
                               /\ Cardinality(T) <= N
    <2>1. IsFiniteSet(1..n)
      BY FS_Interval
    <2>2. IsFiniteSet(S)
      BY <2>1, FS_Subset
    <2>3. ASSUME NEW T \in SUBSET S
          PROVE  /\ IsFiniteSet(T) /\ Cardinality(T) \in Nat
                 /\ Cardinality(T) <= Cardinality(S)
      <3>1. IsFiniteSet(T) /\ Cardinality(T) <= Cardinality(S)
        BY <2>2, FS_Subset
      <3> QED
        BY <3>1, FS_CardinalityType
    <2>4. Cardinality(S) \in Nat /\ S \in SUBSET Nat
      BY <2>2, FS_CardinalityType
    <2> QED
      BY <2>2, <2>3, <2>4
  <1>2. q = [k \in 1..N |-> First(Enough(k))] /\ DOMAIN q = 1..N
    BY DEF InOrder
  <1>3. \A k : Enough(k) \in SUBSET Nat /\ Enough(k) \subseteq S
    BY <1>1
  <1>4. \A m : UpTo(m) \in SUBSET S
    OBVIOUS
  <1>5. ASSUME NEW i \in 1..N, NEW j \in 1..N, i < j PROVE q[i] < q[j]
    <2> DEFINE b == q[j]
               Rest == UpTo(b) \ {b}
    <2>1. q \in Seq(S)
      BY InOrderIsOfThem
    <2>2. b \in S /\ q[i] \in S /\ b \in Nat /\ q[i] \in Nat
      <3> HIDE DEF q, N
      <3>1. \A k \in DOMAIN q : q[k] \in S
        BY <2>1
      <3>2. i \in DOMAIN q /\ j \in DOMAIN q
        BY <1>2, <1>5
      <3> QED
        BY <1>1, <3>1, <3>2
    <2>3. b \in Enough(j)
      <3>1. b = First(Enough(j)) /\ Enough(j) \in SUBSET Nat
        BY <1>2, <1>3
      <3>2. b \in Enough(j) \cup {None}
        <4> HIDE DEF Enough, b
        <4> QED
          BY <3>1, FirstOf
      <3>3. b # None
        BY <2>2 DEF None
      <3> QED
        BY <3>2, <3>3
    <2>4. Cardinality(UpTo(b)) \in Nat /\ Cardinality(UpTo(b)) >= j /\ IsFiniteSet(UpTo(b))
      BY <1>1, <1>4, <2>3
    <2>5. b \in UpTo(b)
      BY <2>2
    <2> HIDE DEF UpTo
    <2>6. Cardinality(Rest) = Cardinality(UpTo(b)) - 1
      BY <2>4, <2>5, FS_RemoveElement
    <2>7. Cardinality(Rest) >= i /\ Cardinality(Rest) \in Nat
      BY <2>4, <2>6, <1>5
    <2>8. Rest # {}
      BY <2>7, FS_EmptySet
    <2>9. Rest \in SUBSET Nat /\ \A x \in Rest : x <= n
      <3>1. Rest \subseteq S
        BY DEF UpTo
      <3> HIDE DEF Rest
      <3> QED
        BY <3>1
    <2> HIDE DEF Rest
    <2>10. PICK p \in Rest : \A y \in Rest : y <= p
      BY <2>8, <2>9, HasGreatest
    <2>11. p \in S /\ p < b
      BY <2>2, <2>10, <1>1 DEF Rest, UpTo
    <2>12. UpTo(p) = Rest
      <3>1. \A x \in Rest : x \in UpTo(p)
        BY <2>10 DEF Rest, UpTo
      <3>2. \A x \in UpTo(p) : x \in Rest
        BY <2>2, <2>11, <1>1 DEF Rest, UpTo
      <3> QED
        BY <3>1, <3>2 DEF UpTo
    <2>13. p \in Enough(i)
      BY <2>7, <2>11, <2>12
    <2>14. First(Enough(i)) <= p
      <3> HIDE DEF Enough
      <3> QED
        BY <1>3, <2>13, FirstOf
    <2> HIDE DEF Enough
    <2>15. q[i] <= p
      BY <1>2, <2>14
    <2> HIDE DEF q
    <2> QED
      BY <2>2, <2>11, <2>15, <1>1
  <1>6. ASSUME NEW m \in S PROVE \E i \in 1..N : q[i] = m
    <2> DEFINE k == Cardinality(UpTo(m))
               f == First(Enough(k))
    <2>1. k \in Nat /\ k <= N /\ IsFiniteSet(UpTo(m))
      BY <1>1, <1>4
    <2>2. m \in UpTo(m) /\ m \in Nat
      BY <1>1
    <2>3. k # 0
      <3> HIDE DEF UpTo
      <3> QED
        BY <2>1, <2>2, FS_EmptySet
    <2>4. m \in Enough(k)
      BY <2>1
    <2>5. f <= m /\ f \in Enough(k)
      <3>1. Enough(k) \in SUBSET Nat
        BY <1>3
      <3> HIDE DEF Enough, k
      <3> QED
        BY <2>4, <3>1, FirstOf
    <2>6. f \in S /\ Cardinality(UpTo(f)) >= k /\ f \in Nat
      BY <2>5, <1>1
    <2> HIDE DEF f
    <2>7. UpTo(f) \in SUBSET UpTo(m)
      <3>1. ASSUME NEW x \in S, x <= f PROVE x <= m
        BY <3>1, <2>2, <2>5, <2>6, <1>1
      <3> QED
        BY <3>1
    <2>8. UpTo(f) = UpTo(m)
      <3> HIDE DEF UpTo
      <3>1. Cardinality(UpTo(f)) <= k /\ Cardinality(UpTo(f)) \in Nat
        BY <2>1, <2>7, <1>1, <1>4, FS_Subset
      <3> QED
        BY <2>1, <2>6, <2>7, <3>1, FS_Subset
    <2>9. m <= f
      BY <2>2, <2>8
    <2>10. f = m
      BY <2>2, <2>5, <2>6, <2>9
    <2>11. k \in 1..N
      BY <2>1, <2>3, <1>1
    <2>12. q[k] = m
      <3> HIDE DEF k, q, Enough
      <3> QED
        BY <1>2, <2>10, <2>11 DEF f
    <2> QED
      BY <2>11, <2>12
  <1> HIDE DEF q, N
  <1> QED
    BY <1>2, <1>5, <1>6 DEF q

-----------------------------------------------------------------------------
\* The response of a request (response_by_id) is a message the server sent with its id.
LEMMA ResponseBelongs ==
    ASSUME NEW M, NEW c \in Seq(M), NEW ex, Response(c, ex) # None
    PROVE  /\ Response(c, ex) \in Sent(c, "server", "response")
           /\ ex # None
           /\ c[Response(c, ex)].id = c[ex].id
  <1> DEFINE S == {m \in Sent(c, "server", "response") : ex # None /\ c[m].id = c[ex].id}
  <1>1. S \in SUBSET (1..Len(c)) /\ Len(c) \in Nat
    BY DEF Sent
  <1>2. Latest(S) \in S \cup {None}
    BY <1>1, LatestOf
  <1> QED
    BY <1>2 DEF Response

\* The response of a request is the last message that answers its id, and there is none
\* only if nothing does; so two requests share a response exactly if they share an id,
\* whichever of them it was recorded for.
THEOREM ResponseIsTheLast ==
    ASSUME NEW M, NEW c \in Seq(M), NEW ex \in Exchanges(c)
    PROVE  LET answers == {m \in Sent(c, "server", "response") : c[m].id = c[ex].id}
           IN  /\ Response(c, ex) = None <=> answers = {}
               /\ \A m \in answers : Response(c, ex) \in answers /\ m <= Response(c, ex)
               /\ Response(c, ex) # None =>
                      \A e \in Exchanges(c) :
                          Response(c, e) = Response(c, ex) <=> c[e].id = c[ex].id
  <1> DEFINE Answers(e) == {m \in Sent(c, "server", "response") : c[m].id = c[e].id}
  <1>1. ASSUME NEW e \in Exchanges(c)
        PROVE  /\ Answers(e) \in SUBSET (1..Len(c)) /\ Len(c) \in Nat
               /\ Response(c, e) = Latest(Answers(e))
    <2>1. e # None
      BY DEF Exchanges, Sent, None
    <2>2. Answers(e) = {m \in Sent(c, "server", "response") : e # None /\ c[m].id = c[e].id}
      BY <2>1
    <2>3. Answers(e) \in SUBSET (1..Len(c)) /\ Len(c) \in Nat
      BY DEF Sent
    <2>4. Response(c, e) = Latest(Answers(e))
      BY <2>2 DEF Response
    <2> QED
      BY <2>3, <2>4
  <1>2. ASSUME NEW e \in Exchanges(c)
        PROVE  /\ Response(c, e) \in Answers(e) \cup {None}
               /\ \A m \in Answers(e) : Response(c, e) \in Answers(e) /\ m <= Response(c, e)
    <2> DEFINE S == Answers(e)
    <2>1. S \in SUBSET (1..Len(c)) /\ Len(c) \in Nat /\ Response(c, e) = Latest(S)
      BY <1>1
    <2> HIDE DEF S
    <2> QED
      BY <2>1, LatestOf DEF S
  <1>3. None \notin Answers(ex)
    BY DEF Sent, None
  <1>4. Response(c, ex) = None <=> Answers(ex) = {}
    BY <1>2, <1>3
  <1>5. ASSUME Response(c, ex) # None, NEW e \in Exchanges(c)
        PROVE  Response(c, e) = Response(c, ex) <=> c[e].id = c[ex].id
    <2>1. ASSUME c[e].id = c[ex].id PROVE Response(c, e) = Response(c, ex)
      <3>1. Answers(e) = Answers(ex)
        BY <2>1
      <3> QED
        BY <1>1, <3>1
    <2>2. ASSUME Response(c, e) = Response(c, ex) PROVE c[e].id = c[ex].id
      <3>1. Response(c, ex) \in Answers(ex) /\ Response(c, ex) \in Answers(e)
        BY <1>2, <1>5, <2>2
      <3> QED
        BY <3>1
    <2> QED
      BY <2>1, <2>2
  <1> QED
    BY <1>2, <1>4, <1>5

\* What Matcher.find matches is a recorded request for the very call, and under an
\* ordering that consumes its exchanges one that was not consumed before.
THEOREM MatchIsRecordedAndFresh ==
    ASSUME NEW M, NEW c \in Seq(M), NEW used, NEW call,
           NEW ordering \in {"none", "per_method", "strict"},
           Lookup(c, used, call, ordering) # None
    PROVE  LET ex == Lookup(c, used, call, ordering)
           IN  /\ ex \in Exchanges(c)
               /\ c[ex].call = call
               /\ ordering # "none" => ex \notin used
  <1> DEFINE Same == {ex \in Exchanges(c) : c[ex].call = call}
             Queue == {ex \in Exchanges(c) \ used : ~IsInitialize(c[ex].call)}
  <1>1. Same \in SUBSET Nat /\ Queue \in SUBSET Nat
    BY DEF Exchanges, Sent
  <1>2. CASE ordering = "none"
    <2>1. First(Same) \in Same \cup {None}
      BY <1>1, FirstOf
    <2> QED
      BY <1>2, <2>1 DEF Lookup
  <1>3. CASE ordering = "per_method"
    <2>1. First(Same \ used) \in (Same \ used) \cup {None}
      BY <1>1, FirstOf
    <2> QED
      BY <1>3, <2>1 DEF Lookup
  <1>4. CASE ordering = "strict"
    <2>1. First(Queue) \in Queue \cup {None}
      BY <1>1, FirstOf
    <2>2. {First(Queue)} \cap Same \in SUBSET Nat
      BY <1>1
    <2>3. First({First(Queue)} \cap Same) \in ({First(Queue)} \cap Same) \cup {None}
      BY <2>2, FirstOf
    <2>4. None \notin Same
      BY DEF Exchanges, Sent, None
    <2> QED
      BY <1>4, <2>1, <2>3, <2>4 DEF Lookup
  <1> QED
    BY <1>2, <1>3, <1>4

\* Under an ordering that consumes its exchanges, the first that is left of a call is the
\* one it is matched with.
THEOREM MatchIsTheFirst ==
    ASSUME NEW M, NEW c \in Seq(M), NEW used, NEW call, ~IsInitialize(call),
           NEW ordering \in {"per_method", "strict"},
           Lookup(c, used, call, ordering) # None
    PROVE  \A e \in Exchanges(c) \ used : c[e].call = call => Lookup(c, used, call, ordering) <= e
  <1> DEFINE Same == {ex \in Exchanges(c) : c[ex].call = call}
             Queue == {ex \in Exchanges(c) \ used : ~IsInitialize(c[ex].call)}
  <1>1. Same \in SUBSET Nat /\ Queue \in SUBSET Nat /\ Same \ used \in SUBSET Nat
        /\ Same \ used \subseteq Queue
    BY DEF Exchanges, Sent
  <1>2. CASE ordering = "per_method"
    <2>1. \A e \in Same \ used : First(Same \ used) <= e
      <3> HIDE DEF Same
      <3> QED
        BY <1>1, FirstOf
    <2> QED
      BY <1>2, <2>1 DEF Lookup
  <1>3. CASE ordering = "strict"
    <2>1. \A e \in Queue : First(Queue) <= e
      <3> HIDE DEF Queue
      <3> QED
        BY <1>1, FirstOf
    <2>2. {First(Queue)} \cap Same \in SUBSET Nat
      BY <1>1
    <2>3. First({First(Queue)} \cap Same) \in ({First(Queue)} \cap Same) \cup {None}
      BY <2>2, FirstOf
    <2>4. Lookup(c, used, call, ordering) = First(Queue)
      BY <1>3, <2>3 DEF Lookup
    <2> HIDE DEF Queue
    <2> QED
      BY <1>1, <2>1, <2>4
  <1> QED
    BY <1>2, <1>3
=============================================================================
