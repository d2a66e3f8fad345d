------------------------------ MODULE Matching ------------------------------
(***************************************************************************)
(* What replay reads out of a cassette (src/mcp_cassette/matching.py and   *)
(* the plan of replay/server_requests.py): which recorded response belongs *)
(* to a request, what was recorded around it, and which recorded request   *)
(* an incoming one is matched with.                                        *)
(*                                                                         *)
(* A cassette is the sequence of its messages and a message is named by    *)
(* its position, its seq; None is no message.  A call stands for a method  *)
(* and what is left of its params once ignore_params is applied.           *)
(***************************************************************************)
EXTENDS Naturals, Sequences, FiniteSetsExt

None == 0

\* A cassette, like what is said over one, is a finite sequence.
IsSeq(q) == q \in Seq({q[k] : k \in DOMAIN q})

\* The messages of c that one side sent with the given kind.
Sent(c, sender, kind) == {i \in DOMAIN c : c[i].sender = sender /\ c[i].kind = kind}

WithId(c, S, id) == {i \in S : c[i].id = id}

First(S) == IF S = {} THEN None ELSE Min(S)
Latest(S) == IF S = {} THEN None ELSE Max(S)

\* The messages of S in the order they were recorded.
InOrder(S) ==
    [k \in 1..Cardinality(S) |-> First({m \in S : Cardinality({x \in S : x <= m}) >= k})]

-----------------------------------------------------------------------------
(* Exchanges: one for each recorded client request *)

Exchanges(c) == Sent(c, "client", "request")
IsInitialize(call) == call.method = "initialize"

\* response_by_id is a dict: a later response with the same id replaces an earlier.
Response(c, ex) ==
    Latest({m \in Sent(c, "server", "response") : ex # None /\ c[m].id = c[ex].id})

\* The last client request recorded before the message, None if there is none.
Anchor(c, m) == Latest({ex \in Exchanges(c) : ex < m})

\* Server notifications recorded after the request, up to the next one.
Notifications(c, ex) ==
    InOrder({m \in Sent(c, "server", "notification") : Anchor(c, m) = ex})

\* leading_notifications: those recorded before any request.
Leading(c) == Notifications(c, None)

-----------------------------------------------------------------------------
(* Matcher._lookup: the exchange for a call, given those already used *)

\* Variant of Lookup: used exchanges match again.
LookupReusing(c, used, call, ordering) ==
    First({ex \in Exchanges(c) : c[ex].call = call})

Lookup(c, used, call, ordering) ==
    LET Same == {ex \in Exchanges(c) : c[ex].call = call}
        Queue == {ex \in Exchanges(c) \ used : ~IsInitialize(c[ex].call)}
    IN  CASE ordering = "none" -> First(Same)
          [] ordering = "per_method" -> First(Same \ used)
          [] ordering = "strict" -> First({First(Queue)} \cap Same)

\* Exchange.consumed after a match; only ordering "none" lets it match again.
Consume(used, ex, ordering) == IF ordering = "none" THEN used ELSE used \cup {ex}

\* Matcher._expected: the recorded call a divergence is shown against.
Expected(c, used, call, ordering) ==
    LET Pending == {ex \in Exchanges(c) \ used : ~IsInitialize(c[ex].call)}
        SameMethod == {ex \in Pending : c[ex].call.method = call.method}
    IN  First(IF ordering = "strict" \/ SameMethod = {} THEN Pending ELSE SameMethod)

-----------------------------------------------------------------------------
(* Requests of the server to the client, "asks" here *)

Asks(c) == Sent(c, "server", "request")

\* client_response_seq: where the client's answer was recorded.
AnswerSeq(c, ask) == First(WithId(c, Sent(c, "client", "response"), c[ask].id))

\* Whether the ask is emitted inside its anchor's exchange, after it, or, with no
\* anchor, after initialize.  response_seq_by_id keeps the first response.
Trigger(c, ask) ==
    LET ex == Anchor(c, ask)
        answered == IF ex = None THEN None
                    ELSE First(WithId(c, Sent(c, "server", "response"), c[ex].id))
    IN  IF ex = None THEN "initialize"
        ELSE IF ask < answered THEN "during" ELSE "after"

\* triggered_by, in seq order.
Triggered(c, ex, trigger, emitted) ==
    InOrder({s \in Asks(c) \ emitted : Anchor(c, s) = ex /\ Trigger(c, s) = trigger})

\* Variant of Gates: every recorded ask counts, emitted or not.
GatesUnasked(c, emitted, opened, m) ==
    {s \in Asks(c) \ opened : AnswerSeq(c, s) # None /\ AnswerSeq(c, s) < m}

\* _find_blocker on stdio: the asks that hold the message m back.
Gates(c, emitted, opened, m) ==
    {s \in emitted \ opened : AnswerSeq(c, s) # None /\ AnswerSeq(c, s) < m}
=============================================================================
