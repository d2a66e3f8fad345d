---------------------------- MODULE MCHttpProxy ----------------------------
(***************************************************************************)
(* Small instances of HttpProxy for TLC.                                   *)
(***************************************************************************)
EXTENDS HttpProxy, TLC

CONSTANTS x1, x2, x3

\* An event of two data lines, with carriage returns, and one without its blank line.
TwoEvents == <<"data", "a", "cr", "lf", "data", "lf", "lf", "data", "b">>
\* A line that is skipped, an event without content, and one with.
OneEvent == <<"other", "lf", "data", "lf", "cr", "lf", "data", "a", "lf", "lf">>
Short == <<"data", "a", "lf", "lf">>

R(method, answers, text) ==
    [method |-> method, answers |-> answers, text |-> text, drops |-> FALSE]
Dropping(r) == [r EXCEPT !.drops = TRUE]
Post(answers) == R("post", answers, <<>>)
Unsent == R("delete", {}, <<>>)
Plan(r1, r2, r3) == (x1 :> r1) @@ (x2 :> r2) @@ (x3 :> r3)

\* A stream in chunks beside another answer, and one whose client leaves; a first contact
\* of two requests; a listening stream, one that is refused or comes after it, and a
\* request of another kind.
HttpPlans ==
    {Plan(R("post", {"stream"}, TwoEvents), Post({"body"}), Unsent),
     Plan(Dropping(R("post", {"stream"}, OneEvent)), Unsent, Unsent),
     Plan(Dropping(Post({"down", "body"})), Post({"error", "empty"}), Unsent),
     Plan(R("listen", {"stream", "down"}, Short), Dropping(R("listen", {"body"}, <<>>)),
          R("delete", {"body"}, <<>>))}

\* The upstream does not answer the first request.
SilentPlans == {Plan(Post({"body"}), Unsent, Unsent)}
=============================================================================
