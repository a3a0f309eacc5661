------------------------------- MODULE MCMock -------------------------------
(***************************************************************************)
(* Instances of MockClient: handlers that overlap, redirect in a circle and *)
(* across hosts and await, and the batches and calls they answer.           *)
(***************************************************************************)
EXTENDS MockClient

Url(host, path) == [host |-> host, path |-> path]
Body(kind, object) == [kind |-> kind, object |-> object]
Get(url) == [url |-> url, method |-> "GET", headers |-> << >>, body |-> Body("empty", {})]

A == Url("a", "/")
B == Url("a", "/login")
X == Url("x", "/")

\* A POST whose second value of the header counts, with a JSON body.
Post == [url |-> A, method |-> "POST",
         headers |-> <<<<"k", "old">>, <<"k", "new">>>>, body |-> Body("object", {<<"id", 1>>})]

To(host, path) == [redirect |-> TRUE, location |-> Url(host, path)]

Handler(url, method, kind, answer) ==
    [url |-> url, method |-> method, kind |-> kind, answer |-> answer,
     match_headers |-> None, match_json |-> None]

Relative == Handler({A}, None, "response", To(None, "/login"))
Elsewhere == Handler({A, B}, "GET", "response", To("x", "/"))
Picky == [Handler(None, None, "response", To("a", "/")) EXCEPT
             !.match_headers = {<<"k", "new">>}, !.match_json = {<<"id", 1>>}]
Awaited == Handler({X, A}, None, "coroutine", To("a", "/"))
All == {Relative, Elsewhere, Picky, Awaited}

NoCall == [pc |-> "over", request |-> Get(A), follow_redirects |-> FALSE,
           max_redirects |-> 0, hops |-> 0, handler |-> None, result |-> None]
CallOf(url, follow) ==
    [NoCall EXCEPT !.pc = "start", !.request = Get(url), !.follow_redirects = follow,
                   !.max_redirects = 2]

Scenario(direct, real, registrable, configs, single) ==
    [direct |-> direct, real |-> real, registrable |-> registrable,
     registrations |-> IF real THEN 1 ELSE 2, configs |-> configs, call |-> single]

MCScenarios ==
    {Scenario(TRUE, TRUE, {}, << >>, NoCall),
     Scenario(FALSE, TRUE, {Awaited}, <<Get(X), Get(A), Get(X), Get(X)>>, NoCall),
     Scenario(FALSE, FALSE, All, <<Get(X), Post, Get(A), Get(X), Get(X)>>, NoCall),
     Scenario(FALSE, FALSE, All, <<Get(A), Post>>, CallOf(A, TRUE)),
     Scenario(FALSE, TRUE, {Awaited}, <<Get(A), Get(A)>>, CallOf(X, TRUE)),
     Scenario(FALSE, FALSE, {Awaited}, << >>, CallOf(X, FALSE)),
     Scenario(FALSE, FALSE, {Relative, Awaited}, << >>, CallOf(A, FALSE))}
=============================================================================
