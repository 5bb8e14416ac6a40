--------------------------- MODULE MCRequestPath ---------------------------
(* Two overlapping HTTP routes and one that conflicts, two stream routes   *)
(* of different seams, and requests for each branch of the chain.           *)
EXTENDS RequestPath

Lit(t) == [form |-> "literal", text |-> t]
Lab(t) == [form |-> "label", text |-> t]
Gre(t) == [form |-> "greedy", text |-> t]
Pat(parts) == [rooted |-> TRUE, parts |-> parts]
Path(p) == [ok |-> TRUE, path |-> p]

MCDeclarations ==
  {[method |-> "GET", pattern |-> Pat(<<Lit("a"), Lab("x")>>), operation |-> "GetX"],
   [method |-> "GET", pattern |-> Pat(<<Lab("y"), Lit("b")>>), operation |-> "GetB"],
   [method |-> "GET", pattern |-> Pat(<<Lab("q"), Lit("b")>>), operation |-> "Conflict"]}

MCStreams ==
  {[seam |-> "borrowed", method |-> "GET", pattern |-> Pat(<<Lit("s"), Gre("rest")>>),
    operation |-> "Converse"],
   [seam |-> "shared", method |-> "GET", pattern |-> Pat(<<Lit("s"), Lab("one")>>),
    operation |-> "Watch"]}

Https(port) == [form |-> "origin", scheme |-> "https", host |-> "o", port |-> port, extra |-> FALSE]

MCOrigins == {Https(0)}

Plain(method, target) ==
  [method |-> method, target |-> target, traces |-> <<>>, admitted |-> TRUE,
   authorized |-> TRUE, upgrade |-> FALSE, origins |-> <<>>]

MCInputs ==
  {[Plain("GET", Path(<<"a", "b">>)) EXCEPT !.traces = <<"valid">>],
   [Plain("BREW", Path(<<"a", "b">>)) EXCEPT !.traces = <<"valid", "valid">>],
   Plain("GET", Path(<<"metrics">>)),
   Plain("GET", Path(<<"health">>)),
   Plain("GET", [ok |-> FALSE, path |-> <<>>]),
   [Plain("GET", Path(<<"a", "">>)) EXCEPT !.authorized = FALSE],
   [Plain("GET", Path(<<"c", "d">>)) EXCEPT !.admitted = FALSE],
   [Plain("GET", Path(<<"s", "t">>)) EXCEPT !.upgrade = TRUE, !.origins = <<Https(443)>>],
   [Plain("GET", Path(<<"s", "">>)) EXCEPT !.upgrade = TRUE, !.origins = <<Https(8443)>>]}

MCBuckets == <<1, 2>>

MCSetups == {<<"threads", TRUE>>, <<"socket", FALSE>>, <<"unhandled", FALSE>>}

MCHandlerOps == {<<"declare", "a", 0>>, <<"observe", "a", 2>>, <<"observe", "b", 9>>}
=============================================================================
