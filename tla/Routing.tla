------------------------------ MODULE Routing ------------------------------
(***************************************************************************)
(* The pattern matching the HTTP router and the WebSocket router share,    *)
(* and the two routers as values: a sequence of routes in the order they   *)
(* were added.  A path is a sequence of decoded segments; a pattern as     *)
(* written is a sequence of parts, parsed into literal, label and greedy   *)
(* segments.                                                               *)
(***************************************************************************)
EXTENDS Naturals, Sequences, FiniteSets

\* ParsePattern's refusals: an unrooted pattern, an empty label or segment,
\* a greedy label that is not the last part.
Parses(pattern) ==
  /\ pattern.rooted
  /\ \A i \in 1..Len(pattern.parts) :
       /\ pattern.parts[i].form \notin {"emptyLabel", "empty"}
       /\ pattern.parts[i].form = "greedy" => i = Len(pattern.parts)

\* "{name}", "{name+}" and everything else.
ParsePattern(pattern) ==
  [i \in 1..Len(pattern.parts) |->
     [kind |-> pattern.parts[i].form, text |-> pattern.parts[i].text]]

HasGreedy(pattern) == pattern # <<>> /\ pattern[Len(pattern)].kind = "greedy"

MatchSegments(pattern, path) ==
  /\ IF HasGreedy(pattern) THEN Len(path) >= Len(pattern) ELSE Len(path) = Len(pattern)
  /\ \A i \in 1..Len(pattern) :
       CASE pattern[i].kind = "literal" -> path[i] = pattern[i].text
         [] pattern[i].kind = "label"   -> path[i] # ""
         [] pattern[i].kind = "greedy"  -> ~(Len(path) = i /\ path[i] = "")

\* The labels of a match: a greedy one takes the rest of the path.
LabelsOf(pattern, path) ==
  {<<pattern[i].text, IF pattern[i].kind = "greedy"
                      THEN SubSeq(path, i, Len(path)) ELSE <<path[i]>> >> :
     i \in {j \in 1..Len(pattern) : pattern[j].kind # "literal"}}

Rank(segment) == CASE segment.kind = "literal" -> 0
                   [] segment.kind = "label"   -> 1
                   [] segment.kind = "greedy"  -> 2

\* The first segment whose kind differs decides; a longer pattern wins ties.
MoreSpecific(a, b) ==
  LET common == IF Len(a) < Len(b) THEN Len(a) ELSE Len(b)
      differ == {i \in 1..common : Rank(a[i]) # Rank(b[i])}
      first  == CHOOSE i \in differ : \A j \in differ : i <= j
  IN  IF differ # {} THEN Rank(a[first]) < Rank(b[first]) ELSE Len(a) > Len(b)

SameShape(a, b) ==
  /\ Len(a) = Len(b)
  /\ \A i \in 1..Len(a) : /\ a[i].kind = b[i].kind
                          /\ a[i].kind = "literal" => a[i].text = b[i].text

\* "/a/" is "/a": one trailing empty segment is dropped.
NormalizedTarget(path) ==
  IF path # <<>> /\ path[Len(path)] = "" THEN SubSeq(path, 1, Len(path) - 1) ELSE path

-----------------------------------------------------------------------------
(* Router::Add and WebSocketRouter::AddRoute: a pattern of the same shape  *)
(* under the same method is a conflict.                                    *)
Conflicts(table, method, segments) ==
  \E i \in DOMAIN table : table[i].method = method /\ SameShape(table[i].segments, segments)

AddRoute(table, method, pattern, operation) ==
  LET segments == ParsePattern(pattern)
  IN  IF ~Parses(pattern) \/ Conflicts(table, method, segments) THEN table
      ELSE Append(table, [method |-> method, segments |-> segments, operation |-> operation])

Matches(table, method, path) ==
  {i \in DOMAIN table : table[i].method = method /\ MatchSegments(table[i].segments, path)}

\* A bug's shape: the scan stops at the first match.
FindFirst(table, method, path) ==
  LET found == Matches(table, method, path)
  IN  IF found = {} THEN 0 ELSE CHOOSE i \in found : \A j \in found : i <= j

\* The scan keeps the first match and replaces it by a more specific one.
FindBest(table, method, path) ==
  LET found == Matches(table, method, path)
      best[i \in 0..Len(table)] ==
        IF i = 0 THEN 0
        ELSE LET kept == best[i - 1]
             IN  IF /\ i \in found
                    /\ kept = 0 \/ MoreSpecific(table[i].segments, table[kept].segments)
                 THEN i ELSE kept
  IN  best[Len(table)]

\* The methods of the Allow header of a 405.
Allowed(table, method, path) ==
  {table[i].method : i \in {j \in DOMAIN table : /\ table[j].method # method
                                                 /\ MatchSegments(table[j].segments, path)}}

\* Router::Route up to the handler: a status, or the index of a route.
Route(table, method, target) ==
  IF ~target.ok THEN [status |-> 400, route |-> 0, allow |-> {}]
  ELSE LET path  == NormalizedTarget(target.path)
           best  == FindBest(table, method, path)
           allow == Allowed(table, method, path)
       IN  IF best # 0 THEN [status |-> 0, route |-> best, allow |-> {}]
           ELSE IF allow # {} THEN [status |-> 405, route |-> 0, allow |-> allow]
           ELSE [status |-> 404, route |-> 0, allow |-> {}]

-----------------------------------------------------------------------------
(* WebSocketRouter: routes of one seam, latched by the first one added.    *)
EmptyStreamRouter == [routes |-> <<>>, seam |-> "none"]

\* Add (borrowed) and AddSession (shared).
AddStream(router, seam, method, pattern, operation) ==
  IF router.seam # "none" /\ router.seam # seam THEN router
  ELSE LET grown == AddRoute(router.routes, method, pattern, operation)
       IN  IF grown = router.routes THEN router
           ELSE [routes |-> grown, seam |-> seam]

\* Gate: nothing (0) when some route will serve the upgrade, else a status.
Gate(router, method, target) ==
  LET r == Route(router.routes, method, target) IN r.status

\* Serve and ServeSession: the route that serves, or 0 when the socket is
\* only closed (no match, or the dispatcher of the other seam is mounted).
ServeRoute(router, mounted, method, target) ==
  IF ~target.ok THEN 0
  ELSE LET best == FindBest(router.routes, method, NormalizedTarget(target.path))
       IN  IF best # 0 /\ router.seam = mounted THEN best ELSE 0

-----------------------------------------------------------------------------
(* RequireOrigin.  An Origin header is [form, scheme, host, port, extra]:  *)
(* form tells "null" and text that does not parse from a URL, port 0 is    *)
(* none written, extra is a path or user info.                             *)
NormalizeOrigin(o) ==
  IF o.form = "null" THEN <<"null", "", 0>>
  ELSE IF o.form = "garbage" \/ o.scheme \notin {"http", "https"} \/ o.extra THEN <<>>
  ELSE <<o.scheme, o.host, IF o.port # 0 THEN o.port ELSE IF o.scheme = "http" THEN 80 ELSE 443>>

RequireOrigin(allowed, origins) ==
  IF origins = <<>> THEN 0
  ELSE IF Len(origins) = 1 /\ NormalizeOrigin(origins[1]) # <<>>
            /\ \E a \in allowed : NormalizeOrigin(a) = NormalizeOrigin(origins[1])
       THEN 0 ELSE 403
=============================================================================
