---------------------------- MODULE RequestPath ----------------------------
(***************************************************************************)
(* A request on its way through a served process: the guarded dispatch of  *)
(* a transport, the documented middleware chain (metrics endpoint, metrics *)
(* recorder, health endpoint, rate limit, authentication), the router and  *)
(* its handler, and the metrics registry all of them feed.  The routes are *)
(* added before serving starts, in any order.                              *)
(*                                                                         *)
(* Two transports drive it: one that serves requests on several threads    *)
(* (Beast's, reduced to its calls of InvokeHandlerGuarded), and            *)
(* SocketHttpServer, whose one accept thread serves a connection at a time *)
(* and is woken by a connection of its own when the server shuts down.     *)
(***************************************************************************)
EXTENDS Routing, Integers

CONSTANTS
  Setups,         \* pairs of a transport and whether on_start is wired
  Requests,       \* requests that may be in flight
  Inputs,         \* the requests a client may send
  Declarations,   \* HTTP routes to add: [method, pattern, operation]
  Streams,        \* event-stream routes to add: [seam, method, pattern, operation]
  Origins,        \* the origins an upgrade is allowed from
  MaxSeries,      \* MetricsOptions::max_series
  Buckets,        \* a latency ladder, strictly ascending
  Durations,      \* durations a request may take
  HandlerOps,     \* what handlers do to a histogram: <<op, label, value>>
  MaxRejections   \* bound on requests the transport rejects while parsing

\* What a pattern's part can look like, and operations are named by Smithy
\* identifiers, which no endpoint's path is.
ASSUME RoutesAssumption ==
  \A d \in Declarations \cup Streams :
    /\ Len(d.pattern.parts) \in Nat
    /\ \A i \in 1..Len(d.pattern.parts) :
         d.pattern.parts[i].form \in {"literal", "label", "greedy", "emptyLabel", "empty"}
    /\ d.operation # "/metrics"

\* Finitely many requests, each a trace of its own.
ASSUME RequestsAssumption ==
  IsFiniteSet(Requests) /\ \A r \in Requests : r \notin {"client", "none", "handler"}

ASSUME LimitsAssumption ==
  /\ MaxSeries \in Nat /\ MaxRejections \in Nat
  /\ Buckets \in Seq(Nat)

VARIABLES
  transport,   \* "threads", "socket", or "unhandled": threads given no handler
  wiring,      \* declarations not added yet; <<>> once serving began
  table,       \* Router::routes_
  streams,     \* WebSocketRouter
  req,         \* per request, its frame
  startWired,  \* whether Observe was given an on_start
  inFlight,    \* MetricsRegistry::in_flight_
  stats,       \* MetricsRegistry::routes_
  dropped,     \* observations_dropped_
  rejections,  \* rejections reported so far
  family,      \* an application histogram's samples and its dropped count
  server       \* SocketHttpServer: accept thread, stopping_, Shutdown's frame

registry == <<inFlight, stats, dropped, family>>
vars == <<transport, wiring, table, streams, req, startWired, rejections, registry, server>>

Known == {"GET", "HEAD", "POST"}      \* of the nine RFC 9110 verbs

NormalizeMethod(method) == IF method \in Known THEN method ELSE "CUSTOM"

RouteOf(operation) == IF operation = "" THEN "unmatched" ELSE operation

ZeroStats == [requests |-> 0, success |-> 0, failure |-> 0, timed |-> 0,
              buckets |-> [b \in DOMAIN Buckets |-> 0]]

\* lower_bound: the first bucket at or above the value, 0 past the last one.
BucketOf(value) ==
  LET at == {b \in DOMAIN Buckets : Buckets[b] >= value}
  IN  IF at = {} THEN 0 ELSE CHOOSE b \in at : \A c \in at : b <= c

FileIn(buckets, value) ==
  [b \in DOMAIN buckets |-> buckets[b] + (IF b = BucketOf(value) THEN 1 ELSE 0)]

Tally(s, status) ==
  [s EXCEPT !.requests = @ + 1,
            !.success = @ + (IF status < 400 THEN 1 ELSE 0),
            !.failure = @ + (IF status < 400 THEN 0 ELSE 1)]

-----------------------------------------------------------------------------
Idle == [pc |-> "idle"]

\* A map with the key set: operator[] and an assignment.
With(f, key, value) ==
  [k \in DOMAIN f \cup {key} |-> IF k = key THEN value ELSE f[k]]

Init ==
  /\ \E s \in Setups : transport = s[1] /\ startWired = s[2]
  /\ wiring = Declarations \cup Streams
  /\ table = <<>>
  /\ streams = EmptyStreamRouter
  /\ req = [r \in Requests |-> Idle]
  /\ inFlight = [m \in {} |-> 0]
  /\ stats = [k \in {} |-> ZeroStats]
  /\ dropped = 0
  /\ rejections = 0
  /\ family = [samples |-> [l \in {} |-> ZeroStats], dropped |-> 0]
  /\ server = [accept |-> "accepting", stopping |-> FALSE, shutdown |-> "no"]

\* Register*: Router::Add and WebSocketRouter::Add/AddSession, in any order.
Declare(d) ==
  /\ d \in wiring
  /\ wiring' = wiring \ {d}
  /\ IF d \in Streams
     THEN streams' = AddStream(streams, d.seam, d.method, d.pattern, d.operation) /\ UNCHANGED table
     ELSE table' = AddRoute(table, d.method, d.pattern, d.operation) /\ UNCHANGED streams
  /\ UNCHANGED <<transport, req, startWired, rejections, registry, server>>

Serving == wiring = {}

-----------------------------------------------------------------------------
(* MetricsRegistry, each operation under its mutex.                        *)

\* AdmitRoute and the tally of an observation; a refused key is counted once.
Admit(key, status, timed, duration) ==
  IF key \in DOMAIN stats \/ Cardinality(DOMAIN stats) < MaxSeries
  THEN LET old == IF key \in DOMAIN stats THEN stats[key] ELSE ZeroStats
           new == Tally(old, status)
       IN  /\ stats' = With(stats, key,
                              IF timed THEN [new EXCEPT !.timed = @ + 1,
                                                        !.buckets = FileIn(@, duration)]
                              ELSE new)
           /\ UNCHANGED dropped
  ELSE /\ dropped' = dropped + 1
       /\ UNCHANGED stats

\* RecordStart, only when on_start was wired.
RecordStart(method) ==
  LET m == NormalizeMethod(method)
  IN  inFlight' = IF startWired
                  THEN With(inFlight, m, 1 + (IF m \in DOMAIN inFlight THEN inFlight[m] ELSE 0))
                  ELSE inFlight

\* Record: the gauge comes down whether or not the route is admitted.
Record(method, operation, status, duration) ==
  LET m == NormalizeMethod(method)
  IN  /\ inFlight' = IF m \in DOMAIN inFlight /\ inFlight[m] > 0
                     THEN [inFlight EXCEPT ![m] = @ - 1] ELSE inFlight
      /\ Admit(<<m, RouteOf(operation)>>, status, TRUE, duration)

\* RecordRejection: counted, never timed, never in flight.
RecordRejection(method, status) ==
  /\ Serving /\ rejections < MaxRejections
  /\ rejections' = rejections + 1
  /\ Admit(<<IF method = "" THEN "(unparsed)" ELSE NormalizeMethod(method), "unmatched">>,
           status, FALSE, 0)
  /\ UNCHANGED <<transport, wiring, table, streams, req, startWired, inFlight, family, server>>

\* MetricFamily::Observe and Declare on one histogram, by a handler.
FamilyOp(op, label, value) ==
  LET known == label \in DOMAIN family.samples
      room  == Cardinality(DOMAIN family.samples) < MaxSeries
      old   == IF known THEN family.samples[label] ELSE ZeroStats
      new   == IF op = "observe"
               THEN [old EXCEPT !.timed = @ + 1, !.buckets = FileIn(@, value)] ELSE old
  IN  family' = IF known \/ room
                THEN [family EXCEPT !.samples = With(@, label, new)]
                ELSE [family EXCEPT !.dropped = @ + 1]

-----------------------------------------------------------------------------
(* EnsureInboundTraceIdentity: one well-formed traceparent is kept, and    *)
(* anything else (none, malformed, two of them) is replaced.               *)
EnsureInboundTraceIdentity(r, traces) == IF traces = <<"valid">> THEN "client" ELSE r

\* One request arrives; the metrics endpoint, outermost, answers a scrape.
Receive(r, in) ==
  /\ Serving /\ req[r].pc = "idle" /\ ~in.upgrade /\ transport # "unhandled"
  /\ transport = "socket" => server.accept = "accepting" /\ ~server.stopping
  /\ LET scrape == in.method \in {"GET", "HEAD"} /\ in.target.ok /\ in.target.path = <<"metrics">>
     IN  req' = [req EXCEPT ![r] =
           [pc |-> IF scrape THEN "respond" ELSE "start", in |-> in,
            trace |-> EnsureInboundTraceIdentity(r, in.traces),
            status |-> IF scrape THEN 200 ELSE 0, operation |-> IF scrape THEN "/metrics" ELSE "",
            route |-> 0, ended |-> "plain", correlation |-> "none",
            exposed |-> IF scrape THEN {<<k, stats[k]>> : k \in DOMAIN stats} ELSE {}]]
  /\ server' = IF transport = "socket" THEN [server EXCEPT !.accept = "serving"] ELSE server
  /\ UNCHANGED <<transport, wiring, table, streams, startWired, rejections, registry>>

\* InvokeHandlerGuarded with an empty handler: nothing runs, no trace is given.
Unhandled(r, in) ==
  /\ Serving /\ req[r].pc = "idle" /\ ~in.upgrade /\ transport = "unhandled"
  /\ req' = [req EXCEPT ![r] =
       [pc |-> "unserved", in |-> in, trace |-> "none", status |-> 503, operation |-> "",
        route |-> 0, ended |-> "plain", correlation |-> "none", exposed |-> {}]]
  /\ UNCHANGED <<transport, wiring, table, streams, startWired, rejections, registry, server>>

\* Observe, before the rest of the chain.
ObserveStart(r) ==
  /\ req[r].pc = "start"
  /\ req' = [req EXCEPT ![r].pc = "inner"]
  /\ RecordStart(req[r].in.method)
  /\ UNCHANGED <<transport, wiring, table, streams, startWired, rejections, stats, dropped,
                 family, server>>

\* How the chain ended: with a response, one on which a handler set an
\* x-correlation-id of its own ("identified"), or with an exception ("threw").
Answer(r, status, operation, route, ended) ==
  req' = [req EXCEPT ![r] = [@ EXCEPT !.pc = "complete", !.status = status,
                                      !.operation = operation, !.route = route, !.ended = ended]]

\* HealthEndpoint, PerClientRateLimit and RequireApiKeyHeader answer for the
\* chain inside them; nothing inside runs then.
Shortcut(r) ==
  LET in     == req[r].in
      health == in.method \in {"GET", "HEAD"} /\ in.target.ok /\ in.target.path = <<"health">>
  IN  /\ req[r].pc = "inner"
      /\ \/ /\ health
            /\ \E healthy \in BOOLEAN :
                 Answer(r, IF healthy THEN 200 ELSE 503, "/health", 0, "plain")
         \/ ~health /\ ~in.admitted /\ Answer(r, 429, "", 0, "plain")
         \/ ~health /\ in.admitted /\ ~in.authorized /\ Answer(r, 401, "", 0, "plain")
      /\ UNCHANGED <<transport, wiring, table, streams, startWired, rejections, registry, server>>

\* Router::Route, and the handler of the route it finds.
Dispatch(r) ==
  LET in    == req[r].in
      found == Route(table, in.method, in.target)
  IN  /\ req[r].pc = "inner"
      /\ in.admitted /\ in.authorized
      /\ ~(in.method \in {"GET", "HEAD"} /\ in.target.ok /\ in.target.path = <<"health">>)
      /\ IF found.route = 0
         THEN Answer(r, found.status, "", 0, "plain") /\ UNCHANGED family
         ELSE LET op == table[found.route].operation
              IN  \/ \E h \in HandlerOps, ended \in {"plain", "identified"} :
                       /\ Answer(r, 200, op, found.route, ended)
                       /\ FamilyOp(h[1], h[2], h[3])
                  \/ \E ended \in {"plain", "identified"} :
                       Answer(r, 500, op, found.route, ended) /\ UNCHANGED family
                  \/ Answer(r, 500, "", found.route, "threw") /\ UNCHANGED family
      /\ UNCHANGED <<transport, wiring, table, streams, startWired, rejections, inFlight, stats,
                     dropped, server>>

\* A bug's shape: a handler that threw is never recorded.
ObserveCompleteUnlessThrew(r) ==
  /\ req[r].pc = "complete"
  /\ req' = [req EXCEPT ![r].pc = "respond"]
  /\ IF req[r].ended = "threw" THEN UNCHANGED <<inFlight, stats, dropped>>
     ELSE Record(req[r].in.method, req[r].operation, req[r].status, 1)
  /\ UNCHANGED <<transport, wiring, table, streams, startWired, rejections, family, server>>

\* Observe, after it, also when the chain threw.
ObserveComplete(r) ==
  /\ req[r].pc = "complete"
  /\ req' = [req EXCEPT ![r].pc = "respond"]
  /\ \E duration \in Durations :
       Record(req[r].in.method, req[r].operation, req[r].status, duration)
  /\ UNCHANGED <<transport, wiring, table, streams, startWired, rejections, family, server>>

\* The x-correlation-id of the response: InternalError sets the trace id on the
\* 500 of a throw, CorrelateServerError on any 5xx; a handler-set id stays.
Correlation(x) ==
  IF x.ended = "identified" THEN "handler" ELSE IF x.status >= 500 THEN x.trace ELSE "none"

\* The end of InvokeHandlerGuarded; the socket server closes.
Respond(r) ==
  /\ req[r].pc = "respond"
  /\ req' = [req EXCEPT ![r] = [@ EXCEPT !.pc = "answered", !.exposed = {},
                                         !.correlation = Correlation(req[r])]]
  /\ server' = IF transport = "socket" THEN [server EXCEPT !.accept = "accepting"] ELSE server
  /\ UNCHANGED <<transport, wiring, table, streams, startWired, rejections, registry>>

\* An upgrade: the origin gate, the router's gate, then the mounted serve.
Upgrade(r, in, mounted) ==
  /\ Serving /\ req[r].pc = "idle" /\ in.upgrade /\ transport = "threads"
  /\ LET origin == RequireOrigin(Origins, in.origins)
         gate   == IF origin # 0 THEN origin ELSE Gate(streams, in.method, in.target)
         served == IF gate # 0 THEN 0 ELSE ServeRoute(streams, mounted, in.method, in.target)
     IN  req' = [req EXCEPT ![r] =
           [pc |-> "upgraded", in |-> in, trace |-> EnsureInboundTraceIdentity(r, in.traces),
            status |-> gate, operation |-> IF served = 0 THEN "" ELSE streams.routes[served].operation,
            route |-> served, ended |-> "plain", correlation |-> "none", exposed |-> {}]]
  /\ UNCHANGED <<transport, wiring, table, streams, startWired, rejections, registry, server>>

-----------------------------------------------------------------------------
(* SocketHttpServer::Shutdown: raise the flag, wake the accept thread with *)
(* a connection, join, then close the listener.                            *)
\* A bug's shape: the flag is raised in a step after the wake-up connection.
BeginShutdownLate ==
  /\ transport = "socket" /\ Serving
  /\ \/ server.shutdown = "no" /\ server' = [server EXCEPT !.shutdown = "nudged"]
     \/ server.shutdown # "no" /\ ~server.stopping /\ server' = [server EXCEPT !.stopping = TRUE]
  /\ UNCHANGED <<transport, wiring, table, streams, req, startWired, rejections, registry>>

BeginShutdown ==
  /\ transport = "socket" /\ Serving /\ server.shutdown = "no"
  /\ server' = [server EXCEPT !.stopping = TRUE, !.shutdown = "nudged"]
  /\ UNCHANGED <<transport, wiring, table, streams, req, startWired, rejections, registry>>

\* The accept returns with the wake-up connection (or any other one).
AcceptEnds ==
  /\ server.accept = "accepting" /\ server.shutdown = "nudged"
  /\ server' = [server EXCEPT !.accept = IF server.stopping THEN "ended" ELSE "accepting",
                              !.shutdown = "joining"]
  /\ UNCHANGED <<transport, wiring, table, streams, req, startWired, rejections, registry>>

Joined ==
  /\ server.shutdown = "joining" /\ server.accept = "ended"
  /\ server' = [server EXCEPT !.shutdown = "done"]
  /\ UNCHANGED <<transport, wiring, table, streams, req, startWired, rejections, registry>>

RequestStep(r) == ObserveStart(r) \/ Shortcut(r) \/ Dispatch(r) \/ ObserveComplete(r) \/ Respond(r)

Next ==
  \/ \E d \in Declarations \cup Streams : Declare(d)
  \/ \E r \in Requests : \/ RequestStep(r)
                         \/ \E in \in Inputs : Receive(r, in) \/ Unhandled(r, in)
                         \/ \E in \in Inputs, seam \in {"borrowed", "shared"} : Upgrade(r, in, seam)
  \/ RecordRejection("", 431)
  \/ BeginShutdown \/ AcceptEnds \/ Joined

\* A request thread and the threads of a shutdown run on; clients, upgrades
\* and rejections are not promised, and neither is a shutdown.
Fairness ==
  /\ \A r \in Requests : WF_vars(RequestStep(r))
  /\ WF_vars(AcceptEnds) /\ WF_vars(Joined)

Spec == Init /\ [][Next]_vars /\ Fairness

-----------------------------------------------------------------------------
Recorded(pcs) == {r \in Requests : req[r].pc \in pcs}

SumOf(f) == LET total[S \in SUBSET DOMAIN f] ==
                  IF S = {} THEN 0
                  ELSE LET k == CHOOSE k \in S : TRUE IN f[k] + total[S \ {k}]
            IN  total[DOMAIN f]

\* The in-flight gauge counts exactly the requests between their start and
\* their completion, per method, when on_start is wired, and stays at zero
\* otherwise: a refused route, a throwing handler and a scrape in between
\* leave nothing behind (MetricsRegistry::RecordStart, Record, Observe).
GaugeCountsInFlight ==
  \A m \in DOMAIN inFlight :
    inFlight[m] = IF startWired
                  THEN Cardinality({r \in Recorded({"inner", "complete"}) :
                                      NormalizeMethod(req[r].in.method) = m})
                  ELSE 0

\* Every completed request and every rejection is in exactly one series or
\* in the dropped count, within max_series; success and failure add up to
\* the total, and the histogram never counts more than what was timed, also
\* in what a concurrent scrape saw (AdmitRoute, Record, RecordRejection,
\* MetricFamily, Expose); and the gauges return to what is in flight.
MetricsAddUp ==
  /\ GaugeCountsInFlight
  /\ Cardinality(DOMAIN stats) <= MaxSeries
  /\ Cardinality(DOMAIN family.samples) <= MaxSeries
  /\ SumOf([k \in DOMAIN stats |-> stats[k].requests]) + dropped
       = rejections + Cardinality({r \in Recorded({"respond", "answered"}) :
                                     req[r].operation # "/metrics"})
  /\ LET whole(s) == /\ s.requests = s.success + s.failure
                     /\ SumOf(s.buckets) <= s.timed /\ s.timed <= s.requests
     IN  /\ \A k \in DOMAIN stats : whole(stats[k])
         /\ \A r \in Recorded({"respond", "answered"}) : \A e \in req[r].exposed : whole(e[2])
  /\ \A l \in DOMAIN family.samples : SumOf(family.samples[l].buckets) <= family.samples[l].timed

\* Whatever the order the routes were added in: the route that served a
\* request is at least as specific as any other match, no two matching
\* routes tie, it served only an admitted and authorised request, and an
\* upgrade is served only when its gates passed.  A 5xx names the handler's
\* own correlation id when it set one, and the request's own trace otherwise,
\* which only a transport without a handler leaves unset; no other answer
\* gives the trace away, and a client's trace is taken over only when it sent
\* exactly one (Router::Route, WebSocketRouter::Gate/Serve, RequireOrigin,
\* CorrelateServerError, EnsureInboundTraceIdentity).
AnswersAreSound ==
  \A r \in Requests : req[r].pc \in {"complete", "respond", "answered", "upgraded", "unserved"} =>
    LET in    == req[r].in
        routes == IF in.upgrade THEN streams.routes ELSE table
    IN  /\ req[r].route # 0 =>
             /\ in.target.ok
             /\ \A i \in Matches(routes, in.method, NormalizedTarget(in.target.path)) :
                  i # req[r].route =>
                    /\ MoreSpecific(routes[req[r].route].segments, routes[i].segments)
                    /\ ~MoreSpecific(routes[i].segments, routes[req[r].route].segments)
        /\ req[r].route # 0 /\ ~in.upgrade => in.admitted /\ in.authorized
        /\ in.upgrade /\ req[r].route # 0 => req[r].status = 0
        /\ req[r].pc \in {"answered", "unserved"} =>
             IF req[r].status >= 500
             THEN req[r].correlation = IF req[r].ended = "identified" THEN "handler" ELSE req[r].trace
             ELSE req[r].correlation \in {"none", "handler"}
        /\ req[r].trace = "client" => in.traces = <<"valid">>
        /\ req[r].trace = "none" <=> req[r].pc = "unserved"

\* A shutdown of the socket server ends its accept thread, whatever request
\* that thread was serving when the flag was raised (SocketHttpServer::
\* Shutdown; the wake-up connection is assumed to reach the listener).
ShutdownCompletes == server.shutdown = "nudged" ~> server.shutdown = "done"
=============================================================================
