# A verification project for opal-cpp

opal-cpp generates C++ clients and servers from Smithy models and supplies the
runtime they share. This directory holds TLA+ specifications of the runtime and
of the code the generator emits, the TLC configurations that check them, and
TLAPS proofs about the concurrent ones. Paths below are relative to the repository
(`runtime/...` is `src/runtime/...` in `PROJECT.json`).

The runtime's hard part is concurrent: full-duplex WebSocket sessions with a
blocking API and a completion API over the same one-outstanding slots, a wire
session split between application threads and a connection executor, a registry
that fans events out to many sessions, a server that accepts, serves, upgrades
and stops at the same time, a client with a connection pool under a retry loop.
The generated code's hard part is agreement: a reader and a writer generated
apart, perhaps from different versions of a model, must mean the same.

## 1. Inventory

| Component | State | Operations | Talks to | Hard because |
|---|---|---|---|---|
| WebSocket contract (`http/websocket.h`) | none | Receive, Send, ReceiveAsync, SendAsync, Close, Kick | implemented by the next two | promises that two implementations must keep |
| In-memory pair (`websocket_pair.cc`) | one `PairState`: two bounded queues, parked slots, `closed`, one mutex and condition variable | the calls above on each end, deadline watchdog threads | tests, EventStream | threads, parked callbacks, late watchdogs, two ends closing |
| Wire session `WsSession` (`beast_transport.cc` 296-1033) | received queue, parked slots, write and close flags under one mutex; the executor's task queue; Beast's operations | the calls above, Abort, the executor's handlers | Beast, server and client transports, EventStream | state split between threads and executor, one read and one write at a time, cancel against completion |
| Session registry (`server/session_registry.h`) | map of entries under a registry lock; each entry's queue and flags under its own; writer threads, completion chains, expiry thread | Add, Remove, Detach, Resume, ResumeOrAdd, SendTo, Broadcast, Close, Kick, CloseAll, Drain, destructor | SharedSession handles, so a WebSocket | two locks, two deliverers, handle swap, expiry race, joins |
| Beast server transport (1034-1990) | acceptor, connection count, active requests, upgraded sessions, handler pool | accept, request cycle, upgrade, Stop | WsSession, routers, middleware | connection cap, drain and stop races |
| Beast HTTP client (1992-2450) | idle pool | Send, SendStreaming, dial, return to pool | retry | stale pooled connections, a sink that cannot be rewound |
| Beast WebSocket client (2452-2776) | io thread, session, `DialedIo` | Connect, destruction | WsSession | destruction on its own io thread |
| Event stream, shared views, async event stream (`eventstream/event_stream.h`, `async_event_stream.h`) | pin count, revoked pointer; awaitables' arrival flag | Share, Acquire, End; co_await | WebSocket | revoke then drain, resume exactly once |
| JSON-RPC stream socket (`jsonrpc_stream_socket.cc`) | wrapped socket | WebSocket calls, violation path | WebSocket | terminal message, then close |
| Event-stream codecs (`frame.cc`, `json_frame.cc`, `jsonrpc_frame.cc`, `envelope.cc`) | none | encode, decode | sessions | lengths at boundaries |
| Client retry, interceptors, pagination | attempt counter, page token | Send, next page | HTTP client | two budgets of sends, one request prepared once |
| Metrics, middleware, access log | gauges, series map, histograms | record start, completion, rejection; scrape | server | every start matched by one end, whatever ends it |
| Routers, origin gate | route tables | add, match, gate, serve | server | order of declaration must not matter; gate and serve must match alike |
| Socket transport, dispatch, loopback | accept thread, `stopping_` | Start, Shutdown, guarded dispatch | middleware | a thread blocked in accept |
| Documents, CBOR, JSON, base64, timestamps, gzip | values | encode, decode | generated code | what a codec keeps, changes, refuses |
| HTTP data types, regex, uuid | values | parse, print | all | pure string code |
| Code generator (`codegen/`) | none | batch translation | - | what it emits, not how |
| Generated services (`examples/*/generated`, `protocol-tests/*/generated`) | none; one call's frame | serialize, deserialize, client calls, server routes | runtime | model evolution, retries, error mapping both ways |

Correctness, component by component:

* sessions: no message lost, repeated or reordered; every call completes once,
  with an outcome that is true; a close completes what waits; a deadline ends
  only the wait it was set for; the end is reported after the last message;
* wire session, besides: Beast's rule of one read and one write; the read pump
  survives backpressure;
* registry: one deliverer per session on the session's current connection;
  accepted events survive what they should; slot order; expiry or resume but
  not both; no thread left unjoined; calls return;
* server transport: a slot freed is a slot accepted into; what Shutdown drains
  is what is unanswered; a stop ends every session and returns;
* client: at most the policy's attempts, no sink fed twice, no answer read by
  another caller, no thread joined by itself;
* streams: no handle in a socket that is gone; one resumption per await; no
  close over a terminal message that is being sent;
* request path: metrics add up; the most specific route serves, and only what
  the chain let through;
* generated code: a value survives the trip, or is refused; a log shows it but
  for its secrets; a message from another version of
  the model is read or refused as the model's evolution rules say; a call's
  handler sees what the application passed, and the application is told what
  the handler said.

`PROJECT.json` lists every component with its status and every hazard with the
line where it bites and the properties that would catch it.

## 2. Plan

In order of importance; all are done.

1. `Duplex`, `WsPair`: the contract and its smallest implementation, safety,
   liveness, refinement.
2. `WsPairProofs`: type correctness, slot discipline, conservation, refinement.
3. `WsSession`: the wire session.
4. `SessionRegistry`: the fan-out registry.
5. `BeastServer`: accept loop and cap, request cycle, upgrades against the stop
   sweep, Shutdown's phases.
6. `EventStreams`: shared views, awaitables, JSON-RPC policing and the generated
   serve routes, composed over the WebSocket contract.
7. `BeastClient`: pool, round trip and sink composed with the retry loop; dialed
   WebSocket handles.
8. `Routing`, `RequestPath`: routers, middleware chain and metrics composed
   under a concurrent and a sequential transport.
9. `Documents`, `Serde`, the `*Shapes` tables, `SerdeTrip`, `RpcCalls`: what the
   generator emits, over the services in the repository.
10. `WsPairOutcomeProofs`, `WsSessionProofs`, `SessionRegistryProofs`, `BeastServerProofs`,
   `BeastClientProofs`, `EventStreamsProofs`: the safety properties of the other
   concurrent components, for every value of the constants.
11. `RequestPathProofs`: the router's scan and the registry's sums, and on them
   the two safety properties of the request path.

What the plan leaves to TLC: liveness, and the serde and RPC properties, whose
RECURSIVE operators the prover cannot take.

## 3. Modules and how they follow the code

Common to the concurrent models: **one action per lock hold or per handler**.
What a thread does outside every lock touches only its own data, so it is part
of the lock hold before or after it, except two things that other threads can
come between: completions taken under the lock and fired after it, and calls
into another component. A condition-variable wait is two actions, the call that
finds its predicate false and the wake-up that finds it true. Messages are
numbers: only identity and order matter.

**`Duplex`** is the abstract channel: per direction a queue of bounded length
and the history of what the other end was handed, and one `ended` flag.

**`WsPair`** (`websocket_pair.cc`) has the fields of `PairState` under their own
names. `Send`/`SendWakes`, `SendAsync`, `ReceiveWithin`/`ReceiveWakes`/
`ReceiveTimesOut`, `ReceiveAsyncWithin`, `ArmReceiveDeadline`/`ArmFails`/
`WatchdogWakes` and `End` are its calls and threads; `HandOver` is
`TakePeerReceiverLocked` with the push that follows, `TakeFront` the pop with
`AbsorbPeerPendingSendLocked`. The inline refusals run their callback with the
mutex held: `RefuseLocked` marks the record, and no action that needs the mutex
is enabled meanwhile (`MutexFree`). `owed` holds the completions taken and not
yet fired, `log` the outcomes each operation completed with.

**`WsSession`** (`beast_transport.cc`) has the fields under `mutex_`, the
executor's queue (`tasks`) and Beast's three operations (`reading`, `writing`,
`closing`: idle, out, cancelled). A handler is one action even where it calls
other functions of the class; `OnRead`'s tail call of `PumpRead` after `Deliver`
is `pump_next`, which keeps the strand busy until it has run, because the
application's callback comes between. `OnRead` is split by its branches
(message, closed, error, violation). External, from how the code uses it: an
operation completes at any time with success or error; a cancel may miss an
operation that has just completed; after the first error of any operation the
others report `operation_aborted`; a read displaced by our close ends
`operation_aborted`. `PostMayFail` lets `asio::post` and the timer throw.
`overlap` is set when an operation is started on a busy side.

**`SessionRegistry`** (`session_registry.h`) has the map, the entries, the
retired list and, per entry, the writer thread's place (`loop`, `send`, `exit`,
`ended`) and the chain's (`idle`, `claimed`, `flying`). Only `Resume` waits while
it holds the registry lock, so `resuming` stands for that lock. A queue slot has
a position `t` and the event `v` in it, so that coalescing, which replaces the
event and keeps the slot, can be told from eviction. `promised` are the accepted
events nothing may drop. `SendTo` is `Broadcast` to one id, `ResumeOrAdd` is
`Resume` or `Add`. Time is abstract: a detached entry may be resumed or expired
at any moment. A connection is external: open or not, and a send on it succeeds,
fails, or is refused. `io_blocked` counts the transport's threads that wait for
the registry lock; a completion needs one that does not (`IoFree`).

**`BeastServer`** (`beast_transport.cc`) follows each connection through the
phases of its `Session` (`at`): handshake, reading, the pool's queue, handling,
writing, the over-limit rejection and its drain, the upgrade's gate, accept,
registration and serving. The acceptor is `armed`, `accept_paused` and
`open_connections`; `releases` are the `OnSessionClosed` posts of destructors not
yet run. Shutdown is a process of its own (`stopAt`), one action per phase, and
`RegisterWebSocket` and the sweep each take the registry of upgraded sessions in
a step of their own. `Start` refuses option sets the code refuses. The wire
behind an upgraded session is `WsSession`; here it only fails or not.

**`BeastClient`** composes the retry loop (`retry.cc`), the pool and round trip,
and, apart, the dialed WebSocket handle. A caller's frame `call` goes through
interceptors, `TakeIdle` or `Dial`, write, header, body windows, `ReturnIdle`,
and back to the loop. The server is external: it may drop a connection at any
moment and answers in order what it read, so `owed[k]` is what a connection
still has to say; `executed` counts how often it acted on a request. `socket` has the handle, the I/O thread and `DialedIo`'s
references.

**`EventStreams`** is one served session: the route (`loop`), the awaitable's
exchange (`arrived`, `inFrame`), the JSON-RPC wrapper that answers a violation
(`policing`), the handles with their pins (`at`, `active`, `view`), over the
WebSocket contract as environment: one receive and one send outstanding, a
second async send refused, Close completing both.

**`Routing`** has the pattern operators under the source's names, over paths of
decoded segments, and both routers as sequences of routes in the order they were
added. **`RequestPath`** takes requests through `InvokeHandlerGuarded`, the
documented middleware order and the router, one action per stage, with the
metrics registry shared (`With` is a map's `operator[]` with an assignment);
`Unhandled` is a transport no handler was given to, `Correlation` the id an answer
leaves with (the handler's own wins, see `ended`), `Upgrade` the WebSocket router's
gate and serve;
`BeginShutdown`, `AcceptEnds` and `Joined` are the socket server's shutdown.

**`Documents`** is `opal::Document` and what JSON, CBOR, base64 and the timestamp
formats do to one. An instant is milliseconds. Its text is a local time with its
offset: `ParseDateTime` checks the year and then takes the offset off, unchecked,
as the code does; `FromEpochSeconds` checks the years 0000 to 9999; http-date text
has no fraction. JSON has no blob and one kind of number and replaces bytes that
are not UTF-8 (`ReplaceInvalid`). CBOR is modelled by data items: `EncodeValue`
writes heads and contents, `DecodeValue` reads them with open lengths, chunked
strings, tags, simple values, duplicate keys, the depth limit and every refusal
(the width of a head's argument and the bytes of a number are data). Text carries
how it was made, so base64 or a date is never mistaken for what it encodes.
**`Serde`** is the code `SerdeGenerator` emits,
once, as an interpreter over a service's tables. The tables are the
**`*Shapes`** modules, one per generated service, with the notation of
`ShapeTypes`: per shape the declaration of `types.h` (`Types`) and the calls its
`Serialize`/`Deserialize` functions make, member by member (`Serdes`), written
from those functions and not from the Smithy model, so that a member the one
forgets and the other has would show; for RPC services also the client calls,
the server routes, the validators and the error maps. **`SerdeTrip`** sends one
value of one shape: serialized, encoded, perhaps changed by a peer of another
version (`Evolve`), of none (`Garble`) or with a CBOR encoder of its own, or by a
connection that cuts or pads it (`Reframe`), decoded, deserialized. `DebugAppend`
is `print.h` with the `AppendDebugTo` functions of `types.h`, which list the
members the tables list; that is why a struct's entry in `PROJECT.json`'s map runs
to its `DebugString`. **`RpcCalls`** is
one unary call: `Prepare`, `Serve`, the handler's answer, `Lose`, `Resend` (the
transport's own, on a connection that broke before the answer), `Intervene`
(a proxy's answer), `Retry`, `Return`; `Stray` is a request that no generated
client makes, with a body that does not decompress (`NotGzip`) among them. Where
no output arrives, a lenient call returns the default-initialised one
(`NoOutput`), and a null `result` is read, not taken as missing.

The `MC*` modules give the constants values; all bounds are named constants.

## 4. Runs

| Run | Bounds | Shows |
|---|---|---|
| `pair` | depth 1; 3 sends by end 0, 1 by end 1; 2 receives by end 1; any closes | the pair's safety, that it implements `Duplex`, and that a close completes every call |
| `ws_session` | depth 1; 2 sends, 1 receive, 2 peer messages, 1 close or kick, abort, posts may fail | the wire session's safety, the pump is never lost, Close unblocks also a Send behind one whose write could not be posted |
| `ws_close` | 1 send, 1 receive, 1 close | *violated*: a parked receive survives a close for ever |
| `registry` | 1 id, capacity 2, 2 connections, 2 fan-out calls, droppable and coalescing events, both deliverers, destructor, 2 io threads of which 1 may call in | the registry's safety; queues drain, grace ends |
| `registry_stall` | 1 id, capacity 1, 2 connections, 2 reliable events, 1 io thread, which calls in | *violated*: Resume waits for ever |
| `server` | 3 clients that come back, cap 1 or 2, 1 accept error, 4 served option sets (and 3 refused) | accept loop, active count, Shutdown returns |
| `streams` | 1 session, 2 handles with 2 operations each, 2 operations of the route | use after end, resumption, no close over a frame, End returns |
| `streams_terminal` | 1 handle with 1 operation, 1 operation of the route | *violated*: a close without the terminal error |
| `client` | 2 callers (1 streaming), 3 connections, 1 idle, bodies of 2 windows, policies of 1 and 2 attempts, 2 dialed sockets | pool, sink, retries, lifetimes, returns |
| `client_redial` | 2 callers, 3 connections, 1 idle, 1 attempt | *violated*: a request that was executed is sent again |
| `request_path` | 2 requests of 9 kinds, with and without a handler, 3 HTTP and 2 stream routes in every order, 1 series, 2 buckets | metrics, routing, shutdown |
| `generated` | every structure and union of 11 services, each member varied in turn, nesting to depth 3 against limits of 4, instants on both sides of the window, text that is not UTF-8, one change on the wire; every unary operation of 6 services, 2 attempts | round trip, tolerance and refusal, printing; handler and caller agree |

What the properties say is in the comment above each; the ones that gather
several facts: `HonestOutcomes` (a success was accepted or is on the wire and a
clean end comes after the last message; for the pair, besides, a time-out only
ends a bounded receive and no send is overtaken by a later one), `AcceptLoop` (count, cap and the three
states the loop may be in), `MetricsAddUp` (gauge, totals, histograms, also as a
concurrent scrape saw them), `CallerToldTheTruth` (one clause per way a call can
end).

Why the bounds are enough. Depth 1 is full after one message, so backpressure,
parked sends and the pause of the pump all happen with two; the code compares
lengths with the bound and never otherwise uses it, and the proofs cover every
depth. In the pair two receives are needed for a stale deadline to meet a later
park, three sends for a blocked and an asynchronous one behind a full queue. The
wire session has one receive in its run: with two peer messages it makes room in a
full queue and re-arms the pump, and its safety with any number of receives, a
stale deadline among them, is proved (section 5). Two
connections are one reconnect; entries interact only through the lock `Resume`
holds and the retired list, which the second entry of the same id exercises.
Capacity 2 lets an event be in flight while another is coalesced or evicted.
Three clients against a cap of two, or one, pause the acceptor and race a
release against a new connection; clients that leave and return reuse slots
without bound. Two callers and one idle slot make a connection change hands and
the pool overflow; two windows let a body fail before, between and after them.
Two requests are enough for one to scrape, or be refused a series, while the
other is in flight. One series is the cap at its limit. Two routes that overlap
in both orders and a third of the same shape are the cases of `MoreSpecific` and
`SameShape`. In `generated` a structure's members are independent (each is read and
written by its own statement), so varying one at a time covers what they do;
`JsonDepth` and `CborDepth` stand for limits of the same order as the sampled
nesting, so that values fall on both sides of them, and the window of years is
scaled to -2000..9999 ms, which the code only compares with. A change on the wire
may put there a date-time whose offset leads out of the window, a number past it,
or any one CBOR item in another form or broken. Two attempts are a loss and
a repeat; the third would be prepared from the same request. A behaviour of
`generated` is one trip or one call, never both: they share no state.

`CHECK_DEADLOCK FALSE` throughout: with their budgets spent, a call returned and
everything closed, these systems are meant to stop.

The registry's runs use `queue_while_detached`, which keeps strictly more state
than dropping; the proofs of section 5 cover both values of the option.

Fairness. Threads that can go on are scheduled, callbacks and handlers return
and deadlines pass; nobody is obliged to call, connect or close. In the wire
session, besides, the executor runs what is queued, and every Beast operation
ends: the code sets Beast's handshake and idle timeouts on both sides
(`beast_transport.cc` 1696-1698, 2570-2572). So a close ends in the run also without
the kick deadline's socket close (598), which the model has. Fairness is per activity, never per
outcome: an operation must end, not succeed. The registry's is one weak fairness
over all its threads, weaker than the scheduler's. The server's asks that a
serve callback returns once its session failed, and not before. The client's
rests on `request_timeout_ms`, which bounds dial and round trip. In
`EventStreams` an operation a peer holds up may last for ever, but not once the
socket is closed, which is the contract `WsSession` and `WsPair` are checked for
(blocked calls and parked sends in both; see `ws_close` for the exception).

### What the violated runs show

In each the code does something that a comment or a document of the repository
says it does not; `PROJECT.json` quotes the line.

* `ws_close`: Close, or Kick, while a write is in flight cancels the socket's
  operations. `OnRead` filters the aborted read, leaving the outcome to the write;
  `OnWrite` fails the session and completes only the send. A `ReceiveAsync` parked
  without a deadline is then completed by nobody. `CloseUnblocksCalls`, which
  holds, says the same of blocked calls and parked sends.
* `registry_stall`: `Resume` waits with the registry lock held for a completion
  that needs an io thread (`session_registry.h` 330), "bounded-short by
  construction". An io thread may itself wait for that lock; when every one does,
  nobody is left to run the completion. `registry` keeps one outside, and there
  queues drain and graces end.
* `streams_terminal`: the answer to a JSON-RPC violation is promised before the
  close. While the application's send is outstanding the socket refuses it, and
  `PoliceAsync` closes whatever became of it (`jsonrpc_stream_socket.cc` 160-174).
  `ClosesOverNoFrame` is what holds: a terminal frame that was accepted is not cut
  off by the close.
* `client_redial`: a read that fails before any response byte makes the request go
  out again on a fresh connection (`beast_transport.cc` 2249, 2431), within one
  attempt, so also with `max_attempts = 1`. ADR-0007 says this only happens when
  the request could not have been processed, and counts such an end of the
  connection among those cases; the server may have acted and then lost the
  connection. `RetryDiscipline` bounds what holds: two sends per attempt, no more
  executions than sends. `HandlerSeesTheCall` says that the repeat carries the
  same token.

### Behaviours the models have that a reader of the code may not expect

No property rules these out; each is a reachable behaviour of the model as of
the code.

* The pair's inline refusals call back with the mutex held
  (`websocket_pair.cc` 183, 188, 233), although the comment on `PairState` has
  completions fire after the lock is released.
* After `Abort`, a message already on its way is queued and received, after an
  earlier receive reported the session's error (`beast_transport.cc` 750-761).
* Between `OnWrite` and the wake-up of the blocking `Send`, `SendAsync` sees no
  send outstanding and is accepted (539).
* Any accept error ends the accept loop for good (`beast_transport.cc` 1228).
* A date-time text whose offset leads out of the years 0000 to 9999 is accepted
  and the value it gives cannot be sent on (`timestamp.cc` 166);
  `AcceptedIsSound` names it as the one exception.
* A 200 without a body, from a proxy say, passes for an output of the operations
  without required output members (`client.cc` 190 of the rpcv2Cbor service), and
  of those without output; `CallerToldTheTruth` names both.
* jsonRpc2 errors ride on HTTP 200, so the retry loop never sees them as
  transient: an error marked retryable reaches the caller after one attempt.

## 5. Proofs

Each component's proofs are in a module of their own. All are of the form
`Spec => []Inv`, but for one action property and one refinement, and follow one
scheme: an inductive invariant that `Init` establishes and every action
preserves, proved one lemma per action (per shared step where actions share
one), and each property as a consequence. The budgets that bound TLC's runs are
constants here like any other: the theorems hold for every value of them.

### `WsPairProofs`: the pair as a channel

For every depth, every number of calls and of threads, from `DepthAssumption`
(the depth is a positive natural) and `BudgetAssumption` (the bounds are
naturals):

* `TypeCorrect`: `Spec => []TypeOK`.
* `SlotsDisciplined`: `ParkedSlots`. A parked receive means an empty inbound
  queue, a parked send a full outbound one, and nothing is parked after the
  close.
* `MessagesConserved`: `Conservation`. What an end was handed followed by what
  is queued for it is what the session accepted from the peer.
* `FirstCloseIsFinal`: the action property `FirstCloseStands`.
* `PairImplementsDuplex`: `Spec => Channel!DSpec`, with `queues`, `delivered` and
  `closed` as the channel's variables.

`Conservation` alone is not inductive: when a send is handed straight to a parked
receive, it goes to the end of `delivered`, past whatever is queued, and the
equation survives only because a parked receive implies an empty queue. That is
`ParkedSlots`, whose own preservation needs the type invariant. So `Inv` is
`TypeOK /\ ParkedSlots /\ Conservation`, and `InvStep` proves it action by action
through lemmas about the shared steps (`HandOverStep`, `TakeFrontStep`,
`QuietStep`). The refinement rests on the same facts: a handover is `HandOff`,
which needs the empty queue; an absorbed send is `TakeAndAdmit`, which needs that
nothing is parked once closed. `FirstCloseIsFinal` needs only that `End` is the
one action that touches the close.

### `WsPairOutcomeProofs`: what the pair's callers are told

From the same assumptions, on top of `Inv`: `OutcomeInvariant`,
`CompletesOnceHolds` (`EachOperationCompletesOnce`) and `OutcomesHonest`
(`HonestOutcomes`).

Exactly-once is a statement about four places an operation can be in: not issued,
waiting in the session, owed by a thread that took it out, told. `OnceInv` says
it is in exactly one. To keep it, a step that takes an operation must know that
no other place has it: the numbers waiting were issued and differ
(`SendWaitInv`, `ReceiveWaitInv`), and no two owed completions are for one
operation (`DebtInv`). The outcomes need what they rest on while they are still
owed, so `TruthInv` speaks of outcomes told or owed: a success has its message
in `committed` and conversely, an end has the close and an empty queue (which
stays empty, as nothing is accepted after the close), a time-out belongs to a
bounded receive. That last needs `DeadlineInv`: a watchdog still about carries a
park number at or before the current one, and one that matches was armed for
this park, so a late watchdog never ends a later wait. `OrderInv` is the strengthening for call
order: with one sender thread, everything committed was issued before what is
parked, and what is parked before what is blocked.

### `WsSessionProofs`: the wire session

From `QueueDepthAssumption` (the queue depth is a positive natural) and
`BoundsAssumption` (the budgets are naturals, the switches Booleans), so with and
without aborts and failing posts: `SessionInvariant`, and from it
`WireDisciplineHolds`, `PumpNeverLostHolds`, `DeliveredInOrderHolds`,
`CompletesOnceHolds` (`EachOperationCompletesOnce`) and `OutcomesHonest`
(`HonestOutcomes`).

What makes this component hard is that its state is half in the fields under
`mutex_` and half in what has been posted to the executor and not run yet. None
of the five properties is inductive without saying what is in that queue:

* `WireInv`: the one write is posted, out or completed, never two of these, and
  the close's flags are set in their order. Without the queue, a second
  `StartWrite` task could be waiting while the first is out.
* `PumpInv`: the read pump is in one place, a task or an outstanding read, or
  paused; and a pause means a full queue, until the session ends. This is what a
  receive that makes room relies on when it restarts the pump.
* `DeliveryInv`: handed out followed by queued is what was read, and there is
  room for the message being read.
* `DebtInv`, `SendOnce`, `ReceiveOnce`: a call made waits in one place (parked,
  blocked, or owed a `Ready` task), or is owed one answer, or has one; no two
  owed completions are for one call.
* `WriteInv`: a send that waits has its frame posted or out, or the session
  knows it is lost. Otherwise a success could be told for another's frame.
* `EndInv`: the peer's close takes the stream down, and an end is told only with
  the peer's close seen and the queue drained.

Many actions touch overlapping parts of this, so a step is summarised
before it is judged: what it does to the executor's queue (`QueueGrows`,
`QueueShrinks`), what it tells (`Tell`), and how a call moves between places
(`SendMove`, `ReceiveMove`). A lemma per part says when the part survives such a
step (`WireKept`, `PumpKept`, `DeliveryKept`, `WriteKept`, `EndKept`), a lemma
per action shows the summary of that action, and the shared ends of a session
(an error, an abort, a close) are one lemma each. The properties that count
answers follow from `CountOnce` and `OwedOnce`. TLC checked `IInv` on the bounds
of `MCWsSession`, with and without failing posts, before it was proved.

### `SessionRegistryProofs`: the registry

From `CapacityAssumption` and `OptionsAssumption` (the capacity is positive, the
options Booleans, the budgets naturals, no more io threads call in than there
are), for any set of ids, either deliverer, and both settings of
`queue_while_detached`: `RegistryInvariant`, and from it `OneDelivererHolds`,
`NoOrphanWriterHolds`, `ExpiryOrResumeHolds`, `DeliveredInOrderHolds` and
`AcceptedNotLostHolds`.

`IInv` has, besides the type invariant and the two properties that are inductive
together with it, three parts. `MapInv` is the registry lock's side: an entry is
under one id, retired entries are out of the map, only a registered entry may be
not stopping, and the one being resumed is registered and detached. `EntryInv` is
the entry lock's side, the same for every entry: who delivers (`Steady`,
`Holding`: a send is on the entry's own handle, and nothing is in hand between
sends), the slots' order (`QueueInOrder`, `HandInOrder`) and `FrontClaimed`, that
a chain's claim is still the front of the queue when its completion pops it,
which eviction, coalescing and a detach that clears the queue could break.
`PromiseInv` says that a promised event is in the queue or the writer's hand; it
needs `FrontClaimed`, or the pop could remove another event than the one sent.
The action lemmas are about one entry record each; a frame lemma carries the
others over.

### `BeastServerProofs`: accept loop and drain

From `ServerAssumption` (option sets are well formed, the clients finitely many):
`ServerInvariant`, `AcceptLoopHolds`, `ActiveIsUnansweredHolds`.

`CountInv` equates each counter with the number of connections in the phases it
counts; an action moves one connection between phases, and a lemma about the
cardinality of such a set gives the new count. `AcceptInv` adds what makes the
cap inductive: an outstanding accept has room for what it will accept, and only
Shutdown closes the acceptor. Clients are unbounded in time: they leave and come
back.

### `BeastClientProofs`: pool, sink, retries, dialed handles

From `ClientAssumption` (callers and connections finitely many, as many
connections as callers and idle slots can use at once, so that a dial never
wants for an unused one): `ClientInvariant`, `PoolIsolationHolds`,
`SinkSeesOneBodyHolds`, `RetryDisciplineHolds`, `IoOutlivesItsUsersHolds`.

The invariant is per caller, of its frame and of what the server owes on its
connection, with `PoolInv` joining them: every connection in use has one owner,
idle ones differ and are owed nothing. `WireInv` says that what the server owes
on a caller's connection is at most the answer to that caller's last send, which
is why a connection returned to the pool carries no answer to a stranger.
`SinkInv` and `RetryInv` relate the attempt, the sends within it and the pieces
the sink has had, which is what forbids the retry of a body begun. `SocketInv`
is apart, since dialed handles share nothing with the pool.

### `EventStreamsProofs`: the served session

From `StreamsAssumption` (the budgets are naturals; the handles are finitely many
and none is named like an owner of the socket's send slot): `StreamInvariant`,
`NoUseAfterEndHolds`, `ResumedOnceHolds`, `ClosesOverNoFrameHolds`.

`PinInv` is the count behind `End`: the pins are the number of handles inside, so
zero pins means nobody; it has the revocation, since a pin waited for must not be
taken again. `AwaitInv` says who of callback and suspension has been at the
exchange, and `OutstandingInv` that the socket's operation is the awaited one,
without which a completion could resume a coroutine that waits for another.

### `RequestPathProofs`: the request path

From `RoutesAssumption` (a pattern's parts are of the five forms a part can have,
and no operation is named like the metrics endpoint's path), `RequestsAssumption`
(finitely many requests, none named like the words a correlation id can be
instead of one) and
`LimitsAssumption` (the cap and the budget are naturals, the latency ladder a
sequence of them; that it ascends is not needed), for any routes in any order of
adding them, any inputs and either transport: `RequestInvariant`,
`MetricsAddUpHolds` and `AnswersAreSoundHolds`.

Both properties rest on a recursive function: `SumOf` adds up a map, and `FindBest`
scans the table. Neither can be expanded by the prover, and the library's induction
theorems take a predicate, which it cannot instantiate. So the module states
induction over a *set* of good arguments (`SetInduction` over the subsets of a finite
set, `NumberInduction`), which follows from the library's least element of a
well-founded order (`WFMin`), and has these layers on it:

* `TotalRecursion` and `ScanRecursion`: a function that satisfies the recursion
  exists, so that the one the definition chooses satisfies it.
* `TotalTakeOut`, from which the sum does not depend on the order in which keys are
  taken (`SumChange`, `SumGrow`, `SumZero`): an observation adds one to one series.
* `SpecificTransitive`, `SpecificAsymmetric` and `NoTie`: `MoreSpecific` is a strict
  order, and patterns that match one path are ordered unless they have one shape.
* `FindBestIsBest`: with no two routes of one shape under a method, the scan's
  answer is the one match that precedes all others, in whatever order the routes
  stand. Each replacement is by a more specific route, and a route passed
  over earlier stays worse, by transitivity.

`IInv` has, besides types: `RoutesInv`, that no two routes of a method have one shape,
which `Router::Add` keeps by its conflict check and without which two matches could
tie; `ServeInv`, that nothing is served before the routes are in place, or a route
added later could be better than the one that answered; `FramesInv`, soundness of
every frame, with what the tally needs: a frame on the chain never has the metrics
endpoint's name, and what a scrape saw was whole; `GaugeInv`, that a method without
a gauge has nothing in flight, which is why the decrement of `Record` never meets a
missing or a zero gauge; `TallyInv`, `SeriesInv` and `FamilyInv`. `AdmitStep` is the
centre of the tally: an observation, admitted or refused, timed or not, adds exactly
one to the series and the dropped count together. TLC checked `IInv` on the bounds
of `MCRequestPath` before it was proved.

### Only model-checked

Liveness, throughout: fairness and ENABLED are beyond the prover. The properties of
`Serde`, `SerdeTrip` and `RpcCalls`: their operators on documents are RECURSIVE, over
nested data, and the prover loses its SMT backend in a module that reaches one.

## 6. Not modelled

`PROJECT.json` gives a reason for each component. Whole parts: the REST
services' HTTP bindings (labels, queries, headers), pagination, the access log,
the frame codecs, URIs, headers, forwarded and trace-context parsing beyond
whether a trace is valid, the regex engine, zlib, exposition text, client
observability, the code generator beyond what it emits for serde and RPC calls,
the generated tests. Within the modelled ones: a message the codec refuses (it
returns before any state changes), close-reason text, the registry's
encoder-refused events and custom slow-consumer callback, more than one
coalescing key, `Drain`'s bounded wait, the failure of a thread spawn in the
registry, the server's Notify hooks, TLS set-up, the retry loop's backoff and
Retry-After arithmetic (floating point over clocks; it only delays the next
attempt), the wording and paths of validation failures. A callback
that throws is contained by `InvokeCompletion` and changes nothing. A post that
throws and the task it would have queued are one step with the lock hold before
it: nothing the other threads can do in between depends on which came first.
