----------------------------- MODULE BeastServer -----------------------------
(***************************************************************************)
(* BeastServerTransport (runtime/src/http/beast_transport.cc): the accept  *)
(* loop and its connection cap, one HTTP/1.1 request cycle per connection, *)
(* the WebSocket upgrade, and Shutdown.                                    *)
(*                                                                         *)
(* The processes are the acceptor's strand, one strand per connection, the *)
(* handler pool and the thread that calls Stop.  Strand handlers are       *)
(* atomic; what they share with another thread (`stopping', the registry   *)
(* of upgraded sessions, the pool) is read or written in a step of its     *)
(* own.  Payloads, headers and TLS bytes are left out; the wire session    *)
(* behind an upgrade is module WsSession, and here only says whether it    *)
(* has failed.  The `weak.lock() == nullptr' arms are left out: State is   *)
(* kept by Stop, then by the reaper, until every io and pool thread is     *)
(* gone.                                                                   *)
(***************************************************************************)
EXTENDS Naturals, FiniteSets

CONSTANTS
    Conns,            \* clients that connect, leave and connect again
    Options,          \* the option sets Start may be called with
    MaxAcceptErrors   \* bound on transient accept failures (EMFILE, ECONNABORTED)

ASSUME ServerAssumption ==
    /\ MaxAcceptErrors \in Nat
    /\ IsFiniteSet(Conns)
    /\ Options \subseteq [max_connections : Nat, handler_threads : Nat, tls : BOOLEAN,
                         on_websocket : BOOLEAN, on_websocket_session : BOOLEAN,
                         websocket_gate : BOOLEAN]

\* Where a connection is.  From "handshake" to "serving" a Session object
\* holds the descriptor; "backlog" waits in the kernel.
HttpPhases == {"handshake", "reading", "queued", "handling", "answered",
               "writing", "rejecting", "draining"}
UpgradePhases == {"gateQueued", "gating", "admitted", "refused", "accepting",
                  "registering", "serveQueued", "serving", "open"}
HoldsSession == HttpPhases \union UpgradePhases
Phases == HoldsSession \union {"away", "backlog"}

\* The steps of Shutdown, in order.
StopSteps == <<"up", "drain", "sweep", "abort", "stopPool", "stopIo", "join", "returned">>

VARIABLES
    opts,          \* the options the transport was started with
    at,            \* [Conns -> Phases]
    keepAlive,     \* keep_alive, as the read handler captured it
    failed,        \* upgraded sessions that were aborted or have ended
    armed,         \* async_accepts outstanding
    accept_paused, open_connections,
    releases,      \* OnSessionClosed tasks posted to the acceptor strand
    acceptorOpen, closePosted, acceptErrors,
    active, stopping,
    websockets, websockets_aborted,
    live,          \* AbortWebSockets' copy of the registry
    poolStopped, ioStopped,
    stopAt         \* where the thread in Shutdown is

acceptVars == <<armed, accept_paused, open_connections, releases, acceptorOpen,
                closePosted, acceptErrors>>
stopVars == <<stopping, live, poolStopped, ioStopped, stopAt>>
wsVars == <<failed, websockets, websockets_aborted>>
vars == <<opts, at, keepAlive, active, acceptVars, wsVars, stopVars>>

TypeOK ==
    /\ opts \in Options
    /\ at \in [Conns -> Phases]
    /\ keepAlive \in [Conns -> BOOLEAN]
    /\ failed \subseteq Conns /\ websockets \subseteq Conns /\ live \subseteq Conns
    /\ armed \in Nat /\ open_connections \in Nat /\ releases \in Nat /\ active \in Nat
    /\ acceptErrors \in 0..MaxAcceptErrors
    /\ {accept_paused, acceptorOpen, closePosted, stopping, websockets_aborted,
        poolStopped, ioStopped} \subseteq BOOLEAN
    /\ stopAt \in {StopSteps[i] : i \in 1..8}

----------------------------------------------------------------------------
\* Start's refusals: the options that would be dead or contradictory.
ServesWebSockets == opts.on_websocket \/ opts.on_websocket_session

StartContained ==
    /\ ~(opts.on_websocket /\ opts.on_websocket_session)
    /\ ServesWebSockets => opts.handler_threads > 0
    /\ opts.websocket_gate => ServesWebSockets

AtCap(open) == opts.max_connections > 0 /\ open >= opts.max_connections

\* Accept: arms the next async_accept, or pauses at the cap.
Accept(open) ==
    IF AtCap(open)
    THEN accept_paused' = TRUE /\ armed' = armed - 1
    ELSE UNCHANGED <<accept_paused, armed>>

Init ==
    /\ opts \in Options /\ StartContained
    /\ at = [c \in Conns |-> "away"]
    /\ keepAlive = [c \in Conns |-> FALSE]
    /\ failed = {} /\ websockets = {} /\ live = {}
    /\ armed = 1 /\ accept_paused = FALSE /\ open_connections = 0 /\ releases = 0
    /\ acceptorOpen = TRUE /\ closePosted = FALSE /\ acceptErrors = 0
    /\ active = 0 /\ stopping = FALSE /\ websockets_aborted = FALSE
    /\ poolStopped = FALSE /\ ioStopped = FALSE /\ stopAt = "up"

\* ~Session: the last handler let go of the stream.  The descriptor closes
\* and the slot's release is posted to the acceptor strand.
Destroy(c) ==
    /\ at' = [at EXCEPT ![c] = "away"]
    /\ releases' = releases + 1
    /\ UNCHANGED <<armed, accept_paused, open_connections, acceptorOpen, closePosted, acceptErrors>>

Goto(c, phase) == at' = [at EXCEPT ![c] = phase]

----------------------------------------------------------------------------
\* The acceptor's strand, and the kernel's backlog before it.
Connect(c) ==
    /\ at[c] = "away" /\ acceptorOpen /\ ~ioStopped
    /\ Goto(c, "backlog")
    /\ UNCHANGED <<keepAlive, active, acceptVars, wsVars, stopVars>>

\* The accept completion: RunSession, then Accept again.
AcceptConnection(c) ==
    /\ ~ioStopped /\ acceptorOpen /\ armed > 0 /\ at[c] = "backlog"
    /\ IF stopping
       THEN /\ Goto(c, "away")
            /\ armed' = armed - 1
            /\ UNCHANGED <<accept_paused, open_connections>>
       ELSE /\ Goto(c, IF opts.tls THEN "handshake" ELSE "reading")
            /\ open_connections' = open_connections + 1
            /\ Accept(open_connections + 1)
    /\ UNCHANGED <<keepAlive, active, releases, acceptorOpen, closePosted, acceptErrors,
                   wsVars, stopVars>>

\* The accept completes with an error: the handler returns and nobody
\* re-arms it.  Once the acceptor is closed that is the only outcome.
AcceptFails ==
    /\ ~ioStopped /\ armed > 0
    /\ armed' = armed - 1
    /\ \/ ~acceptorOpen /\ UNCHANGED acceptErrors
       \/ acceptorOpen /\ acceptErrors < MaxAcceptErrors /\ acceptErrors' = acceptErrors + 1
    /\ UNCHANGED <<at, keepAlive, active, accept_paused, open_connections, releases,
                   acceptorOpen, closePosted, wsVars, stopVars>>

\* Mutant: the acceptor is armed whether or not it was paused.
ResumeAlways(open) ==
    accept_paused' = FALSE /\ armed' = IF stopping THEN armed ELSE armed + 1

\* A paused acceptor accepts again.
Resume(open) ==
    IF accept_paused /\ ~stopping
    THEN /\ accept_paused' = AtCap(open)
         /\ armed' = IF AtCap(open) THEN armed ELSE armed + 1
    ELSE UNCHANGED <<accept_paused, armed>>

\* OnSessionClosed, posted by ~Session.
OnSessionClosed ==
    /\ ~ioStopped /\ releases > 0
    /\ releases' = releases - 1
    /\ open_connections' = open_connections - 1
    /\ Resume(open_connections - 1)
    /\ UNCHANGED <<at, keepAlive, active, acceptorOpen, closePosted, acceptErrors,
                   wsVars, stopVars>>

\* The close Shutdown posted.  Connections still in the backlog are reset.
CloseAcceptor ==
    /\ ~ioStopped /\ closePosted
    /\ closePosted' = FALSE /\ acceptorOpen' = FALSE
    /\ at' = [c \in Conns |-> IF at[c] = "backlog" THEN "away" ELSE at[c]]
    /\ UNCHANGED <<keepAlive, active, armed, accept_paused, open_connections, releases,
                   acceptErrors, wsVars, stopVars>>

----------------------------------------------------------------------------
\* The request cycle on a connection's strand.
Handshake(c) ==
    /\ ~ioStopped /\ at[c] = "handshake"
    /\ \/ Goto(c, "reading") /\ UNCHANGED acceptVars
       \/ Destroy(c)
    /\ UNCHANGED <<keepAlive, active, wsVars, stopVars>>

\* Mutant: a handler that runs inline is not counted.
DispatchPooledOnly(c) ==
    /\ active' = IF opts.handler_threads = 0 THEN active ELSE active + 1
    /\ \E keep \in BOOLEAN : keepAlive' = [keepAlive EXCEPT ![c] = keep /\ ~stopping]
    /\ Goto(c, IF opts.handler_threads = 0 THEN "writing" ELSE "queued")

\* Dispatch: inline without a pool (handler and Respond run in the read
\* handler itself), else posted to the pool.
Dispatch(c) ==
    /\ active' = active + 1
    /\ \E keep \in BOOLEAN : keepAlive' = [keepAlive EXCEPT ![c] = keep /\ ~stopping]
    /\ Goto(c, IF opts.handler_threads = 0 THEN "writing" ELSE "queued")

\* ReadNext's completion: over a limit, failed, an upgrade, or a request.
ReadNext(c) ==
    /\ ~ioStopped /\ at[c] = "reading"
    /\ \/ /\ Goto(c, "rejecting")
          /\ UNCHANGED <<keepAlive, active, acceptVars>>
       \/ /\ Destroy(c)             \* a failed read, or an upgrade while stopping
          /\ UNCHANGED <<keepAlive, active>>
       \/ /\ ServesWebSockets /\ ~stopping
          /\ Goto(c, "gateQueued")
          /\ UNCHANGED <<keepAlive, active, acceptVars>>
       \/ Dispatch(c) /\ UNCHANGED acceptVars
    /\ UNCHANGED <<wsVars, stopVars>>

\* RejectOverLimit's write, then DrainThenClose until the end, the deadline
\* or the byte budget.
RejectOverLimit(c) ==
    /\ ~ioStopped /\ at[c] = "rejecting"
    /\ \/ Goto(c, "draining") /\ UNCHANGED acceptVars
       \/ Destroy(c)
    /\ UNCHANGED <<keepAlive, active, wsVars, stopVars>>

DrainThenClose(c) ==
    /\ ~ioStopped /\ at[c] = "draining"
    /\ Destroy(c)
    /\ UNCHANGED <<keepAlive, active, wsVars, stopVars>>

\* The response the pool posted: Respond arms the write.
Respond(c) ==
    /\ ~ioStopped /\ at[c] = "answered"
    /\ Goto(c, "writing")
    /\ UNCHANGED <<keepAlive, active, acceptVars, wsVars, stopVars>>

\* WriteWire's completion: the request is no longer active; the connection
\* is read again only when the write succeeded and keep_alive was captured.
WriteWire(c) ==
    /\ ~ioStopped /\ at[c] = "writing"
    /\ active' = active - 1
    /\ keepAlive' = [keepAlive EXCEPT ![c] = FALSE]
    /\ \/ keepAlive[c] /\ Goto(c, "reading") /\ UNCHANGED acceptVars
       \/ Destroy(c)                \* the write failed, or keep-alive is off
    /\ UNCHANGED <<wsVars, stopVars>>

----------------------------------------------------------------------------
\* The handler pool.  A job that has not started is abandoned by stop().
Running == {c \in Conns : at[c] \in {"handling", "gating", "serving"}}

\* A pool thread takes a queued job.
RunJob(c) ==
    /\ ~poolStopped /\ Cardinality(Running) < opts.handler_threads
    /\ \/ at[c] = "queued" /\ Goto(c, "handling")
       \/ at[c] = "gateQueued" /\ Goto(c, "gating")
       \/ at[c] = "serveQueued" /\ Goto(c, "serving")
    /\ UNCHANGED <<keepAlive, active, acceptVars, wsVars, stopVars>>

\* InvokeHandlerGuarded returned (a throw is a 500); the answer is posted.
HandlerReturns(c) ==
    /\ at[c] = "handling"
    /\ Goto(c, "answered")
    /\ UNCHANGED <<keepAlive, active, acceptVars, wsVars, stopVars>>

\* InvokeGateGuarded returned (a throw is a 500 refusal).
GateReturns(c) ==
    /\ at[c] = "gating"
    /\ \/ Goto(c, "admitted")
       \/ opts.websocket_gate /\ Goto(c, "refused")
    /\ UNCHANGED <<keepAlive, active, acceptVars, wsVars, stopVars>>

\* Upgrade, back on the strand: no new stream while stopping; a refusal is
\* an ordinary tracked response; else CompleteUpgrade starts the handshake.
Upgrade(c) ==
    /\ ~ioStopped /\ at[c] \in {"admitted", "refused"}
    /\ IF stopping
       THEN Destroy(c) /\ UNCHANGED <<keepAlive, active>>
       ELSE \/ /\ at[c] = "refused"
               /\ active' = active + 1
               /\ \E keep \in BOOLEAN : keepAlive' = [keepAlive EXCEPT ![c] = keep]
               /\ Goto(c, "writing")
               /\ UNCHANGED acceptVars
            \/ /\ at[c] = "admitted" /\ Goto(c, "accepting")
               /\ UNCHANGED <<keepAlive, active, acceptVars>>
    /\ UNCHANGED <<wsVars, stopVars>>

\* The 101 completed or failed: its handler first looks at `stopping'.
CompleteUpgrade(c) ==
    /\ ~ioStopped /\ at[c] = "accepting"
    /\ \/ Destroy(c)                \* the handshake failed, or Stop began first
       \/ ~stopping /\ Goto(c, "registering") /\ UNCHANGED acceptVars
    /\ UNCHANGED <<keepAlive, active, wsVars, stopVars>>

\* Mutant: registration does not look whether the sweep has run.
RegisterWebSocketLate(c) ==
    /\ ~ioStopped /\ at[c] = "registering"
    /\ websockets' = websockets \union {c}
    /\ Goto(c, "serveQueued")
    /\ UNCHANGED <<keepAlive, active, acceptVars, failed, websockets_aborted, stopVars>>

\* RegisterWebSocket: the sweep has run and the session aborts itself, or it
\* joins the registry; either way the serve callback is posted.
RegisterWebSocket(c) ==
    /\ ~ioStopped /\ at[c] = "registering"
    /\ IF websockets_aborted
       THEN failed' = failed \union {c} /\ UNCHANGED websockets
       ELSE websockets' = websockets \union {c} /\ UNCHANGED failed
    /\ Goto(c, "serveQueued")
    /\ UNCHANGED <<keepAlive, active, acceptVars, websockets_aborted, stopVars>>

\* The wire ends a session that is up: the peer closed or the idle timeout.
SessionEnds(c) ==
    /\ ~ioStopped /\ at[c] \in {"serveQueued", "serving", "open"} /\ c \notin failed
    /\ failed' = failed \union {c}
    /\ UNCHANGED <<at, keepAlive, active, acceptVars, websockets, websockets_aborted,
                   stopVars>>

\* The serve callback returns.  A borrowed session is closed with it; a
\* shared one stays open for its holders.
ServeReturns(c) ==
    /\ at[c] = "serving"
    /\ Goto(c, "open")
    /\ failed' = IF opts.on_websocket THEN failed \union {c} ELSE failed
    /\ UNCHANGED <<keepAlive, active, acceptVars, websockets, websockets_aborted, stopVars>>

\* The pumps of a failed session wind down and the last holder lets go; the
\* registry's weak entry expires with it.
SessionDies(c) ==
    /\ ~ioStopped /\ at[c] = "open" /\ c \in failed
    /\ Destroy(c)
    /\ websockets' = websockets \ {c}
    /\ failed' = failed \ {c}
    /\ live' = live \ {c}
    /\ UNCHANGED <<keepAlive, active, websockets_aborted, stopping, poolStopped,
                   ioStopped, stopAt>>

----------------------------------------------------------------------------
\* Shutdown, one step per thing another thread can see.
StopStep(from, to) == stopAt = from /\ stopAt' = to

Shutdown ==
    /\ StopStep("up", "drain")
    /\ stopping' = TRUE
    /\ closePosted' = TRUE
    /\ UNCHANGED <<at, keepAlive, active, armed, accept_paused, open_connections, releases,
                   acceptorOpen, acceptErrors, wsVars, live, poolStopped, ioStopped>>

\* The drain loop ends: nothing is active, or the deadline passed.
DrainEnds(late) ==
    /\ StopStep("drain", "sweep")
    /\ active = 0 \/ late
    /\ UNCHANGED <<at, keepAlive, active, acceptVars, wsVars, stopping, live, poolStopped,
                   ioStopped>>

\* AbortWebSockets: the registry is copied under the lock ...
Sweep ==
    /\ StopStep("sweep", "abort")
    /\ websockets_aborted' = TRUE
    /\ live' = websockets
    /\ UNCHANGED <<at, keepAlive, active, acceptVars, failed, websockets, stopping,
                   poolStopped, ioStopped>>

\* ... and the copies are aborted outside it.
AbortWebSockets ==
    /\ StopStep("abort", "stopPool")
    /\ failed' = failed \union live
    /\ live' = {}
    /\ UNCHANGED <<at, keepAlive, active, acceptVars, websockets, websockets_aborted,
                   stopping, poolStopped, ioStopped>>

StopPool ==
    /\ StopStep("stopPool", "stopIo")
    /\ poolStopped' = TRUE
    /\ UNCHANGED <<at, keepAlive, active, acceptVars, wsVars, stopping, live, ioStopped>>

StopIo ==
    /\ StopStep("stopIo", "join")
    /\ ioStopped' = TRUE
    /\ UNCHANGED <<at, keepAlive, active, acceptVars, wsVars, stopping, live, poolStopped>>

\* The reaper joined every thread, or kJoinGrace passed and it was detached.
Join(graceExpired) ==
    /\ StopStep("join", "returned")
    /\ Running = {} \/ graceExpired
    /\ UNCHANGED <<at, keepAlive, active, acceptVars, wsVars, stopping, live, poolStopped,
                   ioStopped>>

----------------------------------------------------------------------------
\* What the io threads, the pool and Stop do by themselves.  Every read,
\* write, handshake and drain has a deadline, so its handler always runs.
IoStep(c) ==
    \/ AcceptConnection(c) \/ Handshake(c) \/ ReadNext(c) \/ RejectOverLimit(c)
    \/ DrainThenClose(c) \/ Respond(c) \/ WriteWire(c) \/ Upgrade(c)
    \/ CompleteUpgrade(c) \/ RegisterWebSocket(c) \/ SessionDies(c)
PoolStep(c) == RunJob(c) \/ HandlerReturns(c) \/ GateReturns(c)
StopNext == Sweep \/ AbortWebSockets \/ StopPool \/ StopIo
            \/ (\E late \in BOOLEAN : DrainEnds(late) \/ Join(late))

Step ==
    \/ \E c \in Conns : Connect(c) \/ IoStep(c) \/ PoolStep(c) \/ SessionEnds(c) \/ ServeReturns(c)
    \/ AcceptFails \/ OnSessionClosed \/ CloseAcceptor
    \/ Shutdown \/ StopNext

Next == Step /\ UNCHANGED opts

\* A serve callback returns once its session has failed: Send and Receive
\* then fail at once.  Handlers and gates are assumed to return.
Fairness ==
    /\ \A c \in Conns : /\ WF_vars(IoStep(c) /\ UNCHANGED opts)
                        /\ WF_vars(PoolStep(c) /\ UNCHANGED opts)
                        /\ WF_vars(ServeReturns(c) /\ c \in failed /\ UNCHANGED opts)
    /\ WF_vars(OnSessionClosed /\ UNCHANGED opts)
    /\ WF_vars(CloseAcceptor /\ UNCHANGED opts)
    /\ WF_vars(StopNext /\ UNCHANGED opts)

Spec == Init /\ [][Next]_vars /\ Fairness

----------------------------------------------------------------------------
\* The cap counts descriptors: open_connections is the sessions alive plus
\* the releases their destructors have posted, and never passes the cap.
\* The acceptor has one async_accept outstanding, or is paused at the cap,
\* or stopped for good by an error or by Shutdown: a second arming would
\* accept past the cap, a pause below it would never end.
AcceptLoop ==
    /\ TypeOK
    /\ open_connections = Cardinality({c \in Conns : at[c] \in HoldsSession}) + releases
    /\ opts.max_connections > 0 => open_connections <= opts.max_connections
    /\ armed <= 1
    /\ ~stopping => \/ armed = 1 /\ ~accept_paused
                    \/ armed = 0 /\ accept_paused /\ AtCap(open_connections)
                    \/ armed = 0 /\ ~accept_paused /\ acceptErrors > 0

\* `active' is what Shutdown drains: exactly the requests that were read and
\* whose response is not yet written, an upgrade's refusal included and an
\* upgrade or an over-limit rejection excluded.
ActiveIsUnanswered ==
    active = Cardinality({c \in Conns : at[c] \in {"queued", "handling", "answered", "writing"}})

\* Stop returns, and every pool thread ends even when the grace expired
\* first, so that the reaper can join it.
StopCompletes ==
    (stopAt = "drain") ~> (stopAt = "returned" /\ Running = {})
=============================================================================
