---------------------------- MODULE EventStreams ----------------------------
(***************************************************************************)
(* One event-stream session as the server drives it: the stream and the    *)
(* handles Share() mints (event_stream.h), the coroutine awaitables        *)
(* (async_event_stream.h), the JSON-RPC wrapper that polices inbound       *)
(* frames (jsonrpc_stream_socket.cc), and the serve routes generated for a *)
(* streaming operation (here: examples/chat/generated/src/server.cc).      *)
(*                                                                         *)
(* The loop is the serve route: a coroutine on the transport's io threads  *)
(* that owns its session, or a handler on a pool thread that borrows it.   *)
(* Handles are application threads that send and close through the shared  *)
(* view.  The socket is the WebSocket contract (websocket.h): one receive  *)
(* and one send outstanding, a second async send refused, a second         *)
(* blocking one waiting, Close completing both; WsSession and WsPair are   *)
(* its implementations.  Events are left out but for what decides the      *)
(* control: how an inbound frame is classified.                            *)
(***************************************************************************)
EXTENDS Naturals, FiniteSets

CONSTANTS
    Handles,      \* handles in use at the same time
    HandleOps,    \* bound on the operations each handle starts
    LoopOps       \* bound on the receives and sends the handler makes

ASSUME StreamsAssumption ==
    /\ HandleOps \in Nat /\ LoopOps \in Nat
    /\ IsFiniteSet(Handles) /\ Handles \intersect {"none", "loop", "police"} = {}

\* What the wire hands a receive.  "violation" is a frame the JSON-RPC codec
\* refuses, or a response envelope from the client.
Frames == {"event", "invalid", "undecodable", "violation", "timeout"}
\* What a completion reports.
Results == Frames \union {"none", "ok", "closed", "error", "refused"}

VARIABLES
    owned,        \* the stream owns its socket (async seam) or borrows it
    jsonrpc,      \* the socket wears a JsonRpcStreamSocket
    loop,         \* where the serve route is
    await,        \* the operation the loop waits for
    arrived,      \* whose exchange of arrived_ has happened
    inFrame,      \* threads executing the coroutine's frame
    result,       \* the outcome the awaitable stored
    loopOps, opsLeft,
    receiving,    \* a receive is parked on the socket
    sending,      \* who owns the outstanding send, or "none"
    closed,       \* the socket's close was requested, or the peer's arrived
    view,         \* the shared view's pointer is still set
    active,       \* pinned operations
    at,           \* where each handle's operation is
    answered      \* "none", or what became of the violation's terminal error

socketVars == <<receiving, sending, closed>>
loopVars == <<loop, await, arrived, inFrame, result, loopOps>>
handleVars == <<at, opsLeft>>
viewVars == <<view, active>>
vars == <<owned, jsonrpc, loopVars, socketVars, viewVars, handleVars, answered>>

\* loop: "body" runs the handler, "awaiting" an operation, "policing" the
\* wrapper's terminal error, "failing" the exception frame, then stream.Close
\* and the stream's destructor (SharedViewOwner::End).
LoopStates == {"body", "awaiting", "policing", "failing", "closing", "revoking", "draining", "done"}
HandleStates == {"idle", "held", "blocked", "sending", "async"}
Owners == {"none", "loop", "police"} \union Handles

TypeOK ==
    /\ {owned, jsonrpc, receiving, closed, view} \subseteq BOOLEAN
    /\ loop \in LoopStates
    /\ await \in {"none", "receive", "send", "exception"}
    /\ arrived \subseteq {"suspend", "callback"}
    /\ inFrame \in 0..1
    /\ result \in Results
    /\ loopOps \in 0..LoopOps /\ opsLeft \in [Handles -> 0..HandleOps]
    /\ sending \in Owners
    /\ active \in 0..Cardinality(Handles)
    /\ at \in [Handles -> HandleStates]
    /\ answered \in {"none", "ok", "error", "refused"}

\* The route has parsed and validated its input and shared the stream.
Init ==
    /\ owned \in BOOLEAN /\ jsonrpc \in BOOLEAN
    /\ loop = "body" /\ await = "none" /\ arrived = {} /\ inFrame = 1 /\ result = "none"
    /\ loopOps = LoopOps /\ opsLeft = [h \in Handles |-> HandleOps]
    /\ receiving = FALSE /\ sending = "none" /\ closed = FALSE
    /\ view = TRUE /\ active = 0
    /\ at = [h \in Handles |-> "idle"]
    /\ answered = "none"

----------------------------------------------------------------------------
\* The serve loop.

\* await_suspend: the operation is issued.  A coroutine is still in its
\* frame until its own exchange; a pool thread simply blocks in the call.
Await(kind) ==
    /\ loop' = IF kind = "exception" THEN "failing" ELSE "awaiting"
    /\ await' = kind
    /\ result' = "none"
    /\ arrived' = IF owned THEN {} ELSE {"suspend"}
    /\ inFrame' = IF owned THEN inFrame ELSE 0

\* Mutant: the completion resumes whoever came first.
CompleteResumes(outcome) ==
    /\ result' = outcome
    /\ arrived' = arrived \union {"callback"}
    /\ inFrame' = inFrame + 1

\* The completion's half of the race: it stores the outcome, then resumes
\* the coroutine only when it is the second to arrive.
Complete(outcome) ==
    /\ result' = outcome
    /\ arrived' = arrived \union {"callback"}
    /\ inFrame' = IF "suspend" \in arrived THEN inFrame + 1 ELSE inFrame

\* The suspending half: it suspends iff the callback has not run.
AwaitSuspend ==
    /\ await # "none" /\ "suspend" \notin arrived
    /\ arrived' = arrived \union {"suspend"}
    /\ inFrame' = IF "callback" \in arrived THEN inFrame ELSE inFrame - 1
    /\ UNCHANGED <<loop, await, result, loopOps, socketVars, viewVars, handleVars, answered>>

\* stream.Receive().
Receive ==
    /\ loop = "body" /\ loopOps > 0
    /\ loopOps' = loopOps - 1
    /\ Await("receive")
    /\ receiving' = TRUE
    /\ UNCHANGED <<sending, closed, viewVars, handleVars, answered>>

\* The loop's send: an async one is refused while another is outstanding
\* (the completion runs inline), a blocking one takes the slot in its turn.
LoopSend(kind) ==
    \/ /\ sending = "none"
       /\ Await(kind)
       /\ sending' = "loop"
    \/ /\ sending # "none" /\ owned
       /\ loop' = IF kind = "exception" THEN "failing" ELSE "awaiting"
       /\ await' = kind /\ result' = "refused" /\ arrived' = {"callback"}
       /\ UNCHANGED <<inFrame, sending>>

\* stream.Send(event); an encoder's failure completes without suspending.
Send ==
    /\ loop = "body" /\ loopOps > 0
    /\ loopOps' = loopOps - 1
    /\ LoopSend("send")
    /\ UNCHANGED <<receiving, closed, viewVars, handleVars, answered>>

\* Mutant: the exception frame is sent and not awaited.
HandlerFailsUnawaited ==
    /\ loop = "body" /\ sending = "none"
    /\ sending' = "loop" /\ loop' = "closing"
    /\ UNCHANGED <<await, arrived, inFrame, result, loopOps, receiving, closed, viewVars,
                   handleVars, answered>>

\* The handler co_returns: a failure is framed and its send is awaited.
HandlerFails ==
    /\ loop = "body"
    /\ LoopSend("exception")
    /\ UNCHANGED <<loopOps, receiving, closed, viewVars, handleVars, answered>>

HandlerReturns ==
    /\ loop = "body"
    /\ loop' = "closing"
    /\ UNCHANGED <<await, arrived, inFrame, result, loopOps, socketVars, viewVars, handleVars,
                   answered>>

\* ClassifyInbound, for the server's end: what the caller is given, and
\* whether the session is fatal to police first.
Fatal(frame) == jsonrpc /\ frame = "violation"
ClassifyInbound(frame) == IF Fatal(frame) THEN "error" ELSE frame

\* A receive completes with a frame, or with the session's end once closed.
\* Without the wrapper a violation is one more undecodable message.
ReceiveCompletes(frame) ==
    /\ receiving /\ loop = "awaiting"
    /\ frame = "closed" => closed
    /\ receiving' = FALSE
    /\ \/ /\ ~Fatal(frame)
          /\ Complete(ClassifyInbound(frame))
          /\ UNCHANGED <<loop, sending, closed, answered>>
       \/ /\ Fatal(frame) /\ sending = "none"          \* the terminal error goes first
          /\ loop' = "policing" /\ sending' = "police"
          /\ UNCHANGED <<arrived, inFrame, result, closed, answered>>
       \/ /\ Fatal(frame) /\ sending # "none" /\ owned  \* refused: closed unanswered
          /\ closed' = TRUE /\ answered' = "refused"
          /\ Complete(ClassifyInbound(frame))
          /\ UNCHANGED <<loop, sending>>
    /\ UNCHANGED <<await, loopOps, viewVars, handleVars>>

\* The terminal error's completion closes the session, then hands the
\* violation to whoever awaited the receive.
PoliceCompletes(outcome) ==
    /\ loop = "policing" /\ sending = "police"
    /\ outcome = "error" => closed
    /\ sending' = "none"
    /\ answered' = outcome
    /\ closed' = TRUE
    /\ loop' = "awaiting"
    /\ Complete("error")
    /\ UNCHANGED <<await, loopOps, receiving, viewVars, handleVars>>

LoopSendCompletes(outcome) ==
    /\ sending = "loop"
    /\ outcome = "error" => closed
    /\ sending' = "none"
    /\ Complete(outcome)
    /\ UNCHANGED <<loop, await, loopOps, receiving, closed, viewVars, handleVars, answered>>

\* await_resume: both halves have arrived.  A message the decoder rejects
\* closes the session unless it only broke a constraint (SparesSession).
Decode(outcome) == outcome \in {"undecodable", "violation"}

AwaitResume ==
    /\ await # "none" /\ arrived = {"suspend", "callback"} /\ loop \in {"awaiting", "failing"}
    /\ await' = "none" /\ arrived' = {} /\ result' = "none"
    /\ loop' = IF await = "exception" THEN "closing" ELSE "body"
    /\ closed' = (closed \/ (await = "receive" /\ Decode(result)))
    /\ UNCHANGED <<inFrame, loopOps, receiving, sending, viewVars, handleVars, answered>>

\* stream.Close(), at the end of the route.
StreamClose ==
    /\ loop = "closing"
    /\ closed' = TRUE
    /\ loop' = "revoking"
    /\ UNCHANGED <<await, arrived, inFrame, result, loopOps, receiving, sending, viewVars,
                   handleVars, answered>>

\* SharedViewOwner::End: null the pointer, close the socket, ...
End ==
    /\ loop = "revoking"
    /\ view' = FALSE
    /\ closed' = TRUE
    /\ loop' = "draining"
    /\ UNCHANGED <<await, arrived, inFrame, result, loopOps, receiving, sending, active,
                   handleVars, answered>>

\* ... and wait for every pin; then the borrow ends, or the reference drops.
EndDrained ==
    /\ loop = "draining" /\ active = 0
    /\ loop' = "done" /\ inFrame' = 0
    /\ UNCHANGED <<await, arrived, result, loopOps, socketVars, viewVars, handleVars, answered>>

----------------------------------------------------------------------------
\* Handles.

\* Mutant: the pointer is copied out without a pin.
AcquireUnpinned(h) ==
    /\ at[h] = "idle" /\ opsLeft[h] > 0 /\ view
    /\ opsLeft' = [opsLeft EXCEPT ![h] = @ - 1]
    /\ at' = [at EXCEPT ![h] = "held"]
    /\ active' = active
    /\ UNCHANGED <<loopVars, socketVars, view, answered>>

\* Acquire: nothing once the view is revoked; a pin on a borrowed socket, a
\* reference to an owned one.
Acquire(h) ==
    /\ at[h] = "idle" /\ opsLeft[h] > 0
    /\ opsLeft' = [opsLeft EXCEPT ![h] = @ - 1]
    /\ IF view
       THEN at' = [at EXCEPT ![h] = "held"] /\ active' = IF owned THEN active ELSE active + 1
       ELSE UNCHANGED <<at, active>>
    /\ UNCHANGED <<loopVars, socketVars, view, answered>>

\* Mutant: a call that finds the session closed returns without its release.
ReleaseUnlessClosed(h) ==
    /\ at' = [at EXCEPT ![h] = "idle"]
    /\ active' = IF owned \/ closed THEN active ELSE active - 1

Release(h) ==
    /\ at' = [at EXCEPT ![h] = "idle"]
    /\ active' = IF owned THEN active ELSE active - 1

\* EventStreamHandle::Send waits for its turn; SendAsync takes the slot or is
\* refused inline; Close and Kick close the socket.
HandleSend(h) ==
    /\ at[h] = "held"
    /\ at' = [at EXCEPT ![h] = "blocked"]
    /\ UNCHANGED <<loopVars, socketVars, viewVars, opsLeft, answered>>

HandleTurn(h) ==
    /\ at[h] = "blocked" /\ sending = "none" /\ ~closed
    /\ at' = [at EXCEPT ![h] = "sending"]
    /\ sending' = h
    /\ UNCHANGED <<loopVars, receiving, closed, viewVars, opsLeft, answered>>

HandleSendAsync(h) ==
    /\ at[h] = "held"
    /\ \/ /\ sending = "none" /\ ~closed
          /\ at' = [at EXCEPT ![h] = "async"] /\ sending' = h
          /\ UNCHANGED active
       \/ /\ sending # "none" \/ closed
          /\ Release(h) /\ UNCHANGED sending
    /\ UNCHANGED <<loopVars, receiving, closed, view, opsLeft, answered>>

HandleClose(h) ==
    /\ at[h] = "held"
    /\ closed' = TRUE
    /\ Release(h)
    /\ UNCHANGED <<loopVars, receiving, sending, view, opsLeft, answered>>

\* A handle's send ends: on the wire, or failed by the close.
HandleSendCompletes(h) ==
    /\ at[h] \in {"sending", "async"} \/ (at[h] = "blocked" /\ closed)
    /\ sending' = IF sending = h THEN "none" ELSE sending
    /\ Release(h)
    /\ UNCHANGED <<loopVars, receiving, closed, view, opsLeft, answered>>

\* The peer closes, or the wire fails.
PeerCloses ==
    /\ ~closed /\ loop # "done"
    /\ closed' = TRUE
    /\ UNCHANGED <<loopVars, receiving, sending, viewVars, handleVars, answered>>

----------------------------------------------------------------------------
LoopStep == \/ Receive \/ Send \/ HandlerFails \/ HandlerReturns \/ AwaitSuspend \/ AwaitResume
            \/ StreamClose \/ End \/ EndDrained
Completion ==
    \/ \E frame \in Frames \union {"closed"} : ReceiveCompletes(frame)
    \/ \E outcome \in {"ok", "error"} : PoliceCompletes(outcome) \/ LoopSendCompletes(outcome)
    \/ \E h \in Handles : HandleSendCompletes(h)
HandleStep(h) == Acquire(h) \/ HandleSend(h) \/ HandleTurn(h) \/ HandleSendAsync(h) \/ HandleClose(h)

Next == /\ LoopStep \/ Completion \/ PeerCloses \/ \E h \in Handles : HandleStep(h)
        /\ UNCHANGED <<owned, jsonrpc>>

\* Threads run; a peer that does not read or write may hold an operation
\* for ever, but not once the socket is closed.
Fairness ==
    /\ WF_vars(LoopStep /\ UNCHANGED <<owned, jsonrpc>>)
    /\ WF_vars(closed /\ Completion /\ UNCHANGED <<owned, jsonrpc>>)
    /\ \A h \in Handles : WF_vars(HandleStep(h) /\ UNCHANGED <<owned, jsonrpc>>)

Spec == Init /\ [][Next]_vars /\ Fairness

----------------------------------------------------------------------------
\* A borrowed socket outlives every handle operation inside it: when End has
\* returned, no handle is in a call and none can start one.
NoUseAfterEnd ==
    /\ TypeOK
    /\ loop = "done" /\ ~owned => \A h \in Handles : at[h] = "idle"

\* A coroutine is never executed by two threads, and a frame that has ended
\* has no exchange left to make: of the completion and the suspension
\* exactly the second resumes it, with the outcome already stored.
ResumedOnce ==
    /\ inFrame = 0 <=> \/ loop = "done"
                       \/ loop \in {"awaiting", "policing", "failing"}
                             /\ "suspend" \in arrived /\ "callback" \notin arrived
    /\ loop \in {"body", "closing", "revoking", "draining", "done"} => await = "none"
    /\ arrived = {"suspend", "callback"} => result # "none"

\* The route never closes over its own frame: by the time it closes, the
\* exception or the terminal error it sent has completed; and whatever became
\* of a violation's terminal error, sent, failed or refused, the session is
\* closed.
ClosesOverNoFrame ==
    /\ loop \in {"closing", "revoking", "draining", "done"} => sending \notin {"loop", "police"}
    /\ answered # "none" => closed

\* What JsonRpcStreamSocket's comment promises of a violation: the server
\* "answers the reserved-code terminal error for the opening id BEFORE
\* closing", so the wrapper ends an open session only past a sent answer.
\* PoliceAsync closes it unanswered when the send is refused (the run
\* streams_terminal).
TerminalBeforeClose ==
    [][answered' # answered /\ ~closed => answered' = "ok"]_vars

\* The stream's destructor returns: closing the socket fails every handle
\* operation inside it, and each gives its pin back.
EndReturns == (loop = "revoking") ~> (loop = "done")
=============================================================================
