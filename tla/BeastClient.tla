---------------------------- MODULE BeastClient ----------------------------
(***************************************************************************)
(* The Beast HTTP client (pool, round trip, stale retry) under the retry   *)
(* loop every generated client sends through, and the handle of a dialed   *)
(* WebSocket with its private I/O thread.                                  *)
(*                                                                         *)
(* Callers are threads that each make one SendWithRetries call against the *)
(* same client.  The server and the network are the environment: it may    *)
(* drop a connection at any moment, and it answers the requests it read on *)
(* one connection in the order it read them, so a connection that goes     *)
(* back to the pool with an answer still owed hands that answer to the     *)
(* next caller.                                                            *)
(***************************************************************************)
EXTENDS Integers, Sequences, FiniteSets

CONSTANTS
  Callers,         \* threads with one call each
  Streaming,       \* those that hand their response body to a sink
  Conns,           \* identities a dialed connection may take
  Sockets,         \* dialed WebSocket handles
  Attempts,        \* the values of RetryPolicy::max_attempts to try
  MaxIdle,         \* Options::max_idle_connections
  Pieces,          \* windows a response body fills
  NoConn           \* a caller that holds no connection

ASSUME ClientAssumption ==
  /\ Streaming \subseteq Callers /\ Attempts \subseteq Nat /\ MaxIdle \in Nat /\ Pieces \in Nat
  /\ NoConn \notin Conns /\ IsFiniteSet(Callers) /\ IsFiniteSet(Conns)
  /\ Cardinality(Conns) >= Cardinality(Callers) + MaxIdle

VARIABLES
  policy,   \* max_attempts of this run's policy
  idle,     \* State::idle, the pooled connections; the last is taken first
  alive,    \* connections whose server end is open
  owed,     \* per connection, the requests the server owes an answer to
  call,     \* per caller, the frame of SendWithRetriesImpl and SendContained
  socket    \* per dialed WebSocket, its handle, thread and DialedIo

vars == <<policy, idle, alive, owed, call, socket>>

Outcomes == [ok : BOOLEAN, transient : BOOLEAN]
\* transient: a retryable status of an answer, retryable() of an error.

NoOutcome == [ok |-> FALSE, transient |-> FALSE]

\* RetryableStatus over the two classes of status the loop tells apart.
RetryableStatus(status) == status = "transient"

Larger(a, b) == IF a < b THEN b ELSE a

Held == {call[t].conn : t \in Callers} \ {NoConn}

Free == Conns \ (Held \cup {idle[i] : i \in DOMAIN idle})

-----------------------------------------------------------------------------
(* The frame of one call.  sends counts the requests an attempt wrote to a *)
(* wire, executed those the server acted on, sunk the pieces the sink holds*)
(* as <<answer, piece>>, edits the interceptor edits on the attempt's      *)
(* request, seen the attempts ReadAfterTransmit observed.                  *)
Frame(pc) ==
  [pc |-> pc, attempt |-> 1, conn |-> NoConn,
   reused |-> FALSE, sends |-> 0, executed |-> 0, streams |-> FALSE,
   answer |-> <<>>, piece |-> 0, sunk |-> <<>>, edits |-> 0, seen |-> 0,
   outcome |-> NoOutcome, streamedOk |-> FALSE]

SocketInit(pc) == [pc |-> pc, thread |-> "none", started |-> FALSE,
                   stopped |-> FALSE, refs |-> {}, freed |-> FALSE,
                   mode |-> "binary", sessionEnded |-> FALSE]

\* The two clients share nothing, so a process that sends requests and one
\* that dials sockets stand for a process that does both.
Init ==
  /\ policy \in Attempts
  /\ idle = <<>>
  /\ alive = {}
  /\ owed = [k \in Conns |-> <<>>]
  /\ \/ /\ call = [t \in Callers |-> Frame("attempt")]
        /\ socket = [s \in Sockets |-> SocketInit("unused")]
     \/ /\ call = [t \in Callers |-> Frame("unused")]
        /\ socket = [s \in Sockets |-> SocketInit("dial")]

\* A connection object is destroyed: both ends are gone.
Drop(k) ==
  /\ alive' = alive \ {k}
  /\ owed' = [owed EXCEPT ![k] = <<>>]

\* The answer at the front was read to its end.
Answered(k) == [owed EXCEPT ![k] = SubSeq(@, 2, Len(@))]

\* The attempt ends with an error; the unique_ptr drops the connection.
Fails(t, retryable) ==
  /\ call' = [call EXCEPT ![t] = [@ EXCEPT !.pc = "outcome", !.conn = NoConn,
                     !.answer = <<>>, !.piece = 0, !.streams = FALSE, !.reused = FALSE,
                     !.outcome = [ok |-> FALSE, transient |-> retryable]]]
  /\ UNCHANGED idle
  /\ IF call[t].conn \in Conns THEN Drop(call[t].conn) ELSE UNCHANGED <<alive, owed>>

-----------------------------------------------------------------------------
(* SendContained: the guards that refuse a request, then the pool.         *)
Refused(t) ==
  /\ call[t].pc = "attempt"
  /\ call' = [call EXCEPT ![t] = [@ EXCEPT !.pc = "outcome", !.edits = 1,
                                           !.outcome = NoOutcome]]
  /\ UNCHANGED <<idle, alive, owed>>

TakeIdleAccumulating(t) ==
  /\ call[t].pc = "attempt"
  /\ idle # <<>>
  /\ call' = [call EXCEPT ![t] = [@ EXCEPT !.pc = "write", !.edits = call[t].edits + 1, !.reused = TRUE,
                                           !.conn = idle[Len(idle)]]]
  /\ idle' = SubSeq(idle, 1, Len(idle) - 1)
  /\ UNCHANGED <<alive, owed>>

TakeIdle(t) ==
  /\ call[t].pc = "attempt"
  /\ idle # <<>>
  /\ call' = [call EXCEPT ![t] = [@ EXCEPT !.pc = "write", !.edits = 1, !.reused = TRUE,
                                           !.conn = idle[Len(idle)]]]
  /\ idle' = SubSeq(idle, 1, Len(idle) - 1)
  /\ UNCHANGED <<alive, owed>>

NoneIdle(t) ==
  /\ call[t].pc = "attempt"
  /\ idle = <<>>
  /\ call' = [call EXCEPT ![t] = [@ EXCEPT !.pc = "dial", !.edits = 1, !.reused = FALSE]]
  /\ UNCHANGED <<idle, alive, owed>>

\* Resolving, connecting and, under TLS, the handshake: only a failed
\* handshake (or a TLS set-up error) is not worth another attempt.
Dial(t) ==
  /\ call[t].pc = "dial"
  /\ \/ LET k == CHOOSE k \in Free : TRUE      \* a new connection; which is immaterial
        IN
          /\ call' = [call EXCEPT ![t] = [@ EXCEPT !.pc = "write", !.conn = k,
                                                   !.reused = FALSE]]
          /\ alive' = alive \cup {k}
          /\ owed' = [owed EXCEPT ![k] = <<>>]
          /\ UNCHANGED idle
     \/ \E retryable \in BOOLEAN : Fails(t, retryable)

-----------------------------------------------------------------------------
(* RoundTrip.  A stale connection is retried once on a fresh dial, and only*)
(* when it came from the pool.                                             *)
Stale(t) ==
  /\ call[t].reused
  /\ call' = [call EXCEPT ![t] = [@ EXCEPT !.pc = "dial", !.conn = NoConn, !.reused = FALSE]]
  /\ Drop(call[t].conn)
  /\ UNCHANGED idle

Write(t) ==
  LET k == call[t].conn
  IN  /\ call[t].pc = "write"
      /\ \/ /\ call' = [call EXCEPT ![t] = [@ EXCEPT !.pc = "header", !.sends = call[t].sends + 1]]
            /\ owed' = IF k \in alive
                       THEN [owed EXCEPT ![k] = Append(@, <<t, call[t].attempt, call[t].sends + 1>>)]
                       ELSE owed
            /\ UNCHANGED <<idle, alive>>
         \/ Stale(t)
         \/ ~call[t].reused /\ Fails(t, TRUE)

\* The header arrives: the sink is asked, unless the loop may retry and the
\* status is transient; a declared length over the cap ends it unread.
Header(t) ==
  LET k == call[t].conn
  IN  /\ call[t].pc = "header"
      /\ k \in alive /\ owed[k] # <<>>
      /\ \E status \in {"final", "transient"}, accept \in BOOLEAN, over \in BOOLEAN :
           LET streams == /\ t \in Streaming /\ accept
                          /\ policy > 1 => ~RetryableStatus(status)
           IN  /\ accept => t \in Streaming
               /\ over => ~streams
               /\ IF over
                  THEN Fails(t, FALSE)
                  ELSE /\ call' = [call EXCEPT ![t] =
                            [@ EXCEPT !.pc = "body", !.streams = streams, !.piece = 0,
                                      !.answer = Head(owed[k]),
                                      !.executed = call[t].executed + 1,
                                      !.outcome = [ok |-> TRUE,
                                        transient |-> RetryableStatus(status)]]]
                       /\ UNCHANGED <<idle, alive, owed>>

\* No header: nothing of the answer arrived (stale, unless it is the
\* deadline) or part of it did.  The server may have acted on the request
\* before the connection was lost.
HeaderFails(t) ==
  LET k == call[t].conn
  IN  /\ call[t].pc = "header"
      /\ \E acted \in BOOLEAN, how \in {"reset", "timeout", "partial"} :
           /\ acted => k \in alive /\ owed[k] # <<>>
           /\ LET executed == call[t].executed + (IF acted THEN 1 ELSE 0)
              IN  \/ /\ how = "reset" /\ call[t].reused
                     /\ call' = [call EXCEPT ![t] = [@ EXCEPT !.pc = "dial",
                                    !.conn = NoConn, !.reused = FALSE, !.executed = executed]]
                  \/ /\ how = "reset" => ~call[t].reused
                     /\ call' = [call EXCEPT ![t] = [@ EXCEPT !.pc = "outcome",
                                    !.conn = NoConn, !.reused = FALSE, !.executed = executed,
                                    !.outcome = [ok |-> FALSE, transient |-> TRUE]]]
           /\ Drop(k)
           /\ UNCHANGED idle

\* One window of the body, to the sink or into the buffer.
BodyPiece(t) ==
  /\ call[t].pc = "body"
  /\ call[t].piece < Pieces
  /\ \/ /\ call' = [call EXCEPT ![t] = [@ EXCEPT !.piece = call[t].piece + 1,
              !.sunk = IF call[t].streams
                       THEN Append(call[t].sunk, <<call[t].answer, call[t].piece + 1>>)
                       ELSE call[t].sunk]]
        /\ UNCHANGED <<idle, alive, owed>>
     \/ Fails(t, FALSE)      \* the sink aborts, or the buffer passes the cap

BodyFailsRetryably(t) ==
  /\ call[t].pc = "body"
  /\ call[t].piece < Pieces
  /\ Fails(t, TRUE)

\* A read failure mid-body is retryable until the sink has taken a piece.
BodyFails(t) ==
  /\ call[t].pc = "body"
  /\ call[t].piece < Pieces
  /\ Fails(t, ~(call[t].streams /\ call[t].piece > 0))

\* An exception on the way out is contained: retryable for Send, final for
\* SendStreaming, whose sink may be what threw.
Contained(t) ==
  /\ call[t].pc \in {"dial", "write", "header", "body"}
  /\ Fails(t, t \notin Streaming)

\* A bug's shape: the connection is pooled before its body was drained.
ReturnIdleEarly(t) ==
  LET k == call[t].conn
  IN  /\ call[t].pc = "body"
      /\ call' = [call EXCEPT ![t] = [@ EXCEPT !.pc = "outcome", !.conn = NoConn]]
      /\ idle' = Append(idle, k)
      /\ owed' = IF call[t].piece = Pieces THEN Answered(k) ELSE owed
      /\ UNCHANGED alive

\* The whole answer was read: the connection goes back to the pool when the
\* answer keeps it alive and there is room, and is closed otherwise.
ReturnIdle(t) ==
  LET k == call[t].conn
  IN  /\ call[t].pc = "body"
      /\ call[t].piece = Pieces
      /\ call' = [call EXCEPT ![t] = [@ EXCEPT !.pc = "outcome", !.conn = NoConn,
                     !.answer = <<>>, !.piece = 0, !.streams = FALSE, !.reused = FALSE,
                     !.streamedOk = call[t].streams]]
      /\ \/ /\ Len(idle) < MaxIdle
            /\ idle' = Append(idle, k)
            /\ owed' = Answered(k)
            /\ UNCHANGED alive
         \/ /\ UNCHANGED idle
            /\ Drop(k)

-----------------------------------------------------------------------------
(* SendWithRetriesImpl: observe the attempt, then return or wait and retry.*)
Retry(t) ==
  LET o == call[t].outcome
  IN  /\ call[t].pc = "outcome"
      /\ \/ /\ call[t].attempt < policy /\ o.transient
            /\ call' = [call EXCEPT ![t] =
                   [@ EXCEPT !.pc = "attempt", !.attempt = call[t].attempt + 1,
                             !.seen = call[t].seen + 1,
                             !.sends = 0, !.executed = 0, !.outcome = NoOutcome]]
         \/ /\ ~(call[t].attempt < policy /\ o.transient)
            /\ call' = [call EXCEPT ![t] = [@ EXCEPT !.pc = "done", !.seen = call[t].seen + 1]]
      /\ UNCHANGED <<idle, alive, owed>>

\* The environment: the server end of a connection goes away.
ServerDrops(k) ==
  /\ k \in alive
  /\ alive' = alive \ {k}
  /\ owed' = [owed EXCEPT ![k] = <<>>]
  /\ UNCHANGED <<idle, call>>

CallStep(t) ==
  \/ Refused(t) \/ TakeIdle(t) \/ NoneIdle(t) \/ Dial(t)
  \/ Write(t) \/ Header(t) \/ HeaderFails(t)
  \/ BodyPiece(t) \/ BodyFails(t) \/ Contained(t) \/ ReturnIdle(t) \/ Retry(t)

-----------------------------------------------------------------------------
(* BeastWebSocketClient::Dial and FinishDial.  A refusal at any stage frees*)
(* the connection on the dialing thread; success starts the I/O thread.    *)
DialFails(s) ==
  /\ socket[s].pc = "dial"
  /\ socket' = [socket EXCEPT ![s] = [@ EXCEPT !.pc = "refused", !.freed = TRUE]]

\* options.raw_text_frames, options.offer_json_frames and the server's echo:
\* both options together, and an echo that was not offered, are refused.
FinishDial(s) ==
  /\ socket[s].pc = "dial"
  /\ \E raw \in BOOLEAN, offered \in BOOLEAN, echoed \in BOOLEAN :
       /\ ~(raw /\ offered)
       /\ echoed => offered
       /\ socket' = [socket EXCEPT ![s] =
            [@ EXCEPT !.pc = "open", !.thread = "running", !.refs = {"handle", "thread"},
                      !.mode = IF raw THEN "raw" ELSE IF echoed THEN "json" ELSE "binary"]]

\* The posted Start runs on the I/O thread.
IoStart(s) ==
  /\ socket[s].thread = "running"
  /\ ~socket[s].started /\ ~socket[s].stopped
  /\ socket' = [socket EXCEPT ![s].started = TRUE]

DestroyJoins(s, on) ==
  /\ socket[s].pc = "open"
  /\ on = "io" => socket[s].thread = "running" /\ socket[s].started
  /\ socket' = [socket EXCEPT ![s] =
       [@ EXCEPT !.stopped = TRUE, !.sessionEnded = TRUE, !.pc = "joining",
                 !.thread = IF on = "io" THEN "self-join" ELSE @]]

\* ~DialedWebSocket: abort, stop, then join or, on the I/O thread, detach.
Destroy(s, on) ==
  /\ socket[s].pc = "open"
  /\ on = "io" => socket[s].thread = "running" /\ socket[s].started
  /\ socket' = [socket EXCEPT ![s] =
       [@ EXCEPT !.stopped = TRUE, !.sessionEnded = TRUE,
                 !.pc = IF on = "io" THEN "released" ELSE "joining",
                 !.refs = IF on = "io" THEN socket[s].refs \ {"handle"} ELSE socket[s].refs]]

Joined(s) ==
  /\ socket[s].pc = "joining"
  /\ socket[s].thread = "ended"
  /\ socket' = [socket EXCEPT ![s] =
       [@ EXCEPT !.pc = "released", !.refs = socket[s].refs \ {"handle"},
                 !.freed = (socket[s].refs = {"handle"})]]

IoEndsUnshared(s) ==
  /\ socket[s].thread = "running"
  /\ socket[s].pc = "released" \/ socket[s].stopped
  /\ socket' = [socket EXCEPT ![s] = [@ EXCEPT !.thread = "ended", !.freed = TRUE]]

\* run() returns once stopped; the thread drops its reference to DialedIo.
IoEnds(s) ==
  /\ socket[s].thread = "running"
  /\ socket[s].stopped
  /\ socket' = [socket EXCEPT ![s] =
       [@ EXCEPT !.thread = "ended", !.refs = socket[s].refs \ {"thread"},
                 !.freed = (socket[s].refs = {"thread"})]]

SocketStep(s) ==
  \/ DialFails(s) \/ FinishDial(s) \/ IoStart(s) \/ Joined(s) \/ IoEnds(s)
  \/ \E on \in {"io", "app"} : Destroy(s, on)

Next ==
  \/ /\ \/ \E t \in Callers : CallStep(t)
        \/ \E k \in Conns : ServerDrops(k)
     /\ UNCHANGED <<policy, socket>>
  \/ /\ \E s \in Sockets : SocketStep(s)
     /\ UNCHANGED <<policy, idle, alive, owed, call>>

\* Every operation of a caller is bounded by request_timeout_ms, and its
\* thread runs; the I/O thread and the thread in join() run too.  When the
\* server drops a connection, or whether it does, is up to it, and so is
\* when the application lets go of a handle.
Fairness ==
  /\ \A t \in Callers : WF_vars(CallStep(t) /\ UNCHANGED <<policy, socket>>)
  /\ \A s \in Sockets :
       WF_vars((Joined(s) \/ IoEnds(s) \/ IoStart(s))
                 /\ UNCHANGED <<policy, idle, alive, owed, call>>)

Spec == Init /\ [][Next]_vars /\ Fairness

-----------------------------------------------------------------------------
Done(t) == call[t].pc = "done"

\* A pooled connection has one owner, the pool or a caller, the pool stays
\* within max_idle_connections, and nothing is owed on a connection in it:
\* so the answer a caller reads is always the answer to its own last send
\* (SendContained returns a connection only after RoundTrip read a whole
\* response).
PoolIsolation ==
  /\ Len(idle) <= MaxIdle
  /\ Cardinality({idle[i] : i \in DOMAIN idle}) = Len(idle)
  /\ Held \cap {idle[i] : i \in DOMAIN idle} = {}
  /\ \A t, u \in Callers : call[t].conn = call[u].conn /\ t # u => call[t].conn = NoConn
  /\ \A i \in DOMAIN idle : owed[idle[i]] = <<>>
  /\ \A t \in Callers : call[t].pc = "body" => call[t].answer = <<t, call[t].attempt, call[t].sends>>

\* What the sink holds is the body of one response, in order and from its
\* start, whatever was retried below or above it; and a call that succeeded
\* through the sink delivered the whole body (BodySink's contract in
\* RoundTrip and SendWithRetriesImpl).
SinkSeesOneBody ==
  \A t \in Callers :
    LET s == call[t].sunk
    IN  /\ \A i \in DOMAIN s : s[i] = <<s[1][1], i>>
        /\ Done(t) /\ call[t].streamedOk => Len(s) = Pieces

\* The retry loop: never more than max_attempts, and all of them while the
\* outcome stays transient; each attempt is observed once and carries one copy
\* of the interceptors' edits; at most two requests go out per attempt, and
\* the server acts on no more than went out (SendWithRetriesImpl,
\* SendContained).
RetryDiscipline ==
  \A t \in Callers :
    /\ call[t].attempt <= Larger(policy, 1)
    /\ call[t].sends <= 2
    /\ call[t].executed <= call[t].sends
    /\ call[t].edits <= 1
    /\ call[t].seen = call[t].attempt - (IF Done(t) THEN 0 ELSE 1)
    /\ Done(t) /\ call[t].outcome.transient => call[t].attempt = Larger(policy, 1)

\* What ADR-0007 promises of the transparent redial: it "only happens when the
\* request bytes could not have been processed", so the server acts on one
\* request of an attempt at most.  SendContained redials on any loss before a
\* response byte, also of a request the server acted on (the run
\* client_redial).
RedialOnlyUnprocessed == \A t \in Callers : call[t].executed <= 1

\* DialedIo is freed only after its I/O thread ended and its handle is gone,
\* and the session ended before it (~DialedWebSocket, members of DialedIo).
IoOutlivesItsUsers ==
  \A s \in Sockets :
    socket[s].freed =>
      /\ socket[s].refs = {}
      /\ socket[s].thread \in {"none", "ended"}
      /\ socket[s].thread = "ended" => socket[s].sessionEnded

\* Every call returns, and a dialed handle whose destructor began gets rid
\* of its thread and its I/O machinery, even on that very thread
\* (request deadlines of RoundTrip and Dial; ~DialedWebSocket's detach).
CallsAndDestructorsReturn ==
  /\ \A t \in Callers : <>(Done(t) \/ call[t].pc = "unused")
  /\ \A s \in Sockets :
       socket[s].stopped ~> socket[s].pc = "released" /\ socket[s].freed
=============================================================================
