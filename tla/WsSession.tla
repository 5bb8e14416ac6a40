----------------------------- MODULE WsSession ------------------------------
(* The wire session, class WsSession in runtime/src/http/beast_transport.cc: *)
(* a facade of blocking and completion-driven calls on application threads,  *)
(* a connection executor (strand) that runs posted tasks and the completions *)
(* of the wire operations one at a time, and one mutex between them.         *)
(*                                                                           *)
(* Each critical section under mutex_ is one action.  `tasks` is the strand's *)
(* queue of posted tasks; a wire operation (Beast's async_read, async_write, *)
(* async_close) is outstanding from the call that starts it until the strand *)
(* runs its handler, at a time the network chooses.  Completions of parked   *)
(* operations are taken under the mutex and fire after it, in `owed`.        *)
EXTENDS Naturals, Sequences, FiniteSets

CONSTANTS
    QueueDepth,      \* kReceiveQueueDepth
    SendBudget,      \* bound: Send and SendAsync calls
    ReceiveBudget,   \* bound: Receive and ReceiveAsync calls
    PeerMessages,    \* bound: messages the peer puts on the wire
    CloseBudget,     \* bound: Close and Kick calls
    MayAbort,        \* whether the owner may call Abort (Stop, teardown)
    PostMayFail      \* whether asio::post and the timer may throw

ASSUME QueueDepthAssumption == QueueDepth \in Nat \ {0}
ASSUME BoundsAssumption ==
    /\ {SendBudget, ReceiveBudget, PeerMessages, CloseBudget} \subseteq Nat
    /\ MayAbort \in BOOLEAN /\ PostMayFail \in BOOLEAN

None == 0
SendOp(n) == [kind |-> "send", n |-> n]
ReceiveOp(n) == [kind |-> "receive", n |-> n]
Issuable == {SendOp(n) : n \in 1 .. SendBudget}
              \cup {ReceiveOp(n) : n \in 1 .. ReceiveBudget}
Outcomes == {"ok", "message", "end", "timeout", "transport", "validation"}
Completion(op, out) == [op |-> op, out |-> out]

\* What asio::post may do: TRUE scheduled, FALSE thrown.
Scheduling == IF PostMayFail THEN BOOLEAN ELSE {TRUE}

VARIABLES
    \* guarded by mutex_
    received, pending_receive, pending_send, receive_park_generation,
    blocked_receivers, read_paused, peer_closed, failed, write_complete,
    write_error, wire_write_busy, close_requested, close_started, peer_close,
    write_buffer,       \* the send whose frame the wire was last given
    receive_deadline,   \* the generation the timer is armed for, or None
    \* the blocking Send under send_mutex_: the send whose turn it is and where
    turn, stage,
    \* the executor, the wire and the threads that owe completions
    tasks, pump_next, reading, writing, closing, socket_open, stream_down, overlap,
    kick_deadline, owed,
    \* what the application and the peer did and saw
    sends, receives, closes, aborted, peer_sent, delivered, on_wire, log

flags == <<peer_closed, failed, close_requested, close_started, peer_close>>
receiveSide == <<received, pending_receive, receive_park_generation,
                 receive_deadline, blocked_receivers, read_paused>>
sendSide == <<pending_send, write_complete, write_error, wire_write_busy, write_buffer>>
blockingSend == <<turn, stage>>
strandSide == <<kick_deadline, pump_next>>
wire == <<reading, writing, closing, socket_open, stream_down, overlap>>
issued == <<sends, receives, closes, aborted>>
seen == <<peer_sent, delivered, on_wire>>
vars == <<received, pending_receive, pending_send, receive_park_generation,
          blocked_receivers, read_paused, peer_closed, failed, write_complete,
          write_error, wire_write_busy, write_buffer, close_requested,
          close_started, peer_close, receive_deadline, turn, stage, tasks, pump_next, reading,
          writing, closing, socket_open, stream_down, overlap, kick_deadline,
          owed, sends, receives, closes, aborted, peer_sent, delivered, on_wire, log>>

Task(kind, arg) == [kind |-> kind, arg |-> arg]

\* Start() arms the read pump on the executor.
Init ==
    /\ received = <<>> /\ pending_receive = None /\ pending_send = None
    /\ receive_park_generation = 0 /\ receive_deadline = None
    /\ blocked_receivers = {} /\ read_paused = FALSE
    /\ peer_closed = FALSE /\ failed = FALSE /\ peer_close = FALSE
    /\ write_complete = TRUE /\ write_error = FALSE /\ wire_write_busy = FALSE
    /\ write_buffer = None
    /\ close_requested = FALSE /\ close_started = FALSE
    /\ turn = None /\ stage = "idle"
    /\ tasks = <<Task("PumpRead", None)>>
    /\ pump_next = FALSE
    /\ reading = "idle" /\ writing = "idle" /\ closing = "idle"
    /\ socket_open = TRUE /\ stream_down = FALSE /\ overlap = FALSE
    /\ kick_deadline = "none"
    /\ owed = {}
    /\ sends = 0 /\ receives = 0 /\ closes = 0 /\ aborted = FALSE
    /\ peer_sent = 0 /\ delivered = <<>> /\ on_wire = {}
    /\ log = [op \in Issuable |-> <<>>]

-----------------------------------------------------------------------------
Report(op, out) == log' = [log EXCEPT ![op] = Append(@, out)]
Parked(op, out) == IF op.n = None THEN <<>> ELSE <<Completion(op, out)>>

\* Completions to run after the mutex is released, by the strand handler that
\* took them (strand) or by another thread.
Owe(strand, todo) ==
    owed' = owed \cup (IF todo = <<>> THEN {} ELSE {[strand |-> strand, todo |-> todo]})

\* The strand runs one handler at a time, its completions included.
NothingToFire == \A c \in owed : ~c.strand
StrandFree == NothingToFire /\ ~pump_next
NextTask(kind) == StrandFree /\ tasks # <<>> /\ Head(tasks).kind = kind

\* CompleteAsyncWaiters: the terminal outcome, the send first (#173).
TerminalWaiters(out) ==
    Parked(SendOp(pending_send), "transport") \o Parked(ReceiveOp(pending_receive), out)

TakeAsyncWaitersStillEngaged(strand, out) ==
    /\ Owe(strand, TerminalWaiters(out))
    /\ receive_deadline' = None
    /\ UNCHANGED <<pending_send, pending_receive>>
\* TakeAsyncWaitersLocked: both slots are emptied, to be fired after the mutex.
TakeAsyncWaiters(strand, out) ==
    /\ Owe(strand, TerminalWaiters(out))
    /\ pending_send' = None
    /\ pending_receive' = None
    /\ receive_deadline' = None

\* ResumeReadsIfPaused with `rest` left in the queue re-arms the pump through
\* the executor, or fails the session when it cannot; `after` is what else
\* the caller posts.
ResumeDueTooLate(rest) ==
    read_paused /\ ~failed /\ ~peer_closed /\ Len(rest) + 1 < QueueDepth
ResumeDue(rest) ==
    read_paused /\ ~failed /\ ~peer_closed /\ Len(rest) < QueueDepth
ResumeReadsIfPaused(rest, ok, after) ==
    /\ read_paused' = (read_paused /\ ~ResumeDue(rest))
    /\ failed' = (failed \/ (ResumeDue(rest) /\ ~ok))
    /\ tasks' = tasks \o (IF ResumeDue(rest) /\ ok THEN <<Task("PumpRead", None)>>
                                                 ELSE <<>>) \o after

\* The oldest received message goes to a receive.
TakeFront ==
    /\ received' = Tail(received)
    /\ delivered' = Append(delivered, Head(received))

-----------------------------------------------------------------------------
\* The blocking Receive, with or without a deadline.

\* A message for this call: a parked receive owns the next arrival.
InHand == received # <<>> /\ pending_receive = None

\* `settled`, its wait predicate.
Settled == InHand \/ peer_closed \/ failed

FinishReceive(n, ok) ==
    IF InHand
    THEN /\ TakeFront
         /\ ResumeReadsIfPaused(Tail(received), ok, <<>>)
         /\ Report(ReceiveOp(n), "message")
    ELSE /\ Report(ReceiveOp(n), IF peer_closed THEN "end" ELSE "transport")
         /\ UNCHANGED <<received, delivered, read_paused, tasks, failed>>

ReceiveWithin(timed, ok) ==
    /\ receives < ReceiveBudget
    /\ receives' = receives + 1
    /\ IF Settled
       THEN FinishReceive(receives + 1, ok) /\ UNCHANGED blocked_receivers
       ELSE /\ blocked_receivers' =
                 blocked_receivers \cup {[n |-> receives + 1, timed |-> timed]}
            /\ UNCHANGED <<received, delivered, read_paused, tasks, failed, log>>
    /\ UNCHANGED <<pending_receive, receive_park_generation, receive_deadline,
                   peer_closed, close_requested, close_started, peer_close, sendSide,
                   blockingSend, wire, strandSide, owed, sends, closes, aborted,
                   peer_sent, on_wire>>

ReceiveWakes(ok) == \E r \in blocked_receivers :
    /\ Settled
    /\ blocked_receivers' = blocked_receivers \ {r}
    /\ FinishReceive(r.n, ok)
    /\ UNCHANGED <<pending_receive, receive_park_generation, receive_deadline,
                   peer_closed, close_requested, close_started, peer_close, sendSide,
                   blockingSend, wire, strandSide, owed, issued, peer_sent, on_wire>>

ReceiveTimesOut == \E r \in blocked_receivers :
    /\ r.timed /\ ~Settled
    /\ blocked_receivers' = blocked_receivers \ {r}
    /\ Report(ReceiveOp(r.n), "timeout")
    /\ UNCHANGED <<received, pending_receive, receive_park_generation,
                   receive_deadline, read_paused, flags, sendSide, blockingSend,
                   tasks, wire, strandSide, owed, issued, seen>>

-----------------------------------------------------------------------------
\* ReceiveAsync: refused; ready, the result riding a posted task; terminal or a
\* poll, inline; or parked, with the deadline timer when `budget` says so.
\* `resumed` and `ok` say whether the pump and the result could be posted.

ReceiveOutstanding == pending_receive # None \/ blocked_receivers # {}
NothingInHand ==
    ~ReceiveOutstanding /\ received = <<>> /\ ~peer_closed /\ ~failed

ReceiveAsyncWithin(budget, resumed, ok) ==
    LET n == receives + 1
        generation == receive_park_generation + 1 IN
    /\ receives < ReceiveBudget
    /\ receives' = n
    /\ \/ /\ ReceiveOutstanding
          /\ Report(ReceiveOp(n), "validation")
          /\ UNCHANGED <<receiveSide, tasks, failed, delivered>>
       \/ /\ ~ReceiveOutstanding /\ received # <<>>
          /\ TakeFront
          /\ ResumeReadsIfPaused(Tail(received), resumed,
                                 IF ok THEN <<Task("Ready", n)>> ELSE <<>>)
          /\ IF ok THEN UNCHANGED log ELSE Report(ReceiveOp(n), "transport")
          /\ UNCHANGED <<pending_receive, receive_park_generation, receive_deadline,
                         blocked_receivers>>
       \/ /\ ~ReceiveOutstanding /\ received = <<>> /\ (peer_closed \/ failed)
          /\ Report(ReceiveOp(n), IF peer_closed THEN "end" ELSE "transport")
          /\ UNCHANGED <<receiveSide, tasks, failed, delivered>>
       \/ /\ NothingInHand /\ budget = "poll"
          /\ Report(ReceiveOp(n), "timeout")
          /\ UNCHANGED <<receiveSide, tasks, failed, delivered>>
       \/ /\ NothingInHand /\ budget # "poll"
          /\ receive_park_generation' = generation
          /\ IF budget = "timed" /\ ~ok
             THEN /\ Report(ReceiveOp(n), "transport")
                  /\ UNCHANGED <<pending_receive, receive_deadline>>
             ELSE /\ pending_receive' = n
                  /\ receive_deadline' = IF budget = "timed" THEN generation
                                                             ELSE receive_deadline
                  /\ UNCHANGED log
          /\ UNCHANGED <<received, blocked_receivers, read_paused, tasks, failed,
                         delivered>>
    /\ UNCHANGED <<peer_closed, close_requested, close_started, peer_close, sendSide,
                   blockingSend, wire, strandSide, owed, sends, closes, aborted,
                   peer_sent, on_wire>>

\* The deadline timer's wait ends and its handler is queued on the executor.
DeadlineExpires ==
    /\ receive_deadline # None
    /\ receive_deadline' = None
    /\ tasks' = Append(tasks, Task("Deadline", receive_deadline))
    /\ UNCHANGED <<received, pending_receive, receive_park_generation,
                   blocked_receivers, read_paused, flags, sendSide, blockingSend,
                   wire, strandSide, owed, issued, seen, log>>

\* The park this deadline bounds has not completed.
StillParked(generation) ==
    pending_receive # None /\ receive_park_generation = generation

\* OnReceiveDeadline times out only the park it was armed for.
OnReceiveDeadline ==
    /\ NextTask("Deadline")
    /\ tasks' = Tail(tasks)
    /\ IF StillParked(Head(tasks).arg)
       THEN /\ pending_receive' = None
            /\ Owe(TRUE, <<Completion(ReceiveOp(pending_receive), "timeout")>>)
       ELSE UNCHANGED <<pending_receive, owed>>
    /\ UNCHANGED <<received, receive_park_generation, receive_deadline,
                   blocked_receivers, read_paused, flags, sendSide, blockingSend,
                   wire, strandSide, issued, seen, log>>

\* The posted completion of a ReceiveAsync that found a message in hand.
ReadyCompletion ==
    /\ NextTask("Ready")
    /\ tasks' = Tail(tasks)
    /\ Report(ReceiveOp(Head(tasks).arg), "message")
    /\ UNCHANGED <<receiveSide, flags, sendSide, blockingSend, wire, strandSide,
                   owed, issued, seen>>

-----------------------------------------------------------------------------
\* Send and SendAsync.

Ended == failed \/ peer_closed \/ close_requested

\* The first wait of Send: its turn on the wire, or the end of the session.
SendReady == (write_complete /\ pending_send = None) \/ Ended

\* After that wait: refuse, or post the write.
PostWrite(n, ok) ==
    /\ UNCHANGED pending_send
    /\ IF Ended \/ ~ok
       THEN /\ Report(SendOp(n), "transport")
            /\ turn' = None /\ stage' = "idle"
            /\ write_complete' = (write_complete /\ Ended)
            /\ write_error' = (write_error /\ Ended)
            /\ UNCHANGED tasks
       ELSE /\ write_complete' = FALSE /\ write_error' = FALSE
            /\ tasks' = Append(tasks, Task("StartWrite", n))
            /\ turn' = n /\ stage' = "written"
            /\ UNCHANGED log

\* A caller still waiting on send_mutex_ has not begun.
Send(ok) ==
    LET n == sends + 1 IN
    /\ sends < SendBudget /\ turn = None
    /\ sends' = n
    /\ IF SendReady
       THEN PostWrite(n, ok)
       ELSE /\ turn' = n /\ stage' = "wait"
            /\ UNCHANGED <<pending_send, write_complete, write_error, tasks, log>>
    /\ UNCHANGED <<receiveSide, flags, wire_write_busy, write_buffer, wire, strandSide, owed,
                   receives, closes, aborted, seen>>

SendWakes(ok) ==
    /\ stage = "wait" /\ SendReady
    /\ PostWrite(turn, ok)
    /\ UNCHANGED <<receiveSide, flags, wire_write_busy, write_buffer, wire, strandSide, owed,
                   issued, seen>>

SendOutcomeUnfinished == IF write_complete \/ ~write_error THEN "ok" ELSE "transport"
SendOutcome == IF write_complete /\ ~write_error THEN "ok" ELSE "transport"

\* The second wait of Send ends and the call returns.
SendReturns ==
    /\ stage = "written" /\ (write_complete \/ failed)
    /\ Report(SendOp(turn), SendOutcome)
    /\ turn' = None /\ stage' = "idle"
    /\ UNCHANGED <<receiveSide, flags, sendSide, tasks, wire, strandSide, owed,
                   issued, seen>>

SendOutstanding == ~write_complete \/ pending_send # None

SendAsync(ok) ==
    LET n == sends + 1 IN
    /\ sends < SendBudget
    /\ sends' = n
    /\ IF Ended \/ SendOutstanding \/ ~ok
       THEN /\ Report(SendOp(n), IF ~Ended /\ SendOutstanding THEN "validation"
                                                             ELSE "transport")
            /\ write_error' = (write_error /\ (Ended \/ SendOutstanding))
            /\ UNCHANGED <<pending_send, write_complete, tasks>>
       ELSE /\ pending_send' = n
            /\ write_complete' = FALSE /\ write_error' = FALSE
            /\ tasks' = Append(tasks, Task("StartWrite", n))
            /\ UNCHANGED log
    /\ UNCHANGED <<receiveSide, flags, wire_write_busy, write_buffer, blockingSend, wire,
                   strandSide, owed, receives, closes, aborted, seen>>

RefuseWriteSilently ==
    /\ pending_send' = None
    /\ Owe(TRUE, Parked(SendOp(pending_send), "transport"))
    /\ UNCHANGED <<write_complete, write_error>>
\* A session that ended before the posted write ran.
RefuseWrite ==
    /\ write_complete' = TRUE /\ write_error' = TRUE
    /\ pending_send' = None
    /\ Owe(TRUE, Parked(SendOp(pending_send), "transport"))

StartWrite ==
    /\ NextTask("StartWrite")
    /\ tasks' = Tail(tasks)
    /\ IF Ended
       THEN RefuseWrite /\ UNCHANGED <<wire_write_busy, writing, write_buffer, overlap>>
       ELSE /\ wire_write_busy' = TRUE
            /\ writing' = "out" /\ write_buffer' = Head(tasks).arg
            /\ overlap' = (overlap \/ writing # "idle" \/ closing # "idle")
            /\ UNCHANGED <<write_complete, write_error, pending_send, owed>>
    /\ UNCHANGED <<receiveSide, flags, blockingSend, reading, closing, socket_open,
                   stream_down, strandSide, issued, seen, log>>

-----------------------------------------------------------------------------
\* The close.  RequestClose starts the close operation on an idle wire; with a
\* message write in flight it cancels the socket's operations instead.

\* async_close.
StartClose ==
    /\ close_started' = TRUE
    /\ closing' = "out"
    /\ overlap' = (overlap \/ writing # "idle" \/ closing # "idle")

\* socket().cancel(): an outstanding transfer will complete operation_aborted;
\* one that has just completed, or an operation between two transfers, is missed.
Cancel ==
    /\ reading' \in {reading, IF reading = "out" THEN "cancelled" ELSE reading}
    /\ writing' \in {writing, IF writing = "out" THEN "cancelled" ELSE writing}

RequestCloseUnserialized ==
    IF close_requested \/ failed \/ peer_closed
    THEN UNCHANGED <<close_requested, close_started, reading, writing, closing, overlap>>
    ELSE close_requested' = TRUE /\ StartClose /\ UNCHANGED <<reading, writing>>
RequestClose ==
    IF close_requested \/ failed \/ peer_closed
    THEN UNCHANGED <<close_requested, close_started, reading, writing, closing, overlap>>
    ELSE /\ close_requested' = TRUE
         /\ IF ~wire_write_busy
            THEN StartClose /\ UNCHANGED <<reading, writing>>
            ELSE Cancel /\ UNCHANGED <<close_started, closing, overlap>>

CloseTask ==
    /\ NextTask("Close")
    /\ tasks' = Tail(tasks)
    /\ RequestClose
    /\ UNCHANGED <<receiveSide, peer_closed, failed, peer_close, sendSide,
                   blockingSend, socket_open, stream_down, strandSide, owed, issued, seen, log>>

\* Only the first kick arms the deadline that closes the socket.
KickTask ==
    /\ NextTask("Kick")
    /\ tasks' = Tail(tasks)
    /\ IF kick_deadline # "none" \/ peer_closed
       THEN UNCHANGED <<kick_deadline, close_requested, close_started, reading,
                        writing, closing, overlap>>
       ELSE kick_deadline' = "armed" /\ RequestClose
    /\ UNCHANGED <<receiveSide, peer_closed, failed, peer_close, sendSide, pump_next,
                   blockingSend, socket_open, stream_down, owed, issued, seen, log>>

\* socket().close(): every outstanding operation completes with an error.
Cancelled(op) == IF op = "idle" THEN "idle" ELSE "cancelled"
CloseSocket ==
    /\ socket_open' = FALSE
    /\ reading' = Cancelled(reading)
    /\ writing' = Cancelled(writing)
    /\ closing' = Cancelled(closing)
    /\ UNCHANGED <<stream_down, overlap>>

KickDeadline ==
    /\ StrandFree
    /\ kick_deadline = "armed"
    /\ kick_deadline' = "fired"
    /\ CloseSocket
    /\ UNCHANGED <<receiveSide, flags, sendSide, blockingSend, tasks, pump_next, owed,
                   issued, seen, log>>

\* Fail: record the failure unless the session already ended, take the waiters.
Fail(strand) ==
    /\ failed' = (failed \/ ~peer_closed)
    /\ TakeAsyncWaiters(strand, "transport")

\* Fail, then close the socket through the executor if it still takes tasks.
AbortNow(ok) ==
    /\ Fail(FALSE)
    /\ tasks' = IF ok THEN Append(tasks, Task("CloseSocket", None)) ELSE tasks

\* Abort, from the thread that stops the server or drops the client handle.
Abort(ok) ==
    /\ MayAbort /\ ~aborted
    /\ aborted' = TRUE
    /\ AbortNow(ok)
    /\ UNCHANGED <<received, receive_park_generation, blocked_receivers, read_paused,
                   peer_closed, close_requested, close_started, peer_close,
                   write_complete, write_error, wire_write_busy, write_buffer, blockingSend, wire,
                   strandSide, sends, receives, closes, seen, log>>

\* Close and Kick: a posted task, or Abort when it cannot be posted.
Close(kind, ok) ==
    /\ closes < CloseBudget
    /\ closes' = closes + 1
    /\ IF ok
       THEN /\ tasks' = Append(tasks, Task(kind, None))
            /\ UNCHANGED <<failed, pending_send, pending_receive, receive_deadline, owed>>
       ELSE \E again \in BOOLEAN : AbortNow(again)
    /\ UNCHANGED <<received, receive_park_generation, blocked_receivers, read_paused,
                   peer_closed, close_requested, close_started, peer_close,
                   write_complete, write_error, wire_write_busy, write_buffer, blockingSend, wire,
                   strandSide, sends, receives, aborted, seen, log>>

CloseSocketTask ==
    /\ NextTask("CloseSocket")
    /\ tasks' = Tail(tasks)
    /\ CloseSocket
    /\ UNCHANGED <<receiveSide, flags, sendSide, blockingSend, strandSide, owed,
                   issued, seen, log>>

-----------------------------------------------------------------------------
\* The wire.  Beast runs an operation's handler on the strand once it is done.
\* The first error any operation reports fails the stream, and every other
\* operation then completes operation_aborted.

Flowing(op) == StrandFree /\ op = "out" /\ socket_open /\ ~stream_down

\* A read our close displaced ends operation_aborted with the peer's close.
ReadAborted ==
    reading = "cancelled" \/ stream_down \/ (closing = "out" /\ socket_open)

\* The read pump.

PumpRead ==
    /\ NothingToFire
    /\ IF pump_next
       THEN pump_next' = FALSE /\ UNCHANGED tasks
       ELSE /\ tasks # <<>> /\ Head(tasks).kind = "PumpRead"
            /\ tasks' = Tail(tasks)
            /\ UNCHANGED pump_next
    /\ \/ /\ failed \/ peer_closed \/ close_started
          /\ UNCHANGED <<read_paused, reading, overlap>>
       \/ /\ ~failed /\ ~peer_closed /\ ~close_started
          /\ Len(received) >= QueueDepth
          /\ read_paused' = TRUE
          /\ UNCHANGED <<reading, overlap>>
       \/ /\ ~failed /\ ~peer_closed /\ ~close_started
          /\ Len(received) < QueueDepth
          /\ reading' = "out"
          /\ overlap' = (overlap \/ reading # "idle")
          /\ UNCHANGED read_paused
    /\ UNCHANGED <<received, pending_receive, receive_park_generation,
                   receive_deadline, blocked_receivers, flags, sendSide, blockingSend,
                   writing, closing, socket_open, stream_down, kick_deadline, owed,
                   issued, seen, log>>

DeliverQueued(m) ==
    /\ received' = Append(received, m)
    /\ UNCHANGED <<pending_receive, receive_deadline, delivered, owed>>
\* Deliver hands the message to the parked receive, else queues it.
Deliver(m) ==
    IF pending_receive # None
    THEN /\ Owe(TRUE, <<Completion(ReceiveOp(pending_receive), "message")>>)
         /\ pending_receive' = None
         /\ receive_deadline' = None
         /\ delivered' = Append(delivered, m)
         /\ UNCHANGED received
    ELSE /\ received' = Append(received, m)
         /\ UNCHANGED <<pending_receive, receive_deadline, delivered, owed>>

\* OnRead with a message: after Deliver the handler goes on to PumpRead before
\* the strand takes a new task.
OnReadMessage ==
    LET m == peer_sent + 1 IN
    /\ Flowing(reading) /\ peer_sent < PeerMessages
    /\ peer_sent' = m
    /\ reading' = "idle"
    /\ pump_next' = TRUE
    /\ Deliver(m)
    /\ UNCHANGED <<receive_park_generation, blocked_receivers, read_paused, flags,
                   sendSide, blockingSend, tasks, writing, closing, socket_open,
                   stream_down, overlap, kick_deadline, issued, on_wire, log>>

\* The peer's close frame: the stream's natural end.
OnReadClosed ==
    /\ Flowing(reading) /\ closing = "idle"
    /\ reading' = "idle" /\ stream_down' = TRUE
    /\ peer_closed' = TRUE /\ peer_close' = TRUE
    /\ TakeAsyncWaiters(TRUE, "end")
    /\ UNCHANGED <<received, receive_park_generation, blocked_receivers, read_paused,
                   failed, close_requested, close_started, write_complete, write_error,
                   wire_write_busy, write_buffer, blockingSend, tasks, pump_next, writing, closing,
                   socket_open, overlap, kick_deadline, issued, seen, log>>

\* A read our own close displaced or cancelled is no outcome; any other error
\* fails the session.
OnReadError ==
    /\ StrandFree /\ reading # "idle"
    /\ reading' = "idle"
    /\ \/ /\ ReadAborted /\ close_requested
          /\ stream_down' = (stream_down \/ closing # "out")
          /\ UNCHANGED <<failed, pending_send, pending_receive, receive_deadline, owed>>
       \/ /\ \/ ReadAborted /\ ~close_requested
             \/ reading = "out" /\ ~stream_down
          /\ stream_down' = TRUE
          /\ Fail(TRUE)
    /\ UNCHANGED <<received, receive_park_generation, blocked_receivers, read_paused,
                   peer_closed, close_requested, close_started, peer_close,
                   write_complete, write_error, wire_write_busy, write_buffer, blockingSend, tasks,
                   pump_next, writing, closing, socket_open, overlap, kick_deadline,
                   issued, seen, log>>

\* FailAndClose: a protocol violation fails the session and tells the peer,
\* behind any write in flight.
OnReadViolation ==
    /\ Flowing(reading)
    /\ reading' = "idle"
    /\ Fail(TRUE)
    /\ close_requested' = TRUE
    /\ IF ~close_started /\ ~wire_write_busy
       THEN StartClose
       ELSE UNCHANGED <<close_started, closing, overlap>>
    /\ UNCHANGED <<received, receive_park_generation, blocked_receivers, read_paused,
                   peer_closed, peer_close, write_complete, write_error,
                   wire_write_busy, write_buffer, blockingSend, tasks, pump_next, writing,
                   socket_open, stream_down, kick_deadline, issued, seen, log>>

\* OnWrite: the write's own completion, the session's failure if it failed,
\* and the close that waited behind it.
OnWrite(error) ==
    /\ IF error THEN StrandFree /\ writing # "idle" ELSE Flowing(writing)
    /\ writing' = "idle"
    /\ stream_down' = (stream_down \/ error)
    /\ on_wire' = IF error THEN on_wire ELSE on_wire \cup {write_buffer}
    /\ wire_write_busy' = FALSE
    /\ write_complete' = TRUE
    /\ write_error' = (write_error \/ error)
    /\ failed' = (failed \/ (error /\ ~peer_closed))
    /\ pending_send' = None
    /\ Owe(TRUE, Parked(SendOp(pending_send),
                        IF write_error \/ error THEN "transport" ELSE "ok"))
    /\ IF ~error /\ close_requested /\ ~close_started
       THEN /\ close_started' = TRUE
            /\ closing' = "out"
            /\ overlap' = (overlap \/ closing # "idle")
       ELSE UNCHANGED <<close_started, closing, overlap>>
    /\ UNCHANGED <<receiveSide, peer_closed, close_requested, peer_close, write_buffer,
                   blockingSend, tasks, pump_next, reading, socket_open, kick_deadline,
                   issued, peer_sent, delivered, log>>

\* The close's success ends a session that had not failed.
CleanEnd(error) == ~error /\ ~failed

\* The close operation's completion: its success is the clean end.
OnClose(error) ==
    /\ IF error THEN StrandFree /\ closing # "idle"
                ELSE Flowing(closing) /\ reading = "idle"
    /\ closing' = "idle" /\ stream_down' = TRUE
    /\ failed' = (failed \/ (error /\ ~peer_closed))
    /\ peer_closed' = (peer_closed \/ CleanEnd(error))
    /\ TakeAsyncWaiters(TRUE, IF failed' THEN "transport" ELSE "end")
    /\ UNCHANGED <<received, receive_park_generation, blocked_receivers, read_paused,
                   close_requested, close_started, peer_close, write_complete,
                   write_error, wire_write_busy, write_buffer, blockingSend, tasks, pump_next,
                   reading, writing, socket_open, overlap, kick_deadline, issued, seen,
                   log>>

\* A thread runs the next completion it owes.
Fire == \E c \in owed :
    LET next == Head(c.todo) IN
    /\ log' = [log EXCEPT ![next.op] = Append(@, next.out)]
    /\ owed' = (owed \ {c}) \cup
               (IF Len(c.todo) = 1 THEN {}
                ELSE {[strand |-> c.strand, todo |-> Tail(c.todo)]})
    /\ UNCHANGED <<receiveSide, flags, sendSide, blockingSend, tasks, wire,
                   strandSide, issued, seen>>

-----------------------------------------------------------------------------
Application ==
    \/ \E ok \in Scheduling :
         \/ \E timed \in BOOLEAN : ReceiveWithin(timed, ok)
         \/ \E budget \in {"none", "poll", "timed"}, resumed \in Scheduling :
              ReceiveAsyncWithin(budget, resumed, ok)
         \/ Send(ok)
         \/ SendAsync(ok)
         \/ \E kind \in {"Close", "Kick"} : Close(kind, ok)
         \/ Abort(ok)

\* Threads blocked in a call that can go on.
Blocked ==
    \/ \E ok \in Scheduling : ReceiveWakes(ok) \/ SendWakes(ok)
    \/ ReceiveTimesOut
    \/ SendReturns

Strand ==
    \/ PumpRead \/ ReadyCompletion \/ OnReceiveDeadline \/ StartWrite
    \/ CloseTask \/ KickTask \/ CloseSocketTask

Timers == DeadlineExpires \/ KickDeadline

OnRead == OnReadMessage \/ OnReadClosed \/ OnReadError \/ OnReadViolation
Wire == OnRead \/ (\E error \in BOOLEAN : OnWrite(error) \/ OnClose(error))

Next == Application \/ Blocked \/ Strand \/ Timers \/ Wire \/ Fire

\* The executor runs what is queued, threads that can go on are scheduled,
\* timers expire, and Beast's idle and handshake timeouts bound every wire
\* operation.
Fairness ==
    /\ WF_vars(Strand) /\ WF_vars(Fire)
    /\ WF_vars(\E ok \in Scheduling : ReceiveWakes(ok))
    /\ WF_vars(\E ok \in Scheduling : SendWakes(ok))
    /\ WF_vars(SendReturns)
    /\ WF_vars(DeadlineExpires) /\ WF_vars(KickDeadline)
    /\ WF_vars(OnRead)
    /\ WF_vars(\E error \in BOOLEAN : OnWrite(error))
    /\ WF_vars(\E error \in BOOLEAN : OnClose(error))

Spec == Init /\ [][Next]_vars
LiveSpec == Spec /\ Fairness

-----------------------------------------------------------------------------
\* Type correctness of the session, its executor and its wire.
TypeOK ==
    /\ received \in Seq(1 .. PeerMessages) /\ delivered \in Seq(1 .. PeerMessages)
    /\ pending_receive \in 0 .. ReceiveBudget /\ pending_send \in 0 .. SendBudget
    /\ receive_park_generation \in 0 .. ReceiveBudget
    /\ receive_deadline \in 0 .. ReceiveBudget
    /\ blocked_receivers \subseteq [n : 1 .. ReceiveBudget, timed : BOOLEAN]
    /\ {read_paused, peer_closed, failed, write_complete, write_error, wire_write_busy,
        close_requested, close_started, peer_close, pump_next, socket_open,
        stream_down, overlap, aborted}
         \subseteq BOOLEAN
    /\ turn \in 0 .. SendBudget /\ stage \in {"idle", "wait", "written"}
    /\ (turn = None) <=> (stage = "idle")
    /\ \A i \in DOMAIN tasks : tasks[i].kind \in
         {"PumpRead", "Ready", "Deadline", "StartWrite", "Close", "Kick", "CloseSocket"}
    /\ {reading, writing, closing} \subseteq {"idle", "out", "cancelled"}
    /\ write_buffer \in 0 .. SendBudget
    /\ kick_deadline \in {"none", "armed", "fired"}
    /\ \A c \in owed : c.strand \in BOOLEAN /\ c.todo # <<>>
    /\ sends \in 0 .. SendBudget /\ receives \in 0 .. ReceiveBudget
    /\ closes \in 0 .. CloseBudget /\ peer_sent \in 0 .. PeerMessages
    /\ on_wire \subseteq 1 .. SendBudget
    /\ log \in [Issuable -> Seq(Outcomes)]

-----------------------------------------------------------------------------
\* Safety.

Queued(kinds) == Cardinality({i \in DOMAIN tasks : tasks[i].kind \in kinds})
One(b) == IF b THEN 1 ELSE 0

\* Beast's operation contract (the class comment): at most one async_read and
\* at most one write-class operation, a message write or the close, is ever
\* outstanding; wire_write_busy_ is exactly a write in flight.
WireDiscipline == TypeOK /\ ~overlap /\ (wire_write_busy <=> writing # "idle")

\* The read pump is never lost and never doubled: until the session ends or is
\* closed, exactly one of a read, the handler about to pump, a posted PumpRead
\* and the backpressure pause carries it on, and a pause leaves a message
\* whose receiver will re-arm it.
PumpNeverLost ==
    ~failed /\ ~peer_closed /\ ~close_requested =>
        /\ One(reading # "idle") + One(pump_next) + Queued({"PumpRead"})
             + One(read_paused) = 1
        /\ read_paused => received # <<>>

\* Messages reach the application in wire order, none lost, none twice,
\* through either receive API; the queue keeps its bound and is empty while a
\* receive is parked.
DeliveredInOrder ==
    /\ delivered \o received = [i \in 1 .. peer_sent |-> i]
    /\ Len(received) <= QueueDepth
    /\ pending_receive # None => received = <<>>

OwedPlaces(op) ==
    {p \in UNION {{<<c, i>> : i \in DOMAIN c.todo} : c \in owed} :
       p[1].todo[p[2]].op = op}
Given(op) ==
    {log[op][i] : i \in DOMAIN log[op]}
      \cup {p[1].todo[p[2]].out : p \in OwedPlaces(op)}
Started(op) == op.n <= IF op.kind = "send" THEN sends ELSE receives
Waiting(op) ==
    IF op.kind = "send"
    THEN One(pending_send = op.n) + One(turn = op.n)
    ELSE One(pending_receive = op.n)
           + One(\E r \in blocked_receivers : r.n = op.n)
           + Cardinality({i \in DOMAIN tasks :
                            tasks[i].kind = "Ready" /\ tasks[i].arg = op.n})

\* Every callback fires exactly once and every blocking call returns once,
\* whichever of delivery, deadline, write, close, failure and abort settles it.
EachOperationCompletesOnce ==
    \A op \in Issuable :
        Waiting(op) + Len(log[op]) + Cardinality(OwedPlaces(op)) = One(Started(op))

\* A send that reports success had its frame on the wire.
SuccessMeansOnWire ==
    \A n \in 1 .. SendBudget : "ok" \in Given(SendOp(n)) => n \in on_wire

\* The clean end is reported only after everything the wire delivered, and
\* nothing follows it: the messages that arrived before a close still belong
\* to the application.
EndMeansDrained ==
    \A n \in 1 .. ReceiveBudget :
        "end" \in Given(ReceiveOp(n)) => received = <<>>

\* What an operation is told is true of the wire.
HonestOutcomes == SuccessMeansOnWire /\ EndMeansDrained

-----------------------------------------------------------------------------
\* Liveness.

\* Close and Kick unblock a blocked Send and a blocked Receive and complete a
\* parked SendAsync, and a deadline completes a parked ReceiveAsync, whatever
\* the wire, the peer and a refusing executor do.
CloseUnblocksCalls ==
    /\ \A n \in 1 .. SendBudget :
         (closes > 0 /\ n <= sends) ~> (log[SendOp(n)] # <<>>)
    /\ \A n \in 1 .. ReceiveBudget :
         (\/ closes > 0 /\ \E r \in blocked_receivers : r.n = n
          \/ pending_receive = n /\ receive_deadline = receive_park_generation)
           ~> (log[ReceiveOp(n)] # <<>>)

-----------------------------------------------------------------------------
\* What the interface says and the code does not do.

\* "Close also completes any async operation (below) still parked in the
\* session, the way it unblocks the blocking calls" (websocket.h).
CloseCompletesParkedReceive ==
    \A n \in 1 .. ReceiveBudget :
        (closes > 0 /\ pending_receive = n) ~> (log[ReceiveOp(n)] # <<>>)
=============================================================================
