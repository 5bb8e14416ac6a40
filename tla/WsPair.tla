------------------------------- MODULE WsPair -------------------------------
(* The in-memory WebSocket pair, runtime/src/http/websocket_pair.cc: two     *)
(* ends share one PairState (one mutex, one condition variable, a bounded    *)
(* queue per direction, one parked async receive and one parked async send   *)
(* per end, one closed flag).  Every critical section under the mutex is one *)
(* action; completions are taken under the mutex and fire after it, so they  *)
(* are kept in `owed` until the thread that took them runs them.             *)
EXTENDS Naturals, Sequences, FiniteSets

CONSTANTS
    Depth,            \* kQueueDepth, the bound of each direction's queue
    SendBudget,       \* bound: sends issued per end
    ReceiveBudget,    \* bound: receives issued per end
    SenderThreads,    \* threads per end that may be inside the blocking Send
    ReceiverThreads   \* threads per end that may be inside the blocking Receive

Ends == {0, 1}
Peer(e) == 1 - e

ASSUME DepthAssumption == Depth \in Nat \ {0}
ASSUME BudgetAssumption ==
    /\ SendBudget \in [Ends -> Nat]
    /\ ReceiveBudget \in [Ends -> Nat]
    /\ SenderThreads \in Nat
    /\ ReceiverThreads \in Nat

None == 0             \* an empty slot; operations are numbered from 1

\* The n-th send or receive an end issues; a send's number is its message.
SendOp(e, n) == [kind |-> "send", end |-> e, n |-> n]
ReceiveOp(e, n) == [kind |-> "receive", end |-> e, n |-> n]
Ops == [kind : {"send", "receive"}, end : Ends, n : Nat]

Outcomes == {"ok", "message", "end", "timeout", "transport", "validation"}
Completion(op, out) == [op |-> op, out |-> out]
Completions == [op : Ops, out : Outcomes]

CloseReasons == {"normal", "kicked"}

VARIABLES
    \* PairState, each array indexed by the owning end's send index
    queues,           \* messages an end sent that its peer has not taken
    pending_receive,  \* the parked ReceiveAsync of an end, or None
    pending_send,     \* the parked SendAsync of an end, or None
    receive_park_generation,
    blocked_receivers,\* the receives waiting inside ReceiveWithin
    blocked_senders,  \* the sends waiting inside Send
    closed,
    peer_close,       \* the close the other end started, as this end reads it
    \* threads at work outside the critical sections
    arming,           \* timed parks whose watchdog is not spawned yet
    watchdogs,        \* deadline watchdogs asleep on the condition variable
    owed,             \* completions taken, one record per thread that owes them
    \* what the application did and saw
    sends, receives,  \* operations issued so far
    bounded,          \* the receives issued with a deadline
    committed,        \* messages the session accepted from an end, in order
    delivered,        \* messages handed to an end's receives, in order
    log               \* the outcomes each operation completed with

state == <<queues, pending_receive, pending_send, receive_park_generation,
           blocked_receivers, blocked_senders, closed, peer_close>>
threads == <<arming, watchdogs>>
vars == <<queues, pending_receive, pending_send, receive_park_generation,
          blocked_receivers, blocked_senders, closed, peer_close, arming,
          watchdogs, owed, sends, receives, bounded, committed, delivered, log>>

\* Every operation the budgets allow.
Issuable ==
    UNION {{SendOp(e, n) : n \in 1 .. SendBudget[e]}
             \cup {ReceiveOp(e, n) : n \in 1 .. ReceiveBudget[e]} : e \in Ends}

Init ==
    /\ queues = [e \in Ends |-> <<>>]
    /\ pending_receive = [e \in Ends |-> None]
    /\ pending_send = [e \in Ends |-> None]
    /\ receive_park_generation = [e \in Ends |-> 0]
    /\ blocked_receivers = [e \in Ends |-> {}]
    /\ blocked_senders = [e \in Ends |-> {}]
    /\ closed = FALSE
    /\ peer_close = [e \in Ends |-> "none"]
    /\ arming = {}
    /\ watchdogs = {}
    /\ owed = {}
    /\ sends = [e \in Ends |-> 0]
    /\ receives = [e \in Ends |-> 0]
    /\ bounded = {}
    /\ committed = [e \in Ends |-> <<>>]
    /\ delivered = [e \in Ends |-> <<>>]
    /\ log = [op \in Issuable |-> <<>>]

-----------------------------------------------------------------------------
\* The mutex is held across a callback only by the inline refusals, which are
\* invoked before the scoped_lock is released.
MutexFree == \A c \in owed : ~c.locked

\* The thread leaves its critical section owing these completions, in order.
Owe(todo) ==
    owed' = owed \cup (IF todo = <<>> THEN {} ELSE {[locked |-> FALSE, todo |-> todo]})
\* Its only completion is the operation's own, returned or called back inline.
Report(op, out) == log' = [log EXCEPT ![op] = Append(@, out)]
\* The thread runs the callback while it still holds the mutex.
RefuseLocked(op, out) ==
    owed' = owed \cup {[locked |-> TRUE, todo |-> <<Completion(op, out)>>]}

\* A call is issued while its bound allows it.
IssueSend(e) == sends[e] < SendBudget[e] /\ sends' = [sends EXCEPT ![e] = @ + 1]
IssueReceive(e) ==
    receives[e] < ReceiveBudget[e] /\ receives' = [receives EXCEPT ![e] = @ + 1]

HandOverSlotStillEngaged(e, m) ==
    LET p == Peer(e) IN
    /\ committed' = [committed EXCEPT ![e] = Append(@, m)]
    /\ IF pending_receive[p] # None
       THEN /\ delivered' = [delivered EXCEPT ![p] = Append(@, m)]
            /\ Owe(<<Completion(ReceiveOp(p, pending_receive[p]), "message"),
                     Completion(SendOp(e, m), "ok")>>)
            /\ UNCHANGED <<queues, pending_receive, log>>
       ELSE /\ queues' = [queues EXCEPT ![e] = Append(@, m)]
            /\ Report(SendOp(e, m), "ok")
            /\ UNCHANGED <<delivered, pending_receive, owed>>
\* A message enters the session: handed to the peer's parked receive, else
\* queued (TakePeerReceiverLocked, then push_back).
HandOver(e, m) ==
    LET p == Peer(e) IN
    /\ committed' = [committed EXCEPT ![e] = Append(@, m)]
    /\ IF pending_receive[p] # None
       THEN /\ delivered' = [delivered EXCEPT ![p] = Append(@, m)]
            /\ pending_receive' = [pending_receive EXCEPT ![p] = None]
            /\ Owe(<<Completion(ReceiveOp(p, pending_receive[p]), "message"),
                     Completion(SendOp(e, m), "ok")>>)
            /\ UNCHANGED <<queues, log>>
       ELSE /\ queues' = [queues EXCEPT ![e] = Append(@, m)]
            /\ Report(SendOp(e, m), "ok")
            /\ UNCHANGED <<delivered, pending_receive, owed>>

TakeFrontOvertaken(e, n) ==
    LET p == Peer(e) IN
    IF pending_send[p] # None
    THEN /\ delivered' = [delivered EXCEPT ![e] = Append(@, pending_send[p])]
         /\ committed' = [committed EXCEPT ![p] = Append(@, pending_send[p])]
         /\ pending_send' = [pending_send EXCEPT ![p] = None]
         /\ Owe(<<Completion(SendOp(p, pending_send[p]), "ok"),
                  Completion(ReceiveOp(e, n), "message")>>)
         /\ UNCHANGED <<queues, log>>
    ELSE /\ delivered' = [delivered EXCEPT ![e] = Append(@, Head(queues[p]))]
         /\ queues' = [queues EXCEPT ![p] = Tail(@)]
         /\ Report(ReceiveOp(e, n), "message")
         /\ UNCHANGED <<committed, pending_send, owed>>
\* End e's receive n takes the front of its inbound queue, and the peer's
\* parked send takes the slot it freed (AbsorbPeerPendingSendLocked).
TakeFront(e, n) ==
    LET p == Peer(e)
        rest == Tail(queues[p])
        absorb == pending_send[p] # None /\ Len(rest) < Depth IN
    /\ delivered' = [delivered EXCEPT ![e] = Append(@, Head(queues[p]))]
    /\ IF absorb
       THEN /\ queues' = [queues EXCEPT ![p] = Append(rest, pending_send[p])]
            /\ committed' = [committed EXCEPT ![p] = Append(@, pending_send[p])]
            /\ pending_send' = [pending_send EXCEPT ![p] = None]
            /\ Owe(<<Completion(SendOp(p, pending_send[p]), "ok"),
                     Completion(ReceiveOp(e, n), "message")>>)
            /\ UNCHANGED log
       ELSE /\ queues' = [queues EXCEPT ![p] = rest]
            /\ Report(ReceiveOp(e, n), "message")
            /\ UNCHANGED <<committed, pending_send, owed>>

-----------------------------------------------------------------------------
\* The blocking Send.

\* A message the codec refuses returns before the mutex is taken; the sends
\* modelled here are the ones that reach the session.

\* The wait predicate of Send.
CanSend(e) == (Len(queues[e]) < Depth /\ pending_send[e] = None) \/ closed

FinishSendAfterClose(e, m) == HandOver(e, m)
\* What Send does once its wait is over.
FinishSend(e, m) ==
    IF closed
    THEN /\ Report(SendOp(e, m), "transport")
         /\ UNCHANGED <<queues, pending_receive, committed, delivered, owed>>
    ELSE HandOver(e, m)

Send(e) ==
    /\ MutexFree
    /\ IssueSend(e)
    /\ Cardinality(blocked_senders[e]) < SenderThreads
    /\ IF CanSend(e)
       THEN FinishSend(e, sends[e] + 1) /\ UNCHANGED blocked_senders
       ELSE /\ blocked_senders' = [blocked_senders EXCEPT ![e] = @ \cup {sends[e] + 1}]
            /\ UNCHANGED <<queues, pending_receive, committed, delivered, owed, log>>
    /\ UNCHANGED <<pending_send, receive_park_generation, blocked_receivers,
                   closed, peer_close, threads, receives, bounded>>

\* A sender notified on the condition variable finds its predicate true.
SendWakes(e) == \E m \in blocked_senders[e] :
    /\ MutexFree
    /\ CanSend(e)
    /\ blocked_senders' = [blocked_senders EXCEPT ![e] = @ \ {m}]
    /\ FinishSend(e, m)
    /\ UNCHANGED <<pending_send, receive_park_generation, blocked_receivers,
                   closed, peer_close, threads, sends, receives, bounded>>

\* The one-outstanding rule, as SendAsync checks it.
SendOutstanding(e) == pending_send[e] # None \/ blocked_senders[e] # {}

\* SendAsync: refused under the lock, parked when the queue is full, else in.
SendAsync(e) ==
    LET m == sends[e] + 1 IN
    /\ MutexFree
    /\ IssueSend(e)
    /\ \/ /\ closed
          /\ RefuseLocked(SendOp(e, m), "transport")
          /\ UNCHANGED <<queues, pending_receive, pending_send, committed, delivered, log>>
       \/ /\ ~closed
          /\ SendOutstanding(e)
          /\ RefuseLocked(SendOp(e, m), "validation")
          /\ UNCHANGED <<queues, pending_receive, pending_send, committed, delivered, log>>
       \/ /\ ~closed /\ ~SendOutstanding(e)
          /\ Len(queues[e]) >= Depth
          /\ pending_send' = [pending_send EXCEPT ![e] = m]
          /\ UNCHANGED <<queues, pending_receive, committed, delivered, owed, log>>
       \/ /\ ~closed /\ ~SendOutstanding(e)
          /\ Len(queues[e]) < Depth
          /\ HandOver(e, m)
          /\ UNCHANGED pending_send
    /\ UNCHANGED <<receive_park_generation, blocked_receivers, blocked_senders,
                   closed, peer_close, threads, receives, bounded>>

-----------------------------------------------------------------------------
\* The blocking Receive and Receive(timeout).

ArrivedIgnoringClose(e) == queues[Peer(e)] # <<>> /\ pending_receive[e] = None
\* `arrived`, the wait predicate of ReceiveWithin.
Arrived(e) == (queues[Peer(e)] # <<>> /\ pending_receive[e] = None) \/ closed

\* What Receive does once its wait is over: messages queued before a close
\* still belong to the application.
FinishReceive(e, n) ==
    IF queues[Peer(e)] = <<>>
    THEN /\ Report(ReceiveOp(e, n), "end")
         /\ UNCHANGED <<queues, pending_send, committed, delivered, owed>>
    ELSE TakeFront(e, n)

ReceiveWithin(e, timed) ==
    LET n == receives[e] + 1 IN
    /\ MutexFree
    /\ IssueReceive(e)
    /\ bounded' = IF timed THEN bounded \cup {ReceiveOp(e, n)} ELSE bounded
    /\ Cardinality(blocked_receivers[e]) < ReceiverThreads
    /\ IF Arrived(e)
       THEN FinishReceive(e, n) /\ UNCHANGED blocked_receivers
       ELSE /\ blocked_receivers' =
                 [blocked_receivers EXCEPT ![e] = @ \cup {[n |-> n, timed |-> timed]}]
            /\ UNCHANGED <<queues, pending_send, committed, delivered, owed, log>>
    /\ UNCHANGED <<pending_receive, receive_park_generation, blocked_senders,
                   closed, peer_close, threads, sends>>

ReceiveWakes(e) == \E r \in blocked_receivers[e] :
    /\ MutexFree
    /\ Arrived(e)
    /\ blocked_receivers' = [blocked_receivers EXCEPT ![e] = @ \ {r}]
    /\ FinishReceive(e, r.n)
    /\ UNCHANGED <<pending_receive, receive_park_generation, blocked_senders,
                   closed, peer_close, threads, sends, receives, bounded>>

\* wait_for gives up: the predicate is still false at the deadline.
ReceiveTimesOut(e) == \E r \in blocked_receivers[e] :
    /\ MutexFree
    /\ r.timed
    /\ ~Arrived(e)
    /\ blocked_receivers' = [blocked_receivers EXCEPT ![e] = @ \ {r}]
    /\ Report(ReceiveOp(e, r.n), "timeout")
    /\ UNCHANGED <<queues, pending_receive, pending_send, receive_park_generation,
                   blocked_senders, closed, peer_close, threads, sends, receives, bounded,
                   committed, delivered, owed>>

-----------------------------------------------------------------------------
\* ReceiveAsync and ReceiveAsync(timeout): `budget` is the deadline argument.

\* The one-outstanding rule, as ReceiveAsync checks it.
ReceiveOutstanding(e) == pending_receive[e] # None \/ blocked_receivers[e] # {}

CanParkAfterClose(e) == ~ReceiveOutstanding(e) /\ queues[Peer(e)] = <<>>
\* Nothing in hand and nothing ended: the receive waits for an arrival.
CanPark(e) == ~ReceiveOutstanding(e) /\ queues[Peer(e)] = <<>> /\ ~closed

ReceiveAsyncWithin(e, budget) ==
    LET n == receives[e] + 1
        op == ReceiveOp(e, n)
        generation == receive_park_generation[e] + 1 IN
    /\ MutexFree
    /\ IssueReceive(e)
    /\ bounded' = IF budget # "none" THEN bounded \cup {op} ELSE bounded
    /\ \/ /\ ReceiveOutstanding(e)
          /\ RefuseLocked(op, "validation")
          /\ UNCHANGED <<queues, pending_receive, pending_send, committed, delivered,
                         receive_park_generation, arming, log>>
       \/ /\ ~ReceiveOutstanding(e)
          /\ queues[Peer(e)] # <<>>
          /\ TakeFront(e, n)
          /\ UNCHANGED <<pending_receive, receive_park_generation, arming>>
       \/ /\ ~ReceiveOutstanding(e)
          /\ queues[Peer(e)] = <<>> /\ closed
          /\ Report(op, "end")
          /\ UNCHANGED <<queues, pending_receive, pending_send, committed, delivered,
                         receive_park_generation, arming, owed>>
       \/ /\ CanPark(e) /\ budget = "poll"
          /\ Report(op, "timeout")
          /\ UNCHANGED <<queues, pending_receive, pending_send, committed, delivered,
                         receive_park_generation, arming, owed>>
       \/ /\ CanPark(e) /\ budget # "poll"
          /\ pending_receive' = [pending_receive EXCEPT ![e] = n]
          /\ receive_park_generation' =
               [receive_park_generation EXCEPT ![e] = generation]
          /\ arming' = IF budget = "timed"
                       THEN arming \cup {[end |-> e, generation |-> generation]}
                       ELSE arming
          /\ UNCHANGED <<queues, pending_send, committed, delivered, owed, log>>
    /\ UNCHANGED <<blocked_receivers, blocked_senders, closed, peer_close,
                   watchdogs, sends>>

StillParkedAnyGeneration(w) == pending_receive[w.end] # None
\* The park a deadline was armed for is still the one in the slot.
StillParked(w) ==
    /\ pending_receive[w.end] # None
    /\ receive_park_generation[w.end] = w.generation

TakeParked(w, out) ==
    /\ pending_receive' = [pending_receive EXCEPT ![w.end] = None]
    /\ Owe(<<Completion(ReceiveOp(w.end, pending_receive[w.end]), out)>>)

\* ArmReceiveDeadline, outside the lock: the watchdog thread starts ...
ArmReceiveDeadline == \E w \in arming :
    /\ arming' = arming \ {w}
    /\ watchdogs' = watchdogs \cup {w}
    /\ UNCHANGED <<state, owed, sends, receives, bounded, committed, delivered, log>>

\* ... or cannot be spawned, and the park is taken back unless it is over.
ArmFails == \E w \in arming :
    /\ MutexFree
    /\ arming' = arming \ {w}
    /\ IF StillParked(w)
       THEN TakeParked(w, "transport")
       ELSE UNCHANGED <<pending_receive, owed>>
    /\ UNCHANGED <<queues, pending_send, receive_park_generation, blocked_receivers,
                   blocked_senders, closed, peer_close, watchdogs, sends, receives, bounded,
                   committed, delivered, log>>

\* The watchdog's deadline passes, or it wakes to find its park gone.
WatchdogWakes == \E w \in watchdogs :
    /\ MutexFree
    /\ watchdogs' = watchdogs \ {w}
    /\ IF StillParked(w)
       THEN TakeParked(w, "timeout")
       ELSE UNCHANGED <<pending_receive, owed>>
    /\ UNCHANGED <<queues, pending_send, receive_park_generation, blocked_receivers,
                   blocked_senders, closed, peer_close, arming, sends, receives, bounded,
                   committed, delivered, log>>

-----------------------------------------------------------------------------
\* Close and Kick.

\* A parked operation's completion with its outcome, if there is one.
Parked(op, out) == IF op.n = None THEN <<>> ELSE <<Completion(op, out)>>

\* One end's TerminalWaiters, in the order Fire runs them: send, then receive.
TerminalWaiters(e) ==
    Parked(SendOp(e, pending_send[e]), "transport")
      \o Parked(ReceiveOp(e, pending_receive[e]), "end")

PeerCloseOverwritten(e, why) == [peer_close EXCEPT ![Peer(e)] = why]
\* Only the first close or kick is recorded for the other end to read.
PeerClose(e, why) ==
    IF closed THEN peer_close ELSE [peer_close EXCEPT ![Peer(e)] = why]

\* End: both ends' parked completions come out, the first close is the one
\* the other end reads.
End(e, why) ==
    /\ MutexFree
    /\ peer_close' = PeerClose(e, why)
    /\ closed' = TRUE
    /\ pending_send' = [x \in Ends |-> None]
    /\ pending_receive' = [x \in Ends |-> None]
    /\ Owe(TerminalWaiters(0) \o TerminalWaiters(1))
    /\ UNCHANGED <<queues, receive_park_generation, blocked_receivers,
                   blocked_senders, threads, sends, receives, bounded, committed,
                   delivered, log>>

\* A thread runs the next completion it owes: the application's callback, or
\* the return of its own blocking call.
Fire == \E c \in owed :
    LET next == Head(c.todo) IN
    /\ log' = [log EXCEPT ![next.op] = Append(@, next.out)]
    /\ owed' = (owed \ {c}) \cup
               (IF Len(c.todo) = 1 THEN {}
                ELSE {[locked |-> c.locked, todo |-> Tail(c.todo)]})
    /\ UNCHANGED <<state, threads, sends, receives, bounded, committed, delivered>>

Next ==
    \/ \E e \in Ends :
         \/ Send(e)
         \/ SendWakes(e)
         \/ SendAsync(e)
         \/ \E timed \in BOOLEAN : ReceiveWithin(e, timed)
         \/ ReceiveWakes(e)
         \/ ReceiveTimesOut(e)
         \/ \E budget \in {"none", "poll", "timed"} : ReceiveAsyncWithin(e, budget)
         \/ \E why \in CloseReasons : End(e, why)
    \/ ArmReceiveDeadline
    \/ ArmFails
    \/ WatchdogWakes
    \/ Fire

\* A notified or running thread is eventually scheduled; the application may
\* issue nothing more, and nobody is obliged to close.
Fairness ==
    /\ \A e \in Ends : WF_vars(SendWakes(e)) /\ WF_vars(ReceiveWakes(e))
    /\ \A e \in Ends : WF_vars(ReceiveTimesOut(e))
    /\ WF_vars(ArmReceiveDeadline \/ ArmFails)
    /\ WF_vars(WatchdogWakes)
    /\ WF_vars(Fire)

Spec == Init /\ [][Next]_vars
LiveSpec == Spec /\ Fairness

-----------------------------------------------------------------------------
\* Type correctness of the pair's state and of the threads around it.
TypeOK ==
    /\ queues \in [Ends -> Seq(Nat \ {0})]
    /\ pending_receive \in [Ends -> Nat]
    /\ pending_send \in [Ends -> Nat]
    /\ receive_park_generation \in [Ends -> Nat]
    /\ blocked_receivers \in [Ends -> SUBSET [n : Nat \ {0}, timed : BOOLEAN]]
    /\ blocked_senders \in [Ends -> SUBSET (Nat \ {0})]
    /\ closed \in BOOLEAN
    /\ peer_close \in [Ends -> CloseReasons \cup {"none"}]
    /\ arming \in SUBSET [end : Ends, generation : Nat]
    /\ watchdogs \in SUBSET [end : Ends, generation : Nat]
    /\ owed \in SUBSET [locked : BOOLEAN, todo : Seq(Completions) \ {<<>>}]
    /\ sends \in [Ends -> Nat]
    /\ receives \in [Ends -> Nat]
    /\ bounded \in SUBSET Ops
    /\ committed \in [Ends -> Seq(Nat \ {0})]
    /\ delivered \in [Ends -> Seq(Nat \ {0})]
    /\ log \in [Issuable -> Seq(Outcomes)]

-----------------------------------------------------------------------------
\* Safety.

\* Nothing is lost, duplicated or reordered between an end's sends and its
\* peer's receives, whichever of the four calls carried each message.
Conservation ==
    \A e \in Ends : delivered[Peer(e)] \o queues[e] = committed[e]

\* What the parked slots rely on: a parked receive implies an empty inbound
\* queue ("any push completes it immediately", End), a parked send a full
\* outbound one, and neither outlives the close; no queue passes kQueueDepth.
ParkedSlots ==
    \A e \in Ends :
        /\ Len(queues[e]) <= Depth
        /\ pending_receive[e] # None => queues[Peer(e)] = <<>> /\ ~closed
        /\ pending_send[e] # None => Len(queues[e]) = Depth /\ ~closed

\* The outcomes an operation has been given: reported, or owed by a thread.
OwedPlaces(op) ==
    {p \in UNION {{<<c, i>> : i \in DOMAIN c.todo} : c \in owed} :
       p[1].todo[p[2]].op = op}
Given(op) ==
    {log[op][i] : i \in DOMAIN log[op]}
      \cup {p[1].todo[p[2]].out : p \in OwedPlaces(op)}

Started(op) ==
    op.n <= IF op.kind = "send" THEN sends[op.end] ELSE receives[op.end]

Waiting(op) ==
    IF op.kind = "send"
    THEN pending_send[op.end] = op.n \/ op.n \in blocked_senders[op.end]
    ELSE \/ pending_receive[op.end] = op.n
         \/ \E r \in blocked_receivers[op.end] : r.n = op.n

\* Every callback fires exactly once and every blocking call returns once: an
\* issued operation is waiting in the session, or owed, or reported, and
\* never two of them.
EachOperationCompletesOnce ==
    \A op \in Issuable :
        (IF Waiting(op) THEN 1 ELSE 0) + Len(log[op]) + Cardinality(OwedPlaces(op))
          = IF Started(op) THEN 1 ELSE 0

\* A send reports success exactly for the messages the session accepted: a
\* parked send the close took, or one refused, never reaches the peer.
SendsReportHonestly ==
    \A e \in Ends : \A m \in 1 .. SendBudget[e] :
        ("ok" \in Given(SendOp(e, m)))
          <=> (\E i \in DOMAIN committed[e] : committed[e][i] = m)

\* The stream's natural end is reported only to a receiver that has been
\* handed everything its peer's sends were accepted for.
EndMeansDrained ==
    \A e \in Ends : \A n \in 1 .. ReceiveBudget[e] :
        "end" \in Given(ReceiveOp(e, n)) => delivered[e] = committed[Peer(e)]

\* With the one sender thread per end the contract allows, the peer sees an
\* end's messages in the order of its calls, across both send APIs: a parked
\* send is not overtaken by a blocking one, nor a blocked one by an async.
InCallOrder ==
    SenderThreads = 1 =>
        \A e \in Ends : \A i, j \in DOMAIN committed[e] :
            i < j => committed[e][i] < committed[e][j]

\* A receive issued without a deadline never times out: a watchdog armed for
\* an earlier park does not settle a later one (#130).
OnlyBoundedReceivesTimeOut ==
    \A op \in Issuable : "timeout" \in Given(op) => op \in bounded

\* What an operation is told is true: a send's success, a receive's end and a
\* receive's timeout, whichever thread and whichever API completed it.
HonestOutcomes ==
    /\ SendsReportHonestly
    /\ EndMeansDrained
    /\ InCallOrder
    /\ OnlyBoundedReceivesTimeOut

\* PeerCloseReason is engaged at one end only, the one that did not start
\* the close, and the reason never changes afterwards.
FirstCloseStands ==
    [][\A e \in Ends :
         /\ peer_close[e] # "none" => peer_close'[e] = peer_close[e]
         /\ peer_close'[e] # "none" => peer_close'[Peer(e)] = "none"]_vars

-----------------------------------------------------------------------------
\* Liveness, under the scheduling in Fairness.

\* After a close every call that was issued completes, parked or blocked, and
\* a receive with a deadline completes even if nothing ever arrives, also when
\* its watchdog could not be spawned.
CloseCompletesEveryCall ==
    \A op \in Issuable :
        (Started(op) /\ (closed \/ op \in bounded)) ~> (log[op] # <<>>)

-----------------------------------------------------------------------------
\* The pair is the bounded duplex channel its interface promises: every step
\* of PairState is a step of Duplex or changes nothing the two applications
\* can tell apart.
Channel == INSTANCE Duplex WITH
    Bound <- Depth, Messages <- Nat \ {0},
    transit <- queues, taken <- delivered, ended <- closed
=============================================================================
