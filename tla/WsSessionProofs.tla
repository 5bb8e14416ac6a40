-------------------------- MODULE WsSessionProofs ---------------------------
(* Machine-checked proofs about the wire session, for every queue depth and  *)
(* every number of calls and of peer messages, with an executor that may or  *)
(* may not refuse tasks: Beast's operation contract, the read pump,          *)
(* delivery in order, one completion per operation, and true outcomes.       *)
EXTENDS WsSession, SequenceTheorems, FiniteSetTheorems, TLAPS

\* What the executor's queue holds: the argument is a receive, the park a
\* deadline was armed for, or a send.
Tasks == [kind : {"PumpRead", "Close", "Kick", "CloseSocket"}, arg : {None}]
           \cup [kind : {"Ready", "Deadline"}, arg : 1 .. ReceiveBudget]
           \cup [kind : {"StartWrite"}, arg : 1 .. SendBudget]
Completions == [op : Issuable, out : Outcomes]
Debts == [strand : BOOLEAN, todo : Seq(Completions) \ {<<>>}]

Pumps == {t \in Tasks : t.kind = "PumpRead"}
Writes == {t \in Tasks : t.kind = "StartWrite"}
WriteOf(n) == {t \in Tasks : t.kind = "StartWrite" /\ t.arg = n}
ReadyFor(n) == {t \in Tasks : t.kind = "Ready" /\ t.arg = n}

\* A task of S is in the queue s; no two are.
Has(s, S) == \E i \in 1 .. Len(s) : s[i] \in S
Single(s, S) == \A i, j \in 1 .. Len(s) : s[i] \in S /\ s[j] \in S => i = j

-----------------------------------------------------------------------------
\* The inductive invariant.

FlagTypes ==
    /\ read_paused \in BOOLEAN /\ peer_closed \in BOOLEAN /\ failed \in BOOLEAN
    /\ write_complete \in BOOLEAN /\ write_error \in BOOLEAN
    /\ wire_write_busy \in BOOLEAN /\ close_requested \in BOOLEAN
    /\ close_started \in BOOLEAN /\ peer_close \in BOOLEAN /\ pump_next \in BOOLEAN
    /\ socket_open \in BOOLEAN /\ stream_down \in BOOLEAN /\ overlap \in BOOLEAN
    /\ aborted \in BOOLEAN /\ kick_deadline \in {"none", "armed", "fired"}
    /\ closes \in 0 .. CloseBudget
OpStates == {"idle", "out", "cancelled"}
ReceiveTypes ==
    /\ received \in Seq(1 .. PeerMessages) /\ delivered \in Seq(1 .. PeerMessages)
    /\ peer_sent \in 0 .. PeerMessages /\ reading \in OpStates
    /\ receives \in 0 .. ReceiveBudget /\ pending_receive \in 0 .. ReceiveBudget
    /\ receive_park_generation \in 0 .. receives
    /\ receive_deadline \in 0 .. ReceiveBudget
    /\ blocked_receivers \subseteq [n : 1 .. ReceiveBudget, timed : BOOLEAN]
SendTypes ==
    /\ writing \in OpStates /\ closing \in OpStates
    /\ sends \in 0 .. SendBudget /\ pending_send \in 0 .. SendBudget
    /\ turn \in 0 .. SendBudget /\ stage \in {"idle", "wait", "written"}
    /\ (turn = None) <=> (stage = "idle")
    /\ write_buffer \in 0 .. SendBudget /\ on_wire \subseteq 1 .. SendBudget
    /\ writing # "idle" => write_buffer # None
TaskTypes == tasks \in Seq(Tasks)
DebtTypes == owed \subseteq Debts /\ log \in [Issuable -> Seq(Outcomes)]
Types == FlagTypes /\ ReceiveTypes /\ SendTypes /\ TaskTypes /\ DebtTypes

\* One write-class operation: a send is posted, on the wire or complete, and
\* an operation that closes was asked for.
WireInv ==
    /\ ~overlap
    /\ wire_write_busy <=> writing # "idle"
    /\ closing # "idle" => close_started
    /\ close_started => close_requested
    /\ Single(tasks, Writes)
    /\ ~(write_complete /\ writing # "idle")
    /\ Has(tasks, Writes) => ~write_complete /\ writing = "idle"

\* One place for the pump, and none only once the session ends; a pause means
\* a full queue until it does.
PumpInv ==
    /\ Single(tasks, Pumps)
    /\ Has(tasks, Pumps) => reading = "idle" /\ ~pump_next /\ ~read_paused
    /\ pump_next => reading = "idle" /\ ~read_paused
    /\ read_paused => reading = "idle"
    /\ ~failed /\ ~peer_closed /\ ~close_requested =>
         Has(tasks, Pumps) \/ pump_next \/ read_paused \/ reading # "idle"
    /\ read_paused /\ ~failed /\ ~peer_closed => Len(received) >= QueueDepth

\* The history of the wire, and room for the message being read.
DeliveryInv ==
    /\ DeliveredInOrder
    /\ reading # "idle" => Len(received) < QueueDepth

\* The completions of a list, and those that some thread owes.
Entries(todo) == {todo[i] : i \in 1 .. Len(todo)}
Promised == UNION {Entries(c.todo) : c \in owed}
Owing(op) == \E x \in Promised : x.op = op

\* No two places of what is owed are for the same operation.
DebtInv ==
    \A c, d \in owed : \A i \in 1 .. Len(c.todo), j \in 1 .. Len(d.todo) :
        c.todo[i].op = d.todo[j].op => c = d /\ i = j

\* How often an operation has been answered, or will be by who owes it.
Answers(op) == One(Owing(op)) + Len(log[op])

\* Every call that was made waits in one place or has one answer.
SendOnce ==
    \A n \in 1 .. SendBudget :
        One(pending_send = n) + One(turn = n) + Answers(SendOp(n)) = One(n <= sends)
BlockedFor(n) == \E r \in blocked_receivers : r.n = n
ReceiveOnce ==
    /\ \A n \in 1 .. ReceiveBudget :
         One(pending_receive = n) + One(BlockedFor(n)) + One(Has(tasks, ReadyFor(n)))
           + Answers(ReceiveOp(n)) = One(n <= receives)
    /\ \A n \in 1 .. ReceiveBudget : Single(tasks, ReadyFor(n))
    /\ \A r, q \in blocked_receivers : r.n = q.n => r = q

\* A send that waits has its frame posted or on the wire, or is known not to
\* have got there; and the end comes after the last message.
PostedOrOut(n) == Has(tasks, WriteOf(n)) \/ (writing # "idle" /\ write_buffer = n)
WriteInv ==
    /\ pending_send # None => PostedOrOut(pending_send)
    /\ stage = "written" =>
         turn \in on_wire \/ (write_error /\ Ended) \/ PostedOrOut(turn)
    /\ SuccessMeansOnWire
EndInv ==
    /\ peer_closed => stream_down
    /\ \A n \in 1 .. ReceiveBudget :
         "end" \in Given(ReceiveOp(n)) => peer_closed /\ received = <<>>

IInv == /\ Types /\ WireInv /\ PumpInv /\ DeliveryInv
        /\ DebtInv /\ SendOnce /\ ReceiveOnce /\ WriteInv /\ EndInv

-----------------------------------------------------------------------------
\* The executor's queue.

\* A task posted at the end.
LEMMA PostedTask ==
    ASSUME NEW s \in Seq(Tasks), NEW t \in Tasks, NEW S
    PROVE  /\ Has(Append(s, t), S) <=> Has(s, S) \/ t \in S
           /\ Single(s, S) /\ (t \in S => ~Has(s, S)) => Single(Append(s, t), S)
  <1>1. /\ Len(Append(s, t)) = Len(s) + 1 /\ Len(s) \in Nat
        /\ Append(s, t)[Len(s) + 1] = t
        /\ \A i \in 1 .. Len(s) : Append(s, t)[i] = s[i]
    OBVIOUS
  <1>2. Has(Append(s, t), S) <=> Has(s, S) \/ t \in S
    BY <1>1 DEF Has
  <1>3. ASSUME Single(s, S), t \in S => ~Has(s, S) PROVE Single(Append(s, t), S)
    BY <1>1, <1>3 DEF Has, Single
  <1>4. QED
    BY <1>2, <1>3

\* The task at the front is taken.
LEMMA TakenTask ==
    ASSUME NEW s \in Seq(Tasks), s # <<>>, NEW S
    PROVE  /\ Head(s) \in Tasks /\ Tail(s) \in Seq(Tasks)
           /\ Head(s) \in S => Has(s, S)
           /\ Has(Tail(s), S) => Has(s, S)
           /\ Has(s, S) => Has(Tail(s), S) \/ Head(s) \in S
           /\ Single(s, S) => Single(Tail(s), S) /\ (Head(s) \in S => ~Has(Tail(s), S))
  <1>1. /\ Len(s) \in Nat /\ Len(s) >= 1 /\ Head(s) = s[1] /\ Head(s) \in Tasks
        /\ Tail(s) \in Seq(Tasks) /\ Len(Tail(s)) = Len(s) - 1
        /\ \A i \in 1 .. Len(Tail(s)) : Tail(s)[i] = s[i + 1]
    BY EmptySeq, HeadTailProperties
  <1>2. Head(s) \in S => Has(s, S)
    BY <1>1 DEF Has
  <1>3. ASSUME Has(Tail(s), S) PROVE Has(s, S)
    <2>1. PICK i \in 1 .. Len(Tail(s)) : Tail(s)[i] \in S
      BY <1>3 DEF Has
    <2>2. i + 1 \in 1 .. Len(s) /\ s[i + 1] \in S
      BY <1>1, <2>1
    <2>3. QED
      BY <2>2 DEF Has
  <1>4. ASSUME Has(s, S) PROVE Has(Tail(s), S) \/ Head(s) \in S
    <2>1. PICK i \in 1 .. Len(s) : s[i] \in S
      BY <1>4 DEF Has
    <2>2. CASE i = 1
      BY <1>1, <2>1, <2>2
    <2>3. CASE i # 1
      <3>1. i - 1 \in 1 .. Len(Tail(s)) /\ Tail(s)[i - 1] \in S
        BY <1>1, <2>1, <2>3
      <3>2. QED
        BY <3>1 DEF Has
    <2>4. QED
      BY <2>2, <2>3
  <1>5. ASSUME Single(s, S) PROVE Single(Tail(s), S) /\ (Head(s) \in S => ~Has(Tail(s), S))
    <2>1. ASSUME NEW i \in 1 .. Len(Tail(s)), NEW j \in 1 .. Len(Tail(s)),
                 Tail(s)[i] \in S, Tail(s)[j] \in S
          PROVE  i = j
      <3>1. /\ i + 1 \in 1 .. Len(s) /\ s[i + 1] \in S
            /\ j + 1 \in 1 .. Len(s) /\ s[j + 1] \in S
        BY <1>1, <2>1
      <3>2. i + 1 = j + 1
        BY <1>5, <3>1 DEF Single
      <3>3. QED
        BY <3>2
    <2>2. ASSUME Head(s) \in S, NEW i \in 1 .. Len(Tail(s)), Tail(s)[i] \in S PROVE FALSE
      <3>1. /\ i + 1 \in 1 .. Len(s) /\ s[i + 1] \in S /\ i + 1 # 1
            /\ 1 \in 1 .. Len(s) /\ s[1] \in S
        BY <1>1, <2>2
      <3>2. QED
        BY <1>5, <3>1 DEF Single
    <2>3. QED
      BY <2>1, <2>2 DEF Single, Has
  <1>6. QED
    BY <1>1, <1>2, <1>3, <1>4, <1>5

\* The tasks there are, by kind.
LEMMA TaskKinds ==
    /\ \A kind \in {"PumpRead", "Close", "Kick", "CloseSocket"} : Task(kind, None) \in Tasks
    /\ \A kind \in {"Ready", "Deadline"} : \A n \in 1 .. ReceiveBudget : Task(kind, n) \in Tasks
    /\ \A n \in 1 .. SendBudget : Task("StartWrite", n) \in Tasks
    /\ \A kind, n : Task(kind, n).kind = kind /\ Task(kind, n).arg = n
    /\ \A t \in Tasks :
         /\ t.kind = "StartWrite" => t.arg \in 1 .. SendBudget
         /\ t.kind \in {"Ready", "Deadline"} => t.arg \in 1 .. ReceiveBudget
         /\ t \in Pumps <=> t.kind = "PumpRead"
         /\ t \in Writes <=> t.kind = "StartWrite"
         /\ \A n : t \in WriteOf(n) <=> t.kind = "StartWrite" /\ t.arg = n
         /\ \A n : t \in ReadyFor(n) <=> t.kind = "Ready" /\ t.arg = n
  BY DEF Tasks, Task, Pumps, Writes, WriteOf, ReadyFor

\* A step posts the pump (p), the write of send w and the completion of
\* receive r, none where it is FALSE or None, and perhaps tasks that no part of
\* the invariant counts.
QueueGrows(p, w, r) ==
    /\ TaskTypes'
    /\ Has(tasks', Pumps) <=> Has(tasks, Pumps) \/ p
    /\ Single(tasks, Pumps) /\ (p => ~Has(tasks, Pumps)) => Single(tasks', Pumps)
    /\ Has(tasks', Writes) <=> Has(tasks, Writes) \/ w # None
    /\ Single(tasks, Writes) /\ (w # None => ~Has(tasks, Writes)) => Single(tasks', Writes)
    /\ \A n \in 1 .. SendBudget : Has(tasks', WriteOf(n)) <=> Has(tasks, WriteOf(n)) \/ n = w
    /\ \A n \in 1 .. ReceiveBudget : Has(tasks', ReadyFor(n)) <=> Has(tasks, ReadyFor(n)) \/ n = r
    /\ \A n \in 1 .. ReceiveBudget :
         Single(tasks, ReadyFor(n)) /\ (n = r => ~Has(tasks, ReadyFor(n)))
           => Single(tasks', ReadyFor(n))

\* A step takes the task h from the front.
QueueShrinks(h) ==
    /\ TaskTypes'
    /\ h \in Tasks
    /\ h.kind = "PumpRead" => Has(tasks, Pumps)
    /\ Single(tasks, Pumps) =>
         Single(tasks', Pumps) /\ (Has(tasks', Pumps) <=> Has(tasks, Pumps) /\ h.kind # "PumpRead")
    /\ h.kind = "StartWrite" => Has(tasks, Writes) /\ Has(tasks, WriteOf(h.arg))
    /\ Single(tasks, Writes) =>
         Single(tasks', Writes) /\ (Has(tasks', Writes) <=> Has(tasks, Writes) /\ h.kind # "StartWrite")
    /\ \A n \in 1 .. SendBudget :
         Has(tasks, WriteOf(n)) => Has(tasks', WriteOf(n)) \/ (h.kind = "StartWrite" /\ h.arg = n)
    /\ \A n \in 1 .. ReceiveBudget :
         Single(tasks, ReadyFor(n)) =>
           /\ Single(tasks', ReadyFor(n))
           /\ h.kind = "Ready" /\ h.arg = n => Has(tasks, ReadyFor(n))
           /\ Has(tasks', ReadyFor(n)) <=>
                Has(tasks, ReadyFor(n)) /\ ~(h.kind = "Ready" /\ h.arg = n)

LEMMA QueueSame == ASSUME TaskTypes, UNCHANGED tasks PROVE QueueGrows(FALSE, None, None)
  BY DEF QueueGrows, TaskTypes, None

\* One task posted.
LEMMA QueuePosted ==
    ASSUME TaskTypes, NEW t \in Tasks, tasks' = Append(tasks, t)
    PROVE  QueueGrows(t.kind = "PumpRead", IF t.kind = "StartWrite" THEN t.arg ELSE None,
                      IF t.kind = "Ready" THEN t.arg ELSE None)
  <1>1. \A S : /\ Has(tasks', S) <=> Has(tasks, S) \/ t \in S
               /\ Single(tasks, S) /\ (t \in S => ~Has(tasks, S)) => Single(tasks', S)
    BY PostedTask DEF TaskTypes
  <1>2. TaskTypes'
    BY DEF TaskTypes
  <1>3. t.kind = "StartWrite" => t.arg # None
    BY TaskKinds DEF None
  <1>4. \A n \in 1 .. SendBudget :
            t \in WriteOf(n) <=> n = IF t.kind = "StartWrite" THEN t.arg ELSE None
    BY TaskKinds DEF None
  <1>5. \A n \in 1 .. ReceiveBudget :
            t \in ReadyFor(n) <=> n = IF t.kind = "Ready" THEN t.arg ELSE None
    BY TaskKinds DEF None
  <1>6. /\ t \in Pumps <=> t.kind = "PumpRead"
        /\ t \in Writes <=> (IF t.kind = "StartWrite" THEN t.arg ELSE None) # None
    BY <1>3, TaskKinds
  <1>7. QED
    BY <1>1, <1>2, <1>4, <1>5, <1>6, Zenon DEF QueueGrows

\* A result posted behind the pump.
LEMMA QueueTwice ==
    ASSUME TaskTypes, NEW n \in 1 .. ReceiveBudget,
           tasks' = Append(Append(tasks, Task("PumpRead", None)), Task("Ready", n))
    PROVE  QueueGrows(TRUE, None, n)
  <1> DEFINE a == Task("PumpRead", None)
             b == Task("Ready", n)
             mid == Append(tasks, a)
  <1>0. a \in Tasks /\ b \in Tasks /\ a.kind = "PumpRead" /\ b.kind = "Ready" /\ b.arg = n
    BY TaskKinds
  <1>1. mid \in Seq(Tasks) /\ tasks \in Seq(Tasks) /\ TaskTypes'
    BY <1>0 DEF TaskTypes
  <1> HIDE DEF a, b
  <1>2. \A S : /\ Has(mid, S) <=> Has(tasks, S) \/ a \in S
               /\ Single(tasks, S) /\ (a \in S => ~Has(tasks, S)) => Single(mid, S)
    BY <1>0, <1>1, PostedTask
  <1>m. tasks' = Append(mid, b)
    BY DEF a, b
  <1> HIDE DEF mid
  <1>3. \A S : /\ Has(tasks', S) <=> Has(mid, S) \/ b \in S
               /\ Single(mid, S) /\ (b \in S => ~Has(mid, S)) => Single(tasks', S)
    <2>1. \A S : /\ Has(Append(mid, b), S) <=> Has(mid, S) \/ b \in S
                 /\ Single(mid, S) /\ (b \in S => ~Has(mid, S)) => Single(Append(mid, b), S)
      BY <1>0, <1>1, PostedTask
    <2>2. QED
      BY <1>m, <2>1, Zenon
  <1>4. /\ a \in Pumps /\ b \notin Pumps /\ a \notin Writes /\ b \notin Writes
        /\ \A k : a \notin WriteOf(k) /\ b \notin WriteOf(k) /\ a \notin ReadyFor(k)
        /\ \A k : b \in ReadyFor(k) <=> k = n
    BY <1>0, TaskKinds
  <1>5. QED
    BY <1>1, <1>2, <1>3, <1>4 DEF QueueGrows, None

\* The front taken.
LEMMA QueueTaken ==
    ASSUME TaskTypes, tasks # <<>>, tasks' = Tail(tasks), NEW h, h = Head(tasks)
    PROVE  QueueShrinks(h)
  <1>1. \A S : /\ h \in S => Has(tasks, S)
               /\ Has(tasks', S) => Has(tasks, S)
               /\ Has(tasks, S) => Has(tasks', S) \/ h \in S
               /\ Single(tasks, S) => Single(tasks', S) /\ (h \in S => ~Has(tasks', S))
    BY TakenTask DEF TaskTypes
  <1>2. h \in Tasks /\ TaskTypes'
    BY TakenTask DEF TaskTypes
  <1>3. /\ h \in Pumps <=> h.kind = "PumpRead"
        /\ h \in Writes <=> h.kind = "StartWrite"
        /\ \A n : h \in WriteOf(n) <=> h.kind = "StartWrite" /\ h.arg = n
        /\ \A n : h \in ReadyFor(n) <=> h.kind = "Ready" /\ h.arg = n
    BY <1>2, TaskKinds
  <1>4. QED
    BY <1>1, <1>2, <1>3 DEF QueueShrinks

\* ResumeReadsIfPaused posts the pump when it is due and can be, and then the
\* result of receive r, if there is one.
LEMMA QueueResumed ==
    ASSUME TaskTypes, NEW rest, NEW ok \in BOOLEAN, NEW r \in 0 .. ReceiveBudget, NEW after,
           after = IF r = None THEN <<>> ELSE <<Task("Ready", r)>>,
           ResumeReadsIfPaused(rest, ok, after)
    PROVE  QueueGrows(ResumeDue(rest) /\ ok, None, r)
  <1> DEFINE a == Task("PumpRead", None)
             b == Task("Ready", r)
             mid == tasks \o (IF ResumeDue(rest) /\ ok THEN <<a>> ELSE <<>>)
  <1>0. a \in Tasks /\ a.kind = "PumpRead" /\ b.kind = "Ready" /\ b.arg = r
    BY TaskKinds
  <1>1. tasks \in Seq(Tasks) /\ r \in Nat /\ (r # None => b \in Tasks /\ r \in 1 .. ReceiveBudget)
    BY TaskKinds, BoundsAssumption DEF TaskTypes, None
  <1>2. tasks' = mid \o after
    BY Zenon DEF ResumeReadsIfPaused
  <1> HIDE DEF a, b
  <1>3. mid = IF ResumeDue(rest) /\ ok THEN Append(tasks, a) ELSE tasks
    BY <1>0, <1>1, AppendIsConcat, ConcatEmptySeq
  <1>4. mid \in Seq(Tasks)
    BY <1>0, <1>1, <1>3
  <1> HIDE DEF mid
  <1>5. tasks' = IF r = None THEN mid ELSE Append(mid, b)
    BY <1>1, <1>2, <1>4, AppendIsConcat, ConcatEmptySeq DEF b
  <1>6. CASE ResumeDue(rest) /\ ok /\ r # None
    <2>1. tasks' = Append(Append(tasks, a), b)
      BY <1>3, <1>5, <1>6, Zenon
    <2>2. QueueGrows(TRUE, None, r)
      BY <1>1, <1>6, <2>1, QueueTwice DEF a, b
    <2>3. QED
      BY <1>6, <2>2 DEF QueueGrows
  <1>7. CASE ResumeDue(rest) /\ ok /\ r = None
    <2>1. tasks' = Append(tasks, a)
      BY <1>3, <1>5, <1>7, Zenon
    <2>2. QueueGrows(a.kind = "PumpRead", IF a.kind = "StartWrite" THEN a.arg ELSE None,
                     IF a.kind = "Ready" THEN a.arg ELSE None)
      BY <1>0, <2>1, QueuePosted
    <2>3. QED
      BY <1>0, <1>7, <2>2 DEF QueueGrows
  <1>8. CASE ~(ResumeDue(rest) /\ ok) /\ r # None
    <2>1. tasks' = Append(tasks, b)
      BY <1>3, <1>5, <1>8, Zenon
    <2>2. QueueGrows(b.kind = "PumpRead", IF b.kind = "StartWrite" THEN b.arg ELSE None,
                     IF b.kind = "Ready" THEN b.arg ELSE None)
      BY <1>1, <1>8, <2>1, QueuePosted
    <2>3. QED
      BY <1>0, <1>8, <2>2 DEF QueueGrows
  <1>9. CASE ~(ResumeDue(rest) /\ ok) /\ r = None
    <2>1. tasks' = tasks
      BY <1>3, <1>5, <1>9, Zenon
    <2>2. QueueGrows(FALSE, None, None)
      BY <2>1, QueueSame
    <2>3. QED
      BY <1>9, <2>2 DEF QueueGrows
  <1>10. QED
    BY <1>6, <1>7, <1>8, <1>9

-----------------------------------------------------------------------------
\* Operations, completions and who owes them.

\* The operations the budgets allow, by kind.
LEMMA IssuableOps ==
    /\ \A n \in 1 .. SendBudget : SendOp(n) \in Issuable
    /\ \A n \in 1 .. ReceiveBudget : ReceiveOp(n) \in Issuable
    /\ \A n : /\ SendOp(n).kind = "send" /\ SendOp(n).n = n
              /\ ReceiveOp(n).kind = "receive" /\ ReceiveOp(n).n = n
    /\ \A n, k : /\ SendOp(n) = SendOp(k) <=> n = k
                 /\ ReceiveOp(n) = ReceiveOp(k) <=> n = k
                 /\ SendOp(n) # ReceiveOp(k)
    /\ \A op \in Issuable : \/ \E n \in 1 .. SendBudget : op = SendOp(n)
                            \/ \E n \in 1 .. ReceiveBudget : op = ReceiveOp(n)
  <1>1. \A n : /\ SendOp(n).kind = "send" /\ SendOp(n).n = n
               /\ ReceiveOp(n).kind = "receive" /\ ReceiveOp(n).n = n
    BY DEF SendOp, ReceiveOp
  <1>2. \A n, k : /\ SendOp(n) = SendOp(k) <=> n = k
                  /\ ReceiveOp(n) = ReceiveOp(k) <=> n = k
                  /\ SendOp(n) # ReceiveOp(k)
    BY <1>1
  <1>3. QED
    BY <1>1, <1>2 DEF Issuable

\* What is on a short list.
LEMMA EntriesOf ==
    /\ Entries(<<>>) = {}
    /\ \A x : Entries(<<x>>) = {x}
    /\ \A x, y : Entries(<<x, y>>) = {x, y}
  <1>1. ASSUME NEW x PROVE Entries(<<x>>) = {x}
    BY DEF Entries
  <1>2. ASSUME NEW x, NEW y PROVE Entries(<<x, y>>) = {x, y}
    <2>1. Len(<<x, y>>) = 2 /\ <<x, y>>[1] = x /\ <<x, y>>[2] = y
      OBVIOUS
    <2>2. QED
      BY <2>1 DEF Entries
  <1>3. QED
    BY <1>1, <1>2 DEF Entries

LEMMA CompletionFields ==
    /\ \A op, out : Completion(op, out).op = op /\ Completion(op, out).out = out
    /\ \A op \in Issuable : \A out \in Outcomes : Completion(op, out) \in Completions
    /\ \A x \in Completions : x = Completion(x.op, x.out) /\ x.op \in Issuable /\ x.out \in Outcomes
  BY DEF Completion, Completions

\* No list holds two completions of one operation.
OncePerOp(todo) ==
    \A i, j \in 1 .. Len(todo) : todo[i].op = todo[j].op => i = j

\* A thread takes on a list: it is added to what is promised, and nothing is
\* promised twice when the operations on the list were not owed before.
LEMMA DebtAdded ==
    ASSUME DebtInv, owed \in SUBSET Debts, NEW b, NEW todo,
           owed' = owed \cup {[strand |-> b, todo |-> todo]}
    PROVE  /\ Promised' = Promised \cup Entries(todo)
           /\ /\ OncePerOp(todo)
              /\ \A x \in Entries(todo) : ~Owing(x.op)
              => DebtInv'
  <1> DEFINE d == [strand |-> b, todo |-> todo]
  <1>1. Promised' = Promised \cup Entries(todo)
    <2>1. Promised' = UNION {Entries(c.todo) : c \in owed'}
      BY DEF Promised, Entries
    <2>2. d.todo = todo
      OBVIOUS
    <2> HIDE DEF d
    <2>3. QED
      BY <2>1, <2>2 DEF Promised, d
  <1>2. ASSUME OncePerOp(todo),
               \A x \in Entries(todo) : ~Owing(x.op)
        PROVE  DebtInv'
    <2>1. d.todo = todo
      OBVIOUS
    <2> HIDE DEF d
    <2>3. ASSUME NEW c \in owed, NEW i \in 1 .. Len(c.todo), NEW j \in 1 .. Len(todo)
          PROVE  c.todo[i].op # todo[j].op
      <3>1. c.todo[i] \in Promised /\ todo[j] \in Entries(todo)
        BY DEF Promised, Entries
      <3>2. QED
        BY <1>2, <3>1 DEF Owing
    <2>4. ASSUME NEW c \in owed', NEW f \in owed', NEW i \in 1 .. Len(c.todo),
                 NEW j \in 1 .. Len(f.todo), c.todo[i].op = f.todo[j].op
          PROVE  c = f /\ i = j
      <3>1. CASE c \in owed /\ f \in owed
        BY <2>4, <3>1 DEF DebtInv
      <3>2. CASE c = d /\ f \in owed
        BY <2>1, <2>3, <2>4, <3>2
      <3>3. CASE c \in owed /\ f = d
        BY <2>1, <2>3, <2>4, <3>3
      <3>4. CASE c = d /\ f = d
        BY <1>2, <2>1, <2>4, <3>4 DEF OncePerOp
      <3>5. QED
        BY <3>1, <3>2, <3>3, <3>4 DEF d
    <2>5. QED
      BY <2>4 DEF DebtInv
  <1>3. QED
    BY <1>1, <1>2

\* A thread's list without its first completion.
Shortened(c) ==
    IF Len(c.todo) = 1 THEN {} ELSE {[strand |-> c.strand, todo |-> Tail(c.todo)]}

\* A thread runs the first completion on its list: only that one is no
\* longer owed, and the rest of the list is.
LEMMA DebtPaid ==
    ASSUME DebtInv, owed \in SUBSET Debts, NEW c \in owed,
           owed' = (owed \ {c}) \cup Shortened(c)
    PROVE  /\ DebtInv'
           /\ Head(c.todo) \in Promised /\ Head(c.todo) \in Completions
           /\ Promised' = Promised \ {Head(c.todo)}
           /\ \A x \in Promised' : x.op # Head(c.todo).op
  <1> DEFINE d == [strand |-> c.strand, todo |-> Tail(c.todo)]
             h == Head(c.todo)
  <1>1. c.todo \in Seq(Completions) /\ c.todo # <<>>
    BY DEF Debts
  <1>2. /\ Len(c.todo) \in Nat /\ Len(c.todo) >= 1 /\ h = c.todo[1]
        /\ Tail(c.todo) \in Seq(Completions) /\ Len(Tail(c.todo)) = Len(c.todo) - 1
        /\ \A i \in 1 .. Len(Tail(c.todo)) : Tail(c.todo)[i] = c.todo[i + 1]
    BY <1>1, EmptySeq, HeadTailProperties
  <1>n. Len(c.todo) = 1 \/ Len(c.todo) > 1
    <2>1. PICK n \in Nat : n = Len(c.todo) /\ n >= 1
      BY <1>2
    <2>2. n >= 1
      BY <2>1, Zenon
    <2>3. n = 1 \/ n > 1
      BY <2>2
    <2>4. QED
      BY <2>1, <2>3, Zenon
  <1>3. d.todo = Tail(c.todo)
    OBVIOUS
  <1>4. h \in Promised /\ h \in Completions
    BY <1>1, <1>2 DEF Promised, Entries
  <1>5. Shortened(c) = IF Len(c.todo) = 1 THEN {} ELSE {d}
    BY DEF Shortened
  <1> HIDE DEF d, h
  <1>6. /\ \A f \in owed' : \/ f \in owed /\ f # c
                            \/ f = d /\ Len(c.todo) > 1
        /\ Len(c.todo) > 1 => d \in owed'
        /\ \A f \in owed : f # c => f \in owed'
    <2>1. CASE Len(c.todo) = 1
      BY <1>5, <2>1
    <2>2. CASE ~(Len(c.todo) = 1)
      <3>1. owed' = (owed \ {c}) \cup {d}
        BY <1>5, <2>2, Zenon
      <3>2. Len(c.todo) > 1
        BY <1>n, <2>2
      <3>3. QED
        BY <3>1, <3>2, Zenon
    <2>3. QED
      BY <2>1, <2>2
  <1>7. \A i \in 1 .. Len(d.todo) :
            /\ i + 1 \in 1 .. Len(c.todo) /\ i + 1 # 1 /\ 1 \in 1 .. Len(c.todo)
            /\ d.todo[i] = c.todo[i + 1]
    BY <1>2, <1>3
  <1>8. \A i, j \in 1 .. Len(c.todo) : c.todo[i].op = c.todo[j].op => i = j
    BY DEF DebtInv
  <1>9. \A f \in owed : f # c =>
            \A i \in 1 .. Len(c.todo), j \in 1 .. Len(f.todo) : c.todo[i].op # f.todo[j].op
    BY DEF DebtInv
  <1>10. Promised' = UNION {Entries(f.todo) : f \in owed'}
    BY DEF Promised, Entries
  <1>11. ASSUME NEW x \in Promised' PROVE x \in Promised /\ x.op # h.op
    <2>1. PICK f \in owed' : x \in Entries(f.todo)
      BY <1>10
    <2>2. PICK i \in 1 .. Len(f.todo) : x = f.todo[i]
      BY <2>1 DEF Entries
    <2>3. CASE f \in owed /\ f # c
      <3>1. x \in Promised
        BY <2>1, <2>3 DEF Promised
      <3>2. QED
        BY <1>2, <1>9, <2>2, <2>3, <3>1
    <2>4. CASE f = d /\ Len(c.todo) > 1
      <3>1. i + 1 \in 1 .. Len(c.todo) /\ x = c.todo[i + 1] /\ i + 1 # 1
        BY <1>7, <2>2, <2>4
      <3>2. x \in Promised
        BY <3>1 DEF Promised, Entries
      <3>3. QED
        BY <1>2, <1>8, <3>1, <3>2
    <2>5. QED
      BY <1>6, <2>3, <2>4
  <1>12. ASSUME NEW x \in Promised, x # h PROVE x \in Promised'
    <2>1. PICK f \in owed : x \in Entries(f.todo)
      BY DEF Promised
    <2>2. PICK i \in 1 .. Len(f.todo) : x = f.todo[i]
      BY <2>1 DEF Entries
    <2>3. CASE f # c
      BY <1>6, <1>10, <2>1, <2>3
    <2>4. CASE f = c
      <3>1. i \in Nat /\ i > 1 /\ Len(c.todo) > 1
        BY <1>2, <1>12, <2>2, <2>4
      <3>2. i - 1 \in 1 .. Len(Tail(c.todo)) /\ x = Tail(c.todo)[i - 1]
        BY <1>2, <2>2, <2>4, <3>1
      <3>3. x \in Entries(d.todo)
        BY <1>3, <3>2 DEF Entries
      <3>4. QED
        BY <1>6, <1>10, <3>1, <3>3
    <2>5. QED
      BY <2>3, <2>4
  <1>13. ASSUME NEW f \in owed', NEW g \in owed', NEW i \in 1 .. Len(f.todo),
                NEW j \in 1 .. Len(g.todo), f.todo[i].op = g.todo[j].op
         PROVE  f = g /\ i = j
    <2>1. CASE f \in owed /\ g \in owed
      BY <1>13, <2>1 DEF DebtInv
    <2>2. CASE f = d /\ g \in owed /\ g # c
      BY <1>7, <1>9, <1>13, <2>2
    <2>3. CASE g = d /\ f \in owed /\ f # c
      BY <1>7, <1>9, <1>13, <2>3
    <2>4. CASE f = d /\ g = d
      <3>1. /\ i + 1 \in 1 .. Len(c.todo) /\ j + 1 \in 1 .. Len(c.todo)
            /\ f.todo[i] = c.todo[i + 1] /\ g.todo[j] = c.todo[j + 1]
        BY <1>7, <2>4
      <3>2. i + 1 = j + 1
        BY <1>8, <1>13, <3>1
      <3>3. QED
        BY <2>4, <3>2
    <2>5. QED
      BY <1>6, <2>1, <2>2, <2>3, <2>4
  <1>14. DebtInv'
    BY <1>13 DEF DebtInv
  <1>15. Promised' = Promised \ {h}
    BY <1>11, <1>12
  <1>16. QED
    BY <1>4, <1>11, <1>14, <1>15 DEF h

\* An operation that is owed is owed in one place.
LEMMA OwedOnce ==
    ASSUME DebtTypes, DebtInv, NEW op
    PROVE  Cardinality(OwedPlaces(op)) = IF Owing(op) THEN 1 ELSE 0
  <1>1. \A c \in owed : DOMAIN c.todo = 1 .. Len(c.todo)
    BY DEF DebtTypes, Debts
  <1>2. \A p : p \in OwedPlaces(op) <=>
           \E c \in owed : \E i \in 1 .. Len(c.todo) : p = <<c, i>> /\ c.todo[i].op = op
    BY <1>1 DEF OwedPlaces
  <1>3. Owing(op) <=> \E c \in owed : \E i \in 1 .. Len(c.todo) : c.todo[i].op = op
    BY DEF Owing, Promised, Entries
  <1>4. CASE ~Owing(op)
    <2>1. OwedPlaces(op) = {}
      BY <1>2, <1>3, <1>4
    <2>2. QED
      BY <1>4, <2>1, FS_EmptySet
  <1>5. CASE Owing(op)
    <2>1. PICK c \in owed : \E i \in 1 .. Len(c.todo) : c.todo[i].op = op
      BY <1>3, <1>5
    <2>2. PICK i \in 1 .. Len(c.todo) : c.todo[i].op = op
      BY <2>1
    <2>3. \A d \in owed : \A j \in 1 .. Len(d.todo) : d.todo[j].op = op => d = c /\ j = i
      BY <2>2 DEF DebtInv
    <2>4. OwedPlaces(op) = {<<c, i>>}
      BY <1>2, <2>2, <2>3
    <2>5. QED
      BY <1>5, <2>4, FS_Singleton
  <1>6. QED
    BY <1>4, <1>5

-----------------------------------------------------------------------------
\* What a step tells.

\* What an operation was told is in its log or in somebody's debt.
GivenByLogOrDebt ==
    \A op \in Issuable : \A out :
        out \in Given(op) <=> \/ \E i \in 1 .. Len(log[op]) : log[op][i] = out
                              \/ \E x \in Promised : x.op = op /\ x.out = out
LEMMA GivenMeans == DebtTypes => GivenByLogOrDebt
  <1> SUFFICES ASSUME DebtTypes, NEW op \in Issuable, NEW out
               PROVE  out \in Given(op) <=> \/ \E i \in 1 .. Len(log[op]) : log[op][i] = out
                                            \/ \E x \in Promised : x.op = op /\ x.out = out
    BY DEF GivenByLogOrDebt
  <1>1. DOMAIN log[op] = 1 .. Len(log[op])
    BY DEF DebtTypes
  <1>2. \A c \in owed : DOMAIN c.todo = 1 .. Len(c.todo)
    BY DEF DebtTypes, Debts
  <1>3. \A p : p \in OwedPlaces(op) <=>
           \E c \in owed : \E i \in 1 .. Len(c.todo) : p = <<c, i>> /\ c.todo[i].op = op
    BY <1>2 DEF OwedPlaces
  <1>4. (\E p \in OwedPlaces(op) : p[1].todo[p[2]].out = out)
          <=> \E c \in owed : \E i \in 1 .. Len(c.todo) : c.todo[i].op = op /\ c.todo[i].out = out
    <2>1. ASSUME NEW p \in OwedPlaces(op), p[1].todo[p[2]].out = out
          PROVE  \E c \in owed : \E i \in 1 .. Len(c.todo) : c.todo[i].op = op /\ c.todo[i].out = out
      BY <1>3, <2>1
    <2>2. ASSUME NEW c \in owed, NEW i \in 1 .. Len(c.todo), c.todo[i].op = op, c.todo[i].out = out
          PROVE  \E p \in OwedPlaces(op) : p[1].todo[p[2]].out = out
      <3>1. <<c, i>> \in OwedPlaces(op) /\ <<c, i>>[1] = c /\ <<c, i>>[2] = i
        BY <1>3, <2>2
      <3>2. QED
        BY <2>2, <3>1
    <2>3. QED
      BY <2>1, <2>2
  <1>5. (\E x \in Promised : x.op = op /\ x.out = out)
          <=> \E c \in owed : \E i \in 1 .. Len(c.todo) : c.todo[i].op = op /\ c.todo[i].out = out
    BY DEF Promised, Entries
  <1>6. QED
    BY <1>1, <1>4, <1>5 DEF Given

\* How a step changes what one operation has been told: not at all, or by one
\* more outcome.
Kept(op) ==
    /\ Answers(op)' = Answers(op)
    /\ \A out : (out \in Given(op))' <=> out \in Given(op)
Answered(op, o) ==
    /\ Answers(op)' = Answers(op) + 1
    /\ \A out : (out \in Given(op))' <=> out \in Given(op) \/ out = o

\* From the debts and the log of the operation alone.
LEMMA Told ==
    ASSUME DebtTypes, DebtTypes', NEW op \in Issuable
    PROVE  /\ /\ log'[op] = log[op]
              /\ \A x : x.op = op => (x \in Promised' <=> x \in Promised)
              => Kept(op)
           /\ \A o : /\ log'[op] = Append(log[op], o)
                     /\ \A x : x.op = op => (x \in Promised' <=> x \in Promised)
                     => Answered(op, o)
           /\ \A o : /\ log'[op] = log[op]
                     /\ ~Owing(op) /\ Completion(op, o) \in Promised'
                     /\ \A x \in Promised' : x.op = op => x = Completion(op, o)
                     => Answered(op, o)
           /\ \A o : /\ log'[op] = Append(log[op], o)
                     /\ ~Owing(op)' /\ Completion(op, o) \in Promised
                     /\ \A x \in Promised : x.op = op => x = Completion(op, o)
                     => Kept(op)
  <1>1. log[op] \in Seq(Outcomes) /\ log'[op] \in Seq(Outcomes)
    BY DEF DebtTypes
  <1>2. /\ \A out : out \in Given(op) <=> \/ \E i \in 1 .. Len(log[op]) : log[op][i] = out
                                          \/ \E x \in Promised : x.op = op /\ x.out = out
        /\ \A out : (out \in Given(op))' <=> \/ \E i \in 1 .. Len(log'[op]) : log'[op][i] = out
                                             \/ \E x \in Promised' : x.op = op /\ x.out = out
    <2>1. GivenByLogOrDebt /\ GivenByLogOrDebt'
      BY GivenMeans, PTL
    <2>2. QED
      BY <2>1 DEF GivenByLogOrDebt
  <1>3. ASSUME NEW o, log'[op] = Append(log[op], o)
        PROVE  /\ Len(log'[op]) = Len(log[op]) + 1
               /\ \A out : (\E i \in 1 .. Len(log'[op]) : log'[op][i] = out)
                             <=> (\E i \in 1 .. Len(log[op]) : log[op][i] = out) \/ out = o
    <2>1. PICK m \in Nat : m = Len(log[op])
      BY <1>1
    <2>2. Len(log'[op]) = m + 1 /\ log'[op][m + 1] = o /\ \A i \in 1 .. m : log'[op][i] = log[op][i]
      BY <1>1, <1>3, <2>1
    <2>3. \A i : i \in 1 .. m + 1 <=> i \in 1 .. m \/ i = m + 1
      OBVIOUS
    <2>4. QED
      BY <2>1, <2>2, <2>3, Zenon
  <1>4. Owing(op) <=> \E x \in Promised : x.op = op
    BY DEF Owing
  <1>5. Owing(op)' <=> \E x \in Promised' : x.op = op
    BY DEF Owing
  <1>7. Len(log[op]) \in Nat /\ Len(log'[op]) \in Nat
    BY <1>1
  <1>6. /\ Owing(op) => Answers(op) = Len(log[op]) + 1
        /\ ~Owing(op) => Answers(op) = Len(log[op])
        /\ Owing(op)' => Answers(op)' = Len(log'[op]) + 1
        /\ ~Owing(op)' => Answers(op)' = Len(log'[op])
    <2>1. /\ Owing(op) => Answers(op) = 1 + Len(log[op])
          /\ ~Owing(op) => Answers(op) = 0 + Len(log[op])
      BY Zenon DEF Answers, One
    <2>2. /\ Owing(op)' => Answers(op)' = 1 + Len(log'[op])
          /\ ~Owing(op)' => Answers(op)' = 0 + Len(log'[op])
      BY Zenon DEF Answers, One
    <2>3. QED
      BY <1>7, <2>1, <2>2
  <1>8. ASSUME log'[op] = log[op], \A x : x.op = op => (x \in Promised' <=> x \in Promised)
        PROVE  Kept(op)
    <2>1. Owing(op)' <=> Owing(op)
      BY <1>4, <1>5, <1>8, Zenon
    <2>2. \A out : (out \in Given(op))' <=> out \in Given(op)
      BY <1>2, <1>8, Zenon
    <2>3. Answers(op)' = Answers(op)
      BY <1>6, <1>8, <2>1, Zenon
    <2>4. QED
      BY <2>2, <2>3 DEF Kept
  <1>9. ASSUME NEW o, log'[op] = Append(log[op], o),
               \A x : x.op = op => (x \in Promised' <=> x \in Promised)
        PROVE  Answered(op, o)
    <2>1. Owing(op)' <=> Owing(op)
      BY <1>4, <1>5, <1>9, Zenon
    <2>2. \A out : (out \in Given(op))' <=> out \in Given(op) \/ out = o
      BY <1>2, <1>3, <1>9, Zenon
    <2>3. Answers(op)' = Answers(op) + 1
      BY <1>3, <1>6, <1>7, <1>9, <2>1
    <2>4. QED
      BY <2>2, <2>3 DEF Answered
  <1>10. ASSUME NEW o, log'[op] = log[op], ~Owing(op), Completion(op, o) \in Promised',
                \A x \in Promised' : x.op = op => x = Completion(op, o)
         PROVE  Answered(op, o)
    <2>1. Owing(op)'
      BY <1>5, <1>10, CompletionFields
    <2>c. Completion(op, o).op = op /\ Completion(op, o).out = o
      BY CompletionFields
    <2>2. \A out : (\E x \in Promised' : x.op = op /\ x.out = out) <=> out = o
      <3>1. ASSUME NEW out, NEW x \in Promised', x.op = op, x.out = out PROVE out = o
        BY <1>10, <2>c, <3>1
      <3>2. QED
        BY <1>10, <2>c, <3>1, Zenon
    <2>3. ~\E x \in Promised : x.op = op
      BY <1>4, <1>10
    <2>4. \A out : (out \in Given(op))' <=> out \in Given(op) \/ out = o
      BY <1>2, <1>10, <2>2, <2>3, ZenonT(30)
    <2>5. Answers(op)' = Answers(op) + 1
      BY <1>6, <1>7, <1>10, <2>1
    <2>6. QED
      BY <2>4, <2>5 DEF Answered
  <1>11. ASSUME NEW o, log'[op] = Append(log[op], o), ~Owing(op)', Completion(op, o) \in Promised,
                \A x \in Promised : x.op = op => x = Completion(op, o)
         PROVE  Kept(op)
    <2>1. Owing(op)
      BY <1>4, <1>11, CompletionFields
    <2>c. Completion(op, o).op = op /\ Completion(op, o).out = o
      BY CompletionFields
    <2>2. \A out : (\E x \in Promised : x.op = op /\ x.out = out) <=> out = o
      <3>1. ASSUME NEW out, NEW x \in Promised, x.op = op, x.out = out PROVE out = o
        BY <1>11, <2>c, <3>1
      <3>2. QED
        BY <1>11, <2>c, <3>1, Zenon
    <2>3. ~\E x \in Promised' : x.op = op
      BY <1>5, <1>11
    <2>4. \A out : (out \in Given(op))' <=> out \in Given(op)
      <3> SUFFICES ASSUME NEW out PROVE (out \in Given(op))' <=> out \in Given(op)
        OBVIOUS
      <3>1. (out \in Given(op))' <=> \E i \in 1 .. Len(log'[op]) : log'[op][i] = out
        BY <1>2, <2>3, Zenon
      <3>2. out \in Given(op) <=> (\E i \in 1 .. Len(log[op]) : log[op][i] = out) \/ out = o
        BY <1>2, <2>2, Zenon
      <3>3. QED
        BY <1>3, <1>11, <3>1, <3>2, Zenon
    <2>5. Answers(op)' = Answers(op)
      BY <1>3, <1>6, <1>7, <1>11, <2>1
    <2>6. QED
      BY <2>4, <2>5 DEF Kept
  <1>12. QED
    BY <1>8, <1>9, <1>10, <1>11, Zenon

\* A step tells send k the outcome ko and receive j the outcome jo, at once
\* or by a completion it owes; None where it tells no send, or no receive.
Tell(k, ko, j, jo) ==
    /\ DebtTypes' /\ DebtInv'
    /\ \A n \in 1 .. SendBudget : /\ n = k => Answered(SendOp(n), ko)
                                  /\ n # k => Kept(SendOp(n))
    /\ \A n \in 1 .. ReceiveBudget : /\ n = j => Answered(ReceiveOp(n), jo)
                                     /\ n # j => Kept(ReceiveOp(n))

LEMMA TellsNothing ==
    ASSUME DebtTypes, DebtInv, UNCHANGED <<owed, log>>, NEW ko, NEW jo
    PROVE  Tell(None, ko, None, jo)
  <1>1. DebtTypes' /\ DebtInv' /\ Promised' = Promised
    BY DEF DebtTypes, DebtInv, Promised, Entries
  <1>2. \A op \in Issuable : Kept(op)
    BY <1>1, Told
  <1>3. \A n \in 1 .. SendBudget : n # None /\ Kept(SendOp(n))
    BY <1>2, IssuableOps DEF None
  <1>4. \A n \in 1 .. ReceiveBudget : n # None /\ Kept(ReceiveOp(n))
    BY <1>2, IssuableOps DEF None
  <1>5. QED
    BY <1>1, <1>3, <1>4, Zenon DEF Tell

\* A call that returns, or whose callback runs inline.
LEMMA ReportTells ==
    ASSUME DebtTypes, DebtInv, NEW op \in Issuable, NEW out \in Outcomes,
           Report(op, out), UNCHANGED owed
    PROVE  /\ DebtTypes' /\ DebtInv' /\ Answered(op, out)
           /\ \A x \in Issuable : x # op => Kept(x)
  <1>1. DebtInv' /\ Promised' = Promised
    BY DEF DebtInv, Promised, Entries
  <1>2. DebtTypes'
    BY DEF DebtTypes, Report
  <1>3. \A x \in Issuable : log'[x] = IF x = op THEN Append(log[x], out) ELSE log[x]
    BY DEF DebtTypes, Report
  <1>4. Answered(op, out)
    BY <1>1, <1>2, <1>3, Told
  <1>5. \A x \in Issuable : x # op => Kept(x)
    BY <1>1, <1>2, <1>3, Told
  <1>6. QED
    BY <1>1, <1>2, <1>4, <1>5

LEMMA TellsSend ==
    ASSUME DebtTypes, DebtInv, NEW k \in 1 .. SendBudget, NEW ko \in Outcomes,
           Report(SendOp(k), ko), UNCHANGED owed, NEW jo
    PROVE  Tell(k, ko, None, jo)
  <1>1. /\ SendOp(k) \in Issuable
        /\ \A n \in 1 .. SendBudget : SendOp(n) \in Issuable /\ (n # k => SendOp(n) # SendOp(k))
        /\ \A n \in 1 .. ReceiveBudget : ReceiveOp(n) \in Issuable /\ ReceiveOp(n) # SendOp(k) /\ n # None
    BY IssuableOps DEF None
  <1>2. /\ DebtTypes' /\ DebtInv' /\ Answered(SendOp(k), ko)
        /\ \A x \in Issuable : x # SendOp(k) => Kept(x)
    BY <1>1, ReportTells
  <1>3. QED
    BY <1>1, <1>2, Zenon DEF Tell

LEMMA TellsReceive ==
    ASSUME DebtTypes, DebtInv, NEW j \in 1 .. ReceiveBudget, NEW jo \in Outcomes,
           Report(ReceiveOp(j), jo), UNCHANGED owed, NEW ko
    PROVE  Tell(None, ko, j, jo)
  <1>1. /\ ReceiveOp(j) \in Issuable
        /\ \A n \in 1 .. SendBudget : SendOp(n) \in Issuable /\ SendOp(n) # ReceiveOp(j) /\ n # None
        /\ \A n \in 1 .. ReceiveBudget : ReceiveOp(n) \in Issuable /\ (n # j => ReceiveOp(n) # ReceiveOp(j))
    BY IssuableOps DEF None
  <1>2. /\ DebtTypes' /\ DebtInv' /\ Answered(ReceiveOp(j), jo)
        /\ \A x \in Issuable : x # ReceiveOp(j) => Kept(x)
    BY <1>1, ReportTells
  <1>3. QED
    BY <1>1, <1>2, Zenon DEF Tell

\* The lists a step may owe: a parked send's outcome, then a parked receive's.
DueList(k, ko, j, jo) == Parked(SendOp(k), ko) \o Parked(ReceiveOp(j), jo)
DueSet(k, ko, j, jo) ==
    (IF k = None THEN {} ELSE {Completion(SendOp(k), ko)})
      \cup (IF j = None THEN {} ELSE {Completion(ReceiveOp(j), jo)})

LEMMA DueLists ==
    ASSUME NEW k \in 0 .. SendBudget, NEW j \in 0 .. ReceiveBudget,
           NEW ko \in Outcomes, NEW jo \in Outcomes, NEW todo, todo = DueList(k, ko, j, jo)
    PROVE  /\ todo \in Seq(Completions) /\ OncePerOp(todo)
           /\ Entries(todo) = DueSet(k, ko, j, jo)
           /\ k = None => todo = Parked(ReceiveOp(j), jo)
           /\ j = None => todo = Parked(SendOp(k), ko)
  <1> DEFINE x == Completion(SendOp(k), ko)
             y == Completion(ReceiveOp(j), jo)
  <1>1. /\ k # None => k \in 1 .. SendBudget
        /\ j # None => j \in 1 .. ReceiveBudget
    BY BoundsAssumption DEF None
  <1>2. /\ k # None => x \in Completions
        /\ j # None => y \in Completions
        /\ x.op = SendOp(k) /\ y.op = ReceiveOp(j) /\ x.op # y.op
    BY <1>1, IssuableOps, CompletionFields
  <1>3. todo = (IF k = None THEN <<>> ELSE <<x>>) \o (IF j = None THEN <<>> ELSE <<y>>)
    BY IssuableOps DEF DueList, Parked
  <1>5. /\ Parked(SendOp(k), ko) = (IF k = None THEN <<>> ELSE <<x>>)
        /\ Parked(ReceiveOp(j), jo) = (IF j = None THEN <<>> ELSE <<y>>)
    BY IssuableOps DEF Parked
  <1>6. DueSet(k, ko, j, jo) = (IF k = None THEN {} ELSE {x}) \cup (IF j = None THEN {} ELSE {y})
    BY DEF DueSet
  <1> HIDE DEF x, y
  <1>7. CASE k = None /\ j = None
    <2>1. todo = <<>>
      BY <1>3, <1>7
    <2>2. QED
      BY <1>5, <1>6, <1>7, <2>1, EntriesOf DEF OncePerOp
  <1>8. CASE k # None /\ j = None
    <2>1. todo = <<x>>
      BY <1>3, <1>8
    <2>2. Len(todo) = 1 /\ OncePerOp(todo)
      BY <2>1 DEF OncePerOp
    <2>3. todo \in Seq(Completions)
      <3>1. x \in Completions
        BY <1>2, <1>8
      <3>2. <<x>> \in Seq(Completions)
        BY <3>1
      <3>3. QED
        BY <2>1, <3>2, Zenon
    <2>4. Entries(todo) = {x} /\ DueSet(k, ko, j, jo) = {x}
      BY <1>6, <1>8, <2>1, EntriesOf
    <2>5. QED
      BY <1>5, <1>8, <2>1, <2>2, <2>3, <2>4, Zenon
  <1>9. CASE k = None /\ j # None
    <2>1. todo = <<y>>
      BY <1>3, <1>9
    <2>2. Len(todo) = 1 /\ OncePerOp(todo)
      BY <2>1 DEF OncePerOp
    <2>3. todo \in Seq(Completions)
      <3>1. y \in Completions
        BY <1>2, <1>9
      <3>2. <<y>> \in Seq(Completions)
        BY <3>1
      <3>3. QED
        BY <2>1, <3>2, Zenon
    <2>4. Entries(todo) = {y} /\ DueSet(k, ko, j, jo) = {y}
      BY <1>6, <1>9, <2>1, EntriesOf
    <2>5. QED
      BY <1>5, <1>9, <2>1, <2>2, <2>3, <2>4, Zenon
  <1>10. CASE k # None /\ j # None
    <2>1. todo = <<x>> \o <<y>>
      BY <1>3, <1>10, Zenon
    <2>2. <<x>> \in Seq(Completions) /\ <<y>> \in Seq(Completions)
      BY <1>2, <1>10
    <2>3. todo \in Seq(Completions) /\ Len(todo) = 2 /\ todo[1] = x /\ todo[2] = y
      BY <2>1, <2>2
    <2>4. OncePerOp(todo)
      BY <1>2, <2>3 DEF OncePerOp
    <2>5. Entries(todo) = {x, y}
      BY <2>3 DEF Entries
    <2>6. QED
      BY <1>6, <1>10, <2>3, <2>4, <2>5, Zenon
  <1>11. QED
    BY <1>7, <1>8, <1>9, <1>10

\* The waiters a handler takes are told by what it owes.
LEMMA TellsDue ==
    ASSUME DebtTypes, DebtInv, NEW k \in 0 .. SendBudget, NEW j \in 0 .. ReceiveBudget,
           NEW ko \in Outcomes, NEW jo \in Outcomes, NEW strand \in BOOLEAN, NEW todo,
           todo = DueList(k, ko, j, jo), Owe(strand, todo), UNCHANGED log,
           k # None => ~Owing(SendOp(k)), j # None => ~Owing(ReceiveOp(j))
    PROVE  Tell(k, ko, j, jo)
  <1>1. /\ todo \in Seq(Completions) /\ OncePerOp(todo)
        /\ Entries(todo) = DueSet(k, ko, j, jo)
    BY DueLists
  <1>2. /\ k # None => k \in 1 .. SendBudget
        /\ j # None => j \in 1 .. ReceiveBudget
    BY BoundsAssumption DEF None
  <1>3. \A x \in Entries(todo) : ~Owing(x.op)
    BY <1>1, CompletionFields DEF DueSet
  <1>4. DebtTypes' /\ DebtInv' /\ Promised' = Promised \cup Entries(todo)
    <2>1. CASE todo = <<>>
      <3>1. owed' = owed
        BY <2>1 DEF Owe
      <3>2. DebtInv' /\ Promised' = Promised
        BY <3>1 DEF DebtInv, Promised, Entries
      <3>3. QED
        BY <2>1, <3>1, <3>2, EntriesOf DEF DebtTypes
    <2>2. CASE todo # <<>>
      <3>1. owed' = owed \cup {[strand |-> strand, todo |-> todo]}
        BY <2>2 DEF Owe
      <3>2. [strand |-> strand, todo |-> todo] \in Debts
        BY <1>1, <2>2 DEF Debts
      <3>3. owed \in SUBSET Debts
        BY DEF DebtTypes
      <3>4. Promised' = Promised \cup Entries(todo) /\ DebtInv'
        BY <1>1, <1>3, <3>1, <3>3, DebtAdded
      <3>5. QED
        BY <3>1, <3>2, <3>4 DEF DebtTypes
    <2>3. QED
      BY <2>1, <2>2
  <1>5. ASSUME NEW op \in Issuable, \A x \in Entries(todo) : x.op # op PROVE Kept(op)
    BY <1>4, <1>5, Told
  <1>6. ASSUME NEW op \in Issuable, NEW o, ~Owing(op), Completion(op, o) \in Entries(todo),
               \A x \in Entries(todo) : x.op = op => x = Completion(op, o)
        PROVE  Answered(op, o)
    <2>1. Completion(op, o) \in Promised' /\ \A x \in Promised' : x.op = op => x = Completion(op, o)
      BY <1>4, <1>6 DEF Owing
    <2>2. QED
      BY <1>4, <1>6, <2>1, Told
  <1>7. ASSUME NEW n \in 1 .. SendBudget
        PROVE  (n = k => Answered(SendOp(n), ko)) /\ (n # k => Kept(SendOp(n)))
    <2>1. SendOp(n) \in Issuable /\ n # None
      BY IssuableOps DEF None
    <2>2. \A x \in Entries(todo) : x.op = SendOp(n) => n = k /\ x = Completion(SendOp(n), ko)
      BY <1>1, IssuableOps, CompletionFields DEF DueSet
    <2>3. n = k => Completion(SendOp(n), ko) \in Entries(todo) /\ ~Owing(SendOp(n))
      BY <1>1, <2>1 DEF DueSet
    <2>4. QED
      BY <1>5, <1>6, <2>1, <2>2, <2>3, Zenon
  <1>8. ASSUME NEW n \in 1 .. ReceiveBudget
        PROVE  (n = j => Answered(ReceiveOp(n), jo)) /\ (n # j => Kept(ReceiveOp(n)))
    <2>1. ReceiveOp(n) \in Issuable /\ n # None
      BY IssuableOps DEF None
    <2>2. \A x \in Entries(todo) : x.op = ReceiveOp(n) => n = j /\ x = Completion(ReceiveOp(n), jo)
      BY <1>1, IssuableOps, CompletionFields DEF DueSet
    <2>3. n = j => Completion(ReceiveOp(n), jo) \in Entries(todo) /\ ~Owing(ReceiveOp(n))
      BY <1>1, <2>1 DEF DueSet
    <2>4. QED
      BY <1>5, <1>6, <2>1, <2>2, <2>3, Zenon
  <1>9. QED
    BY <1>4, <1>7, <1>8 DEF Tell

\* A completion that runs was already counted.
LEMMA TellsFire ==
    ASSUME DebtTypes, DebtInv, Fire, NEW ko, NEW jo
    PROVE  Tell(None, ko, None, jo)
  <1>1. PICK c \in owed : /\ log' = [log EXCEPT ![Head(c.todo).op] = Append(@, Head(c.todo).out)]
                          /\ owed' = (owed \ {c}) \cup Shortened(c)
    BY Zenon DEF Fire, Shortened
  <1>2. PICK h : h = Head(c.todo)
    OBVIOUS
  <1>3. /\ DebtInv' /\ h \in Promised /\ h \in Completions
        /\ Promised' = Promised \ {h} /\ \A x \in Promised' : x.op # h.op
    BY <1>1, <1>2, DebtPaid DEF DebtTypes
  <1>4. h = Completion(h.op, h.out) /\ h.op \in Issuable /\ h.out \in Outcomes
    BY <1>3, CompletionFields
  <1>5. \A x \in Issuable : log'[x] = IF x = h.op THEN Append(log[x], h.out) ELSE log[x]
    BY <1>1, <1>2, <1>4 DEF DebtTypes
  <1>6. DebtTypes'
    <2>1. log' \in [Issuable -> Seq(Outcomes)]
      BY <1>1, <1>2, <1>4 DEF DebtTypes
    <2>2. c \in Debts /\ c.todo \in Seq(Completions) /\ c.todo # <<>> /\ c.strand \in BOOLEAN
      BY DEF DebtTypes, Debts
    <2>3. Tail(c.todo) \in Seq(Completions) /\ (Len(c.todo) # 1 => Tail(c.todo) # <<>>)
      <3>1. PICK s \in Seq(Completions) : s = c.todo /\ s # <<>>
        BY <2>2
      <3>2. Tail(s) \in Seq(Completions) /\ Len(Tail(s)) = Len(s) - 1 /\ Len(s) \in Nat /\ Len(s) >= 1
        BY <3>1, HeadTailProperties, EmptySeq
      <3>3. Len(s) # 1 => Tail(s) # <<>>
        <4>1. PICK m \in Nat : m = Len(s) /\ Len(Tail(s)) = m - 1
          BY <3>2
        <4>2. ASSUME Tail(s) = <<>> PROVE m = 1
          <5>0. Len(<<>>) = 0
            OBVIOUS
          <5>1. Len(Tail(s)) = 0
            BY <4>2, <5>0, Zenon
          <5>2. m - 1 = 0
            BY <4>1, <5>1
          <5>3. QED
            BY <5>2
        <4>3. QED
          BY <4>1, <4>2, Zenon
      <3>4. QED
        BY <3>1, <3>2, <3>3, Zenon
    <2>4. Shortened(c) \subseteq Debts
      <3>1. Len(c.todo) # 1 => [strand |-> c.strand, todo |-> Tail(c.todo)] \in Debts
        BY <2>2, <2>3 DEF Debts
      <3>2. QED
        BY <3>1, Zenon DEF Shortened
    <2>5. QED
      BY <1>1, <2>1, <2>4 DEF DebtTypes
  <1>7. \A x \in Promised : x.op = h.op => x = h
    BY <1>3
  <1>8. Kept(h.op)
    <2>1. ~Owing(h.op)'
      BY <1>3 DEF Owing
    <2>2. log'[h.op] = Append(log[h.op], h.out)
      BY <1>4, <1>5
    <2>3. QED
      BY <1>3, <1>4, <1>6, <1>7, <2>1, <2>2, Told
  <1>9. ASSUME NEW op \in Issuable, op # h.op PROVE Kept(op)
    BY <1>3, <1>5, <1>6, <1>9, Told
  <1>10. \A op \in Issuable : Kept(op)
    BY <1>8, <1>9
  <1>11. \A n \in 1 .. SendBudget : n # None /\ Kept(SendOp(n))
    BY <1>10, IssuableOps DEF None
  <1>12. \A n \in 1 .. ReceiveBudget : n # None /\ Kept(ReceiveOp(n))
    BY <1>10, IssuableOps DEF None
  <1>13. QED
    BY <1>3, <1>6, <1>11, <1>12, Zenon DEF Tell

-----------------------------------------------------------------------------
\* Every call waits in one place or has one answer.

LEMMA AnswersCount ==
    ASSUME DebtTypes, NEW op \in Issuable
    PROVE  Answers(op) \in Nat /\ (Owing(op) => Answers(op) >= 1)
  <1>1. PICK m \in Nat : m = Len(log[op])
    BY DEF DebtTypes
  <1>2. CASE Owing(op)
    <2>1. Answers(op) = 1 + m
      BY <1>1, <1>2 DEF Answers, One
    <2>2. QED
      BY <2>1
  <1>3. CASE ~Owing(op)
    <2>1. Answers(op) = 0 + m
      BY <1>1, <1>3 DEF Answers, One
    <2>2. QED
      BY <1>3, <2>1
  <1>4. QED
    BY <1>2, <1>3

\* Who is parked has no completion on its way.
LEMMA ParkedUnowed ==
    ASSUME Types, SendOnce, ReceiveOnce
    PROVE  /\ pending_send # None => ~Owing(SendOp(pending_send))
           /\ pending_receive # None => ~Owing(ReceiveOp(pending_receive))
  <1>1. ASSUME pending_send # None PROVE ~Owing(SendOp(pending_send))
    <2>1. PICK n \in 1 .. SendBudget : n = pending_send
      BY <1>1 DEF Types, SendTypes, None
    <2>2. One(pending_send = n) + One(turn = n) + Answers(SendOp(n)) = One(n <= sends)
      BY DEF SendOnce
    <2>3. PICK a \in Nat : a = Answers(SendOp(n)) /\ (Owing(SendOp(n)) => a >= 1)
      BY AnswersCount, IssuableOps DEF Types
    <2>4. a = 0
      BY <2>1, <2>2, <2>3 DEF One
    <2>5. QED
      BY <2>1, <2>3, <2>4
  <1>2. ASSUME pending_receive # None PROVE ~Owing(ReceiveOp(pending_receive))
    <2>1. PICK n \in 1 .. ReceiveBudget : n = pending_receive
      BY <1>2 DEF Types, ReceiveTypes, None
    <2>2. One(pending_receive = n) + One(BlockedFor(n)) + One(Has(tasks, ReadyFor(n)))
            + Answers(ReceiveOp(n)) = One(n <= receives)
      BY DEF ReceiveOnce
    <2>3. PICK a \in Nat : a = Answers(ReceiveOp(n)) /\ (Owing(ReceiveOp(n)) => a >= 1)
      BY AnswersCount, IssuableOps DEF Types
    <2>4. a = 0
      BY <2>1, <2>2, <2>3 DEF One
    <2>5. QED
      BY <2>1, <2>3, <2>4
  <1>3. QED
    BY <1>1, <1>2

\* What a step does to the sends, with k the one it tells: nothing; issue one
\* that is refused, takes its turn or parks; return from the turn; take the
\* parked one.
SendMove(k) ==
    \/ k = None /\ sends' = sends /\ pending_send' = pending_send /\ turn' = turn
    \/ k = sends + 1 /\ sends' = sends + 1 /\ pending_send' = pending_send /\ turn' = turn
    \/ /\ k = None /\ sends' = sends + 1 /\ pending_send' = pending_send
       /\ turn = None /\ turn' = sends + 1
    \/ /\ k = None /\ sends' = sends + 1 /\ turn' = turn
       /\ pending_send = None /\ pending_send' = sends + 1
    \/ k = turn /\ turn' = None /\ sends' = sends /\ pending_send' = pending_send
    \/ k = pending_send /\ pending_send' = None /\ sends' = sends /\ turn' = turn

LEMMA SendMoved ==
    ASSUME Types, SendOnce, NEW k, NEW ko, NEW j, NEW jo, Tell(k, ko, j, jo), SendMove(k)
    PROVE  SendOnce'
  <1> SUFFICES ASSUME NEW n \in 1 .. SendBudget
               PROVE  One(pending_send' = n) + One(turn' = n) + Answers(SendOp(n))' = One(n <= sends')
    BY DEF SendOnce, One
  <1>1. PICK a \in Nat : a = Answers(SendOp(n))
    BY AnswersCount, IssuableOps DEF Types
  <1>2. (n = k => Answers(SendOp(n))' = a + 1) /\ (n # k => Answers(SendOp(n))' = a)
    BY <1>1 DEF Tell, Answered, Kept
  <1>3. PICK b : b = Answers(SendOp(n))'
    OBVIOUS
  <1>4. One(pending_send = n) + One(turn = n) + a = One(n <= sends)
    BY <1>1 DEF SendOnce
  <1>5. sends \in Nat /\ turn \in Nat /\ pending_send \in Nat /\ n \in Nat /\ n >= 1
    BY DEF Types, SendTypes
  <1>6. One(pending_send' = n) + One(turn' = n) + b = One(n <= sends')
    BY <1>2, <1>3, <1>4, <1>5 DEF SendMove, One, None
  <1>7. QED
    BY <1>3, <1>6, Zenon

\* What a step does to the posted results.
ReadyPosted(r) ==
    \A n \in 1 .. ReceiveBudget :
        /\ Has(tasks', ReadyFor(n)) <=> Has(tasks, ReadyFor(n)) \/ n = r
        /\ Single(tasks, ReadyFor(n)) /\ (n = r => ~Has(tasks, ReadyFor(n)))
             => Single(tasks', ReadyFor(n))
ReadyTaken(r) ==
    \A n \in 1 .. ReceiveBudget :
        /\ Has(tasks', ReadyFor(n)) <=> Has(tasks, ReadyFor(n)) /\ n # r
        /\ n = r => Has(tasks, ReadyFor(n))
        /\ Single(tasks', ReadyFor(n))

\* What a step does to the receives, with j the one it tells: nothing; issue
\* one that is answered, blocks, parks, or has its result posted; wake a
\* blocked one; take the parked one; run a posted result.
ReceiveMove(j) ==
    \/ /\ j = None /\ receives' = receives /\ pending_receive' = pending_receive
       /\ blocked_receivers' = blocked_receivers /\ ReadyPosted(None)
    \/ /\ j = receives + 1 /\ receives' = receives + 1 /\ pending_receive' = pending_receive
       /\ blocked_receivers' = blocked_receivers /\ ReadyPosted(None)
    \/ /\ j = None /\ receives' = receives + 1 /\ pending_receive' = pending_receive
       /\ \E timed \in BOOLEAN :
            blocked_receivers' = blocked_receivers \cup {[n |-> receives + 1, timed |-> timed]}
       /\ ReadyPosted(None)
    \/ /\ j = None /\ receives' = receives + 1
       /\ pending_receive = None /\ pending_receive' = receives + 1
       /\ blocked_receivers' = blocked_receivers /\ ReadyPosted(None)
    \/ /\ j = None /\ receives' = receives + 1 /\ pending_receive' = pending_receive
       /\ blocked_receivers' = blocked_receivers /\ ReadyPosted(receives + 1)
    \/ /\ receives' = receives /\ pending_receive' = pending_receive
       /\ \E r \in blocked_receivers : j = r.n /\ blocked_receivers' = blocked_receivers \ {r}
       /\ ReadyPosted(None)
    \/ /\ j = pending_receive /\ receives' = receives /\ pending_receive' = None
       /\ blocked_receivers' = blocked_receivers /\ ReadyPosted(None)
    \/ /\ receives' = receives /\ pending_receive' = pending_receive
       /\ blocked_receivers' = blocked_receivers /\ ReadyTaken(j)

LEMMA ReceiveMoved ==
    ASSUME Types, ReceiveOnce, NEW k, NEW ko, NEW j, NEW jo, Tell(k, ko, j, jo), ReceiveMove(j),
           receives' <= ReceiveBudget
    PROVE  ReceiveOnce'
  <1>0. /\ receives \in Nat /\ pending_receive \in Nat /\ ReceiveBudget \in Nat
        /\ blocked_receivers \subseteq [n : 1 .. ReceiveBudget, timed : BOOLEAN]
    BY BoundsAssumption DEF Types, ReceiveTypes
  <1>1. \A n \in 1 .. ReceiveBudget :
          \E a \in Nat :
            /\ One(pending_receive = n) + One(BlockedFor(n)) + One(Has(tasks, ReadyFor(n))) + a
                 = One(n <= receives)
            /\ n = j => Answers(ReceiveOp(n))' = a + 1
            /\ n # j => Answers(ReceiveOp(n))' = a
    <2> SUFFICES ASSUME NEW n \in 1 .. ReceiveBudget
                 PROVE  \E a \in Nat :
                          /\ One(pending_receive = n) + One(BlockedFor(n))
                               + One(Has(tasks, ReadyFor(n))) + a = One(n <= receives)
                          /\ n = j => Answers(ReceiveOp(n))' = a + 1
                          /\ n # j => Answers(ReceiveOp(n))' = a
      OBVIOUS
    <2>1. PICK a \in Nat : a = Answers(ReceiveOp(n))
      BY AnswersCount, IssuableOps DEF Types
    <2>2. /\ n = j => Answers(ReceiveOp(n))' = a + 1
          /\ n # j => Answers(ReceiveOp(n))' = a
      BY <2>1 DEF Tell, Answered, Kept
    <2>3. One(pending_receive = n) + One(BlockedFor(n)) + One(Has(tasks, ReadyFor(n))) + a
            = One(n <= receives)
      BY <2>1 DEF ReceiveOnce
    <2>4. QED
      BY <2>2, <2>3, Zenon
  <1>2. \A n \in 1 .. ReceiveBudget : Single(tasks, ReadyFor(n))
    BY DEF ReceiveOnce
  <1>3. \A r, q \in blocked_receivers : r.n = q.n => r = q
    BY DEF ReceiveOnce
  <1>4. \A n \in 1 .. ReceiveBudget :
            n > receives => ~BlockedFor(n) /\ ~Has(tasks, ReadyFor(n)) /\ pending_receive # n
    <2> SUFFICES ASSUME NEW n \in 1 .. ReceiveBudget, n > receives
                 PROVE  ~BlockedFor(n) /\ ~Has(tasks, ReadyFor(n)) /\ pending_receive # n
      OBVIOUS
    <2>1. PICK a \in Nat : One(pending_receive = n) + One(BlockedFor(n))
                             + One(Has(tasks, ReadyFor(n))) + a = One(n <= receives)
      BY <1>1
    <2>2. QED
      BY <1>0, <2>1 DEF One
  \* The places after the step, by the move.
  <1> DEFINE B(n) == \E r \in blocked_receivers' : r.n = n
             R(n) == Has(tasks', ReadyFor(n))
             Count == \A n \in 1 .. ReceiveBudget :
                        One(pending_receive' = n) + One(B(n)) + One(R(n))
                          + Answers(ReceiveOp(n))' = One(n <= receives')
             Singles == \A n \in 1 .. ReceiveBudget : Single(tasks', ReadyFor(n))
             Apart == \A r, q \in blocked_receivers' : r.n = q.n => r = q
             Balance == \A n \in 1 .. ReceiveBudget :
                          One(pending_receive' = n) + One(B(n)) + One(R(n))
                            + One(n = j) + One(n <= receives)
                            = One(pending_receive = n) + One(BlockedFor(n))
                                + One(Has(tasks, ReadyFor(n))) + One(n <= receives')
  \* What leaves a place goes to another or is told, and a new call has one.
  <1>5. SUFFICES Balance /\ Singles /\ Apart
    <2>1. ASSUME Balance, NEW n \in 1 .. ReceiveBudget
          PROVE  One(pending_receive' = n) + One(B(n)) + One(R(n)) + Answers(ReceiveOp(n))'
                   = One(n <= receives')
      <3>1. PICK a \in Nat :
               /\ One(pending_receive = n) + One(BlockedFor(n)) + One(Has(tasks, ReadyFor(n))) + a
                    = One(n <= receives)
               /\ n = j => Answers(ReceiveOp(n))' = a + 1
               /\ n # j => Answers(ReceiveOp(n))' = a
        BY <1>1
      <3>2. PICK b : b = Answers(ReceiveOp(n))'
        OBVIOUS
      <3>3. One(pending_receive' = n) + One(B(n)) + One(R(n)) + One(n = j) + One(n <= receives)
              = One(pending_receive = n) + One(BlockedFor(n)) + One(Has(tasks, ReadyFor(n)))
                  + One(n <= receives')
        BY <2>1
      <3> HIDE DEF B, R
      <3>4. One(pending_receive' = n) + One(B(n)) + One(R(n)) + b = One(n <= receives')
        BY <3>1, <3>2, <3>3 DEF One
      <3>5. QED
        BY <3>2, <3>4, Zenon
    <2>2. Balance => Count
      BY <2>1
    <2>3. QED
      BY <2>2 DEF ReceiveOnce, BlockedFor, One
  <1>6. \A n \in 1 .. ReceiveBudget : BlockedFor(n) <=> \E r \in blocked_receivers : r.n = n
    BY DEF BlockedFor
  <1>7. CASE /\ j = None
             /\ receives' = receives
             /\ pending_receive' = pending_receive
             /\ blocked_receivers' = blocked_receivers
             /\ ReadyPosted(None)
    <2>1. Apart /\ \A n \in 1 .. ReceiveBudget : B(n) <=> BlockedFor(n)
      BY <1>3, <1>6, <1>7
    <2>2. Singles /\ \A n \in 1 .. ReceiveBudget : R(n) <=> Has(tasks, ReadyFor(n))
      BY <1>2, <1>7 DEF ReadyPosted, None
    <2> HIDE DEF B, R
    <2>3. Balance
      BY <1>0, <1>4, <1>7, <2>1, <2>2 DEF One, None
    <2>4. QED
      BY <2>1, <2>2, <2>3
  <1>8. CASE /\ j = receives + 1
             /\ receives' = receives + 1
             /\ pending_receive' = pending_receive
             /\ blocked_receivers' = blocked_receivers
             /\ ReadyPosted(None)
    <2>1. Apart /\ \A n \in 1 .. ReceiveBudget : B(n) <=> BlockedFor(n)
      BY <1>3, <1>6, <1>8
    <2>2. Singles /\ \A n \in 1 .. ReceiveBudget : R(n) <=> Has(tasks, ReadyFor(n))
      BY <1>2, <1>8 DEF ReadyPosted, None
    <2> HIDE DEF B, R
    <2>3. Balance
      BY <1>0, <1>4, <1>8, <2>1, <2>2 DEF One, None
    <2>4. QED
      BY <2>1, <2>2, <2>3
  <1>9. CASE /\ j = None
             /\ receives' = receives + 1
             /\ pending_receive' = pending_receive
             /\ \E timed \in BOOLEAN :
                  blocked_receivers' = blocked_receivers \cup {[n |-> receives + 1, timed |-> timed]}
             /\ ReadyPosted(None)
    <2>0. PICK timed \in BOOLEAN :
             blocked_receivers' = blocked_receivers \cup {[n |-> receives + 1, timed |-> timed]}
      BY <1>9
    <2>a. \A r \in blocked_receivers : r.n # receives + 1
      <3> SUFFICES ASSUME NEW r \in blocked_receivers PROVE r.n # receives + 1
        OBVIOUS
      <3>1. r.n \in 1 .. ReceiveBudget /\ BlockedFor(r.n)
        BY <1>0 DEF BlockedFor
      <3>2. QED
        BY <1>0, <1>4, <3>1
    <2>b. PICK q : q = [n |-> receives + 1, timed |-> timed]
      OBVIOUS
    <2>c. blocked_receivers' = blocked_receivers \cup {q} /\ q.n = receives + 1
      BY <2>0, <2>b
    <2>1. Apart /\ \A n \in 1 .. ReceiveBudget : B(n) <=> BlockedFor(n) \/ n = receives + 1
      BY <1>3, <1>6, <2>a, <2>c
    <2>2. Singles /\ \A n \in 1 .. ReceiveBudget : R(n) <=> Has(tasks, ReadyFor(n))
      BY <1>2, <1>9 DEF ReadyPosted, None
    <2> HIDE DEF B, R
    <2>3. Balance
      BY <1>0, <1>4, <1>9, <2>1, <2>2 DEF One, None
    <2>4. QED
      BY <2>1, <2>2, <2>3
  <1>10. CASE /\ j = None
             /\ receives' = receives + 1
             /\ pending_receive = None
             /\ pending_receive' = receives + 1
             /\ blocked_receivers' = blocked_receivers
             /\ ReadyPosted(None)
    <2>1. Apart /\ \A n \in 1 .. ReceiveBudget : B(n) <=> BlockedFor(n)
      BY <1>3, <1>6, <1>10
    <2>2. Singles /\ \A n \in 1 .. ReceiveBudget : R(n) <=> Has(tasks, ReadyFor(n))
      BY <1>2, <1>10 DEF ReadyPosted, None
    <2> HIDE DEF B, R
    <2>3. Balance
      BY <1>0, <1>4, <1>10, <2>1, <2>2 DEF One, None
    <2>4. QED
      BY <2>1, <2>2, <2>3
  <1>11. CASE /\ j = None
             /\ receives' = receives + 1
             /\ pending_receive' = pending_receive
             /\ blocked_receivers' = blocked_receivers
             /\ ReadyPosted(receives + 1)
    <2>1. Apart /\ \A n \in 1 .. ReceiveBudget : B(n) <=> BlockedFor(n)
      BY <1>3, <1>6, <1>11
    <2>2. Singles /\ \A n \in 1 .. ReceiveBudget : R(n) <=> Has(tasks, ReadyFor(n)) \/ n = receives + 1
      BY <1>0, <1>2, <1>4, <1>11 DEF ReadyPosted
    <2> HIDE DEF B, R
    <2>3. Balance
      BY <1>0, <1>4, <1>11, <2>1, <2>2 DEF One, None
    <2>4. QED
      BY <2>1, <2>2, <2>3
  <1>12. CASE /\ receives' = receives
             /\ pending_receive' = pending_receive
             /\ \E r \in blocked_receivers :
                  j = r.n /\ blocked_receivers' = blocked_receivers \ {r}
             /\ ReadyPosted(None)
    <2>0. PICK r \in blocked_receivers : j = r.n /\ blocked_receivers' = blocked_receivers \ {r}
      BY <1>12
    <2>1. /\ Apart /\ \A n \in 1 .. ReceiveBudget : B(n) <=> BlockedFor(n) /\ n # j
          /\ j \in 1 .. ReceiveBudget /\ BlockedFor(j)
      BY <1>0, <1>3, <1>6, <2>0
    <2>2. Singles /\ \A n \in 1 .. ReceiveBudget : R(n) <=> Has(tasks, ReadyFor(n))
      BY <1>2, <1>12 DEF ReadyPosted, None
    <2> HIDE DEF B, R
    <2>3. Balance
      BY <1>0, <1>4, <1>12, <2>1, <2>2 DEF One, None
    <2>4. QED
      BY <2>1, <2>2, <2>3
  <1>13. CASE /\ j = pending_receive
             /\ receives' = receives
             /\ pending_receive' = None
             /\ blocked_receivers' = blocked_receivers
             /\ ReadyPosted(None)
    <2>1. Apart /\ \A n \in 1 .. ReceiveBudget : B(n) <=> BlockedFor(n)
      BY <1>3, <1>6, <1>13
    <2>2. Singles /\ \A n \in 1 .. ReceiveBudget : R(n) <=> Has(tasks, ReadyFor(n))
      BY <1>2, <1>13 DEF ReadyPosted, None
    <2> HIDE DEF B, R
    <2>3. Balance
      BY <1>0, <1>4, <1>13, <2>1, <2>2 DEF One, None
    <2>4. QED
      BY <2>1, <2>2, <2>3
  <1>14. CASE /\ receives' = receives
             /\ pending_receive' = pending_receive
             /\ blocked_receivers' = blocked_receivers
             /\ ReadyTaken(j)
    <2>1. Apart /\ \A n \in 1 .. ReceiveBudget : B(n) <=> BlockedFor(n)
      BY <1>3, <1>6, <1>14
    <2>2. /\ Singles
          /\ \A n \in 1 .. ReceiveBudget : R(n) <=> Has(tasks, ReadyFor(n)) /\ n # j
          /\ j \in 1 .. ReceiveBudget => Has(tasks, ReadyFor(j))
      BY <1>14 DEF ReadyTaken
    <2> HIDE DEF B, R
    <2>3. Balance
      BY <1>0, <1>4, <1>14, <2>1, <2>2 DEF One, None
    <2>4. QED
      BY <2>1, <2>2, <2>3
  <1>15. QED
    BY <1>7, <1>8, <1>9, <1>10, <1>11, <1>12, <1>13, <1>14, Zenon DEF ReceiveMove

-----------------------------------------------------------------------------
\* What a step leaves alone.

\* The queue holds the pump, and the writes, as before.
PumpsKept == (Has(tasks', Pumps) <=> Has(tasks, Pumps)) /\ Single(tasks', Pumps)
WritesKept ==
    /\ Has(tasks', Writes) => Has(tasks, Writes)
    /\ Single(tasks', Writes)
    /\ \A n \in 1 .. SendBudget : Has(tasks, WriteOf(n)) => Has(tasks', WriteOf(n))

LEMMA GrowthKeeps ==
    ASSUME NEW p \in BOOLEAN, NEW w, NEW r, QueueGrows(p, w, r),
           Single(tasks, Writes), Single(tasks, Pumps)
    PROVE  /\ ReadyPosted(r) /\ TaskTypes'
           /\ ~p => PumpsKept
           /\ w = None => WritesKept
  <1>1. ReadyPosted(r) /\ TaskTypes'
    BY Zenon DEF QueueGrows, ReadyPosted
  <1>2. ~p => PumpsKept
    BY DEF QueueGrows, PumpsKept
  <1>3. w = None => WritesKept
    BY DEF QueueGrows, WritesKept
  <1>4. QED
    BY <1>1, <1>2, <1>3

LEMMA ShrinkageKeeps ==
    ASSUME NEW h, QueueShrinks(h), Single(tasks, Writes), Single(tasks, Pumps), ReceiveOnce
    PROVE  /\ TaskTypes'
           /\ h.kind # "PumpRead" => PumpsKept
           /\ h.kind # "StartWrite" => WritesKept
           /\ h.kind # "Ready" => ReadyPosted(None)
           /\ h.kind = "Ready" => ReadyTaken(h.arg)
  <1>1. h.kind # "PumpRead" => PumpsKept
    BY DEF QueueShrinks, PumpsKept
  <1>2. h.kind # "StartWrite" => WritesKept
    BY DEF QueueShrinks, WritesKept
  <1>3. \A n \in 1 .. ReceiveBudget : Single(tasks, ReadyFor(n))
    BY DEF ReceiveOnce
  <1>4. h.kind # "Ready" => ReadyPosted(None)
    BY <1>3 DEF QueueShrinks, ReadyPosted, None
  <1>5. h.kind = "Ready" => ReadyTaken(h.arg)
    BY <1>3 DEF QueueShrinks, ReadyTaken
  <1>6. QED
    BY <1>1, <1>2, <1>4, <1>5 DEF QueueShrinks

LEMMA WireKept ==
    ASSUME Types, WireInv, WritesKept,
           UNCHANGED <<overlap, wire_write_busy, closing, close_started, write_complete>>,
           close_requested => close_requested', writing = "idle" <=> writing' = "idle"
    PROVE  WireInv'
  BY DEF WireInv, WritesKept

LEMMA PumpKept ==
    ASSUME Types, PumpInv, PumpsKept, UNCHANGED <<pump_next, read_paused, received>>,
           reading = "idle" <=> reading' = "idle", failed => failed',
           peer_closed => peer_closed', close_requested => close_requested'
    PROVE  PumpInv'
  BY DEF PumpInv, PumpsKept

LEMMA DeliveryKept ==
    ASSUME DeliveryInv, UNCHANGED <<received, delivered, peer_sent>>,
           pending_receive' \in {None, pending_receive} \/ received = <<>>,
           reading = "idle" => reading' = "idle"
    PROVE  DeliveryInv'
  BY DEF DeliveryInv, DeliveredInOrder

\* A send that is told of success had its frame on the wire.
LEMMA WriteKept ==
    ASSUME Types, WriteInv, WritesKept, UNCHANGED write_buffer,
           pending_send' \in {None, pending_send},
           stage' = "idle" \/ (stage' = stage /\ turn' = turn),
           on_wire \subseteq on_wire', write_error /\ Ended => write_error' /\ Ended',
           writing # "idle" => writing' # "idle",
           NEW k, NEW ko, NEW j, NEW jo, Tell(k, ko, j, jo), ko = "ok" => k = None \/ k \in on_wire'
    PROVE  WriteInv'
  <1>1. ASSUME NEW n \in 1 .. SendBudget, PostedOrOut(n) PROVE PostedOrOut(n)'
    BY <1>1 DEF PostedOrOut, WritesKept
  <1>2. pending_send' # None => PostedOrOut(pending_send)'
    <2>1. pending_send' # None => pending_send \in 1 .. SendBudget
      BY DEF Types, SendTypes, None
    <2>2. QED
      BY <1>1, <2>1 DEF WriteInv, PostedOrOut
  <1>3. stage' = "written" => \/ turn' \in on_wire' \/ (write_error' /\ Ended')
                              \/ PostedOrOut(turn)'
    <2>1. stage' = "written" => turn \in 1 .. SendBudget
      BY DEF Types, SendTypes, None
    <2>2. QED
      BY <1>1, <2>1 DEF WriteInv, PostedOrOut
  <1>4. SuccessMeansOnWire'
    BY DEF WriteInv, SuccessMeansOnWire, Tell, Answered, Kept, None
  <1>5. QED
    BY <1>2, <1>3, <1>4 DEF WriteInv

\* A receive that is told of the end finds nothing left.
LEMMA EndKept ==
    ASSUME EndInv, peer_closed => peer_closed', peer_closed' => stream_down',
           peer_closed /\ received = <<>> => received' = <<>>,
           NEW k, NEW ko, NEW j, NEW jo, Tell(k, ko, j, jo),
           jo = "end" /\ j # None => peer_closed' /\ received' = <<>>
    PROVE  EndInv'
  BY DEF EndInv, Tell, Answered, Kept, None

-----------------------------------------------------------------------------
\* One side of the session at a time.

\* A step of the receive side: the sends, the writes and the close are left
\* alone, and no send is told anything.
SendSideUnchanged ==
    /\ UNCHANGED <<sends, pending_send, turn, stage, writing, closing, write_buffer, on_wire,
                   write_complete, write_error, wire_write_busy, overlap, close_started,
                   close_requested, peer_closed>>
    /\ failed => failed'
    /\ WritesKept

LEMMA SendSideKept ==
    ASSUME IInv, SendSideUnchanged, NEW ko, NEW j, NEW jo, Tell(None, ko, j, jo)
    PROVE  SendTypes' /\ WireInv' /\ SendOnce' /\ WriteInv'
  <1>1. SendTypes'
    BY DEF IInv, Types, SendTypes, SendSideUnchanged
  <1>2. WireInv'
    BY WireKept DEF IInv, SendSideUnchanged
  <1>3. SendOnce'
    <2>1. SendMove(None)
      BY DEF SendMove, SendSideUnchanged
    <2>2. QED
      BY <2>1, SendMoved DEF IInv
  <1>4. WriteInv'
    <2>1. Ended => Ended'
      BY DEF Ended, SendSideUnchanged
    <2>2. QED
      BY <2>1, WriteKept DEF IInv, SendSideUnchanged
  <1>5. QED
    BY <1>1, <1>2, <1>3, <1>4

\* A step of the send side: the receives, the pump and the messages are left
\* alone, and no receive is told anything.
ReceiveSideUnchanged ==
    /\ UNCHANGED <<received, delivered, peer_sent, receives, pending_receive,
                   receive_park_generation, receive_deadline, blocked_receivers,
                   read_paused, pump_next, peer_closed>>
    /\ reading = "idle" <=> reading' = "idle"
    /\ reading' \in OpStates
    /\ failed => failed'
    /\ close_requested => close_requested'
    /\ stream_down => stream_down'
    /\ PumpsKept /\ ReadyPosted(None)

LEMMA ReceiveSideKept ==
    ASSUME IInv, ReceiveSideUnchanged, NEW k, NEW ko, NEW jo, Tell(k, ko, None, jo)
    PROVE  ReceiveTypes' /\ PumpInv' /\ DeliveryInv' /\ ReceiveOnce' /\ EndInv'
  <1>1. ReceiveTypes'
    BY DEF IInv, Types, ReceiveTypes, ReceiveSideUnchanged
  <1>2. PumpInv'
    BY PumpKept DEF IInv, ReceiveSideUnchanged
  <1>3. DeliveryInv'
    BY DeliveryKept DEF IInv, ReceiveSideUnchanged
  <1>4. ReceiveOnce'
    <2>1. ReceiveMove(None)
      BY DEF ReceiveMove, ReceiveSideUnchanged
    <2>2. receives' <= ReceiveBudget
      BY <1>1 DEF ReceiveTypes
    <2>3. QED
      BY <2>1, <2>2, ReceiveMoved DEF IInv
  <1>5. EndInv'
    <2>1. peer_closed' => stream_down'
      BY DEF IInv, EndInv, ReceiveSideUnchanged
    <2>2. QED
      BY <2>1, EndKept DEF IInv, ReceiveSideUnchanged
  <1>6. QED
    BY <1>1, <1>2, <1>3, <1>4, <1>5

-----------------------------------------------------------------------------
\* Messages change hands.

LEMMA ArrivalConcat ==
    ASSUME NEW S, NEW d \in Seq(S), NEW q \in Seq(S), NEW m \in S
    PROVE  d \o Append(q, m) = Append(d \o q, m)
  <1>1. /\ d \o Append(q, m) \in Seq(S) /\ Append(d \o q, m) \in Seq(S)
        /\ Len(d \o Append(q, m)) = Len(Append(d \o q, m))
    OBVIOUS
  <1>2. \A i \in 1 .. Len(d \o Append(q, m)) :
            (d \o Append(q, m))[i] = Append(d \o q, m)[i]
    OBVIOUS
  <1>3. QED
    BY <1>1, <1>2, SeqEqual

LEMMA FrontConcat ==
    ASSUME NEW S, NEW d \in Seq(S), NEW q \in Seq(S), q # <<>>
    PROVE  /\ Append(d, Head(q)) \o Tail(q) = d \o q
           /\ Append(d, Head(q)) \in Seq(S) /\ Tail(q) \in Seq(S)
           /\ Len(q) \in Nat /\ Len(Tail(q)) = Len(q) - 1
  <1>1. /\ Head(q) \in S /\ Tail(q) \in Seq(S) /\ Len(q) \in Nat \ {0}
        /\ Len(Tail(q)) = Len(q) - 1
    BY EmptySeq, HeadTailProperties
  <1>2. /\ Append(d, Head(q)) \o Tail(q) \in Seq(S) /\ d \o q \in Seq(S)
        /\ Len(Append(d, Head(q)) \o Tail(q)) = Len(d \o q)
    BY <1>1
  <1>3. \A i \in 1 .. Len(d \o q) : (Append(d, Head(q)) \o Tail(q))[i] = (d \o q)[i]
    BY <1>1
  <1>4. Append(d, Head(q)) \o Tail(q) = d \o q
    BY <1>2, <1>3, SeqEqual
  <1>5. Append(d, Head(q)) \in Seq(S) /\ Len(q) \in Nat
    BY <1>1
  <1>6. QED
    BY <1>1, <1>4, <1>5, Zenon

\* A receive takes the oldest message and restarts a paused pump.
LEMMA FrontTaken ==
    ASSUME IInv, received # <<>>, pending_receive = None, NEW ok \in BOOLEAN,
           NEW r \in 0 .. ReceiveBudget, NEW after,
           after = IF r = None THEN <<>> ELSE <<Task("Ready", r)>>,
           TakeFront, ResumeReadsIfPaused(Tail(received), ok, after),
           UNCHANGED <<pending_receive, reading, pump_next, peer_closed, close_requested, peer_sent>>
    PROVE  /\ received' \in Seq(1 .. PeerMessages) /\ delivered' \in Seq(1 .. PeerMessages)
           /\ read_paused' \in BOOLEAN /\ failed' \in BOOLEAN /\ (failed => failed')
           /\ WritesKept /\ ReadyPosted(r) /\ TaskTypes'
           /\ PumpInv' /\ DeliveryInv'
  <1>1. /\ Append(delivered, Head(received)) \o Tail(received) = delivered \o received
        /\ Append(delivered, Head(received)) \in Seq(1 .. PeerMessages)
        /\ Tail(received) \in Seq(1 .. PeerMessages)
        /\ Len(received) \in Nat /\ Len(Tail(received)) = Len(received) - 1
    <2>1. delivered \in Seq(1 .. PeerMessages) /\ received \in Seq(1 .. PeerMessages)
      BY Zenon DEF IInv, Types, ReceiveTypes
    <2>2. QED
      BY <2>1, FrontConcat, Zenon
  <1>2. received' = Tail(received) /\ delivered' = Append(delivered, Head(received))
    BY Zenon DEF TakeFront
  <1>3. PICK l \in Nat : l = Len(received) /\ Len(received') = l - 1
    BY <1>1, <1>2, Zenon
  <1>4. DeliveryInv'
    <2>1. delivered' \o received' = delivered \o received
      BY <1>1, <1>2
    <2>2. QED
      BY <1>3, <2>1, QueueDepthAssumption DEF IInv, DeliveryInv, DeliveredInOrder
  <1>5. PICK due \in BOOLEAN : due <=> ResumeDue(Tail(received))
    BY Zenon DEF ResumeDue
  <1>6. /\ read_paused' = (read_paused /\ ~due) /\ failed' = (failed \/ (due /\ ~ok))
        /\ QueueGrows(due /\ ok, None, r)
    <2>1. QueueGrows(ResumeDue(Tail(received)) /\ ok, None, r)
      BY QueueResumed DEF IInv, Types
    <2>2. due = ResumeDue(Tail(received))
      BY <1>5 DEF ResumeDue
    <2>3. QED
      BY <2>1, <2>2, Zenon DEF ResumeReadsIfPaused
  <1>7. WritesKept /\ ReadyPosted(r) /\ TaskTypes' /\ (~(due /\ ok) => PumpsKept)
    BY <1>6, GrowthKeeps DEF IInv, WireInv, PumpInv
  <1>8. due <=> read_paused /\ ~failed /\ ~peer_closed /\ l - 1 < QueueDepth
    BY <1>1, <1>3, <1>5 DEF ResumeDue
  <1>9. PumpInv'
    <2>1. Single(tasks', Pumps) /\ (Has(tasks', Pumps) <=> Has(tasks, Pumps) \/ (due /\ ok))
      BY <1>6, <1>8 DEF QueueGrows, IInv, PumpInv
    <2>2. QED
      BY <1>3, <1>6, <1>8, <2>1, QueueDepthAssumption DEF IInv, PumpInv, Types, FlagTypes
  <1>10. QED
    BY <1>1, <1>2, <1>4, <1>6, <1>7, <1>9 DEF IInv, Types, FlagTypes

-----------------------------------------------------------------------------
\* The steps of the receive side.

\* All that such a step leaves to be shown.
LEMMA ReceiveSideStep ==
    ASSUME IInv, SendSideUnchanged, stream_down => stream_down',
           FlagTypes', ReceiveTypes', TaskTypes', PumpInv', DeliveryInv',
           NEW ko, NEW j, NEW jo, Tell(None, ko, j, jo), ReceiveMove(j),
           peer_closed /\ received = <<>> => received' = <<>>,
           jo = "end" /\ j # None => peer_closed /\ received' = <<>>
    PROVE  IInv'
  <1>1. SendTypes' /\ WireInv' /\ SendOnce' /\ WriteInv'
    BY SendSideKept
  <1>2. DebtTypes' /\ DebtInv'
    BY DEF Tell
  <1>3. ReceiveOnce'
    <2>1. receives' <= ReceiveBudget
      BY DEF ReceiveTypes
    <2>2. QED
      BY <2>1, ReceiveMoved DEF IInv
  <1>4. EndInv'
    <2>1. peer_closed' = peer_closed /\ (peer_closed' => stream_down')
      BY DEF IInv, EndInv, SendSideUnchanged
    <2>2. QED
      BY <2>1, EndKept DEF IInv
  <1>5. QED
    BY <1>1, <1>2, <1>3, <1>4, Zenon DEF IInv, Types

\* A blocking receive returns: with a message, or with the session's end.
Returned(n) ==
    /\ received' \in Seq(1 .. PeerMessages) /\ delivered' \in Seq(1 .. PeerMessages)
    /\ read_paused' \in BOOLEAN /\ failed' \in BOOLEAN /\ (failed => failed')
    /\ WritesKept /\ ReadyPosted(None) /\ TaskTypes'
    /\ PumpInv' /\ DeliveryInv'
    /\ received = <<>> => received' = <<>>
    /\ \E out \in Outcomes : /\ Tell(None, out, n, out)
                             /\ out = "end" => peer_closed /\ received' = <<>>

LEMMA ReceiveReturns ==
    ASSUME IInv, Settled, NEW n \in 1 .. ReceiveBudget, NEW ok \in BOOLEAN, FinishReceive(n, ok),
           UNCHANGED <<pending_receive, reading, pump_next, peer_closed, close_requested,
                       peer_sent, owed>>
    PROVE  Returned(n)
  <1>0. DebtTypes /\ DebtInv /\ TaskTypes
    BY DEF IInv, Types
  <1>1. CASE InHand
    <2>1. /\ TakeFront /\ ResumeReadsIfPaused(Tail(received), ok, <<>>)
          /\ Report(ReceiveOp(n), "message")
      BY <1>1, Zenon DEF FinishReceive
    <2>2. received # <<>> /\ pending_receive = None
      BY <1>1 DEF InHand
    <2>3. None \in 0 .. ReceiveBudget
      BY BoundsAssumption DEF None
    <2>4. /\ received' \in Seq(1 .. PeerMessages) /\ delivered' \in Seq(1 .. PeerMessages)
          /\ read_paused' \in BOOLEAN /\ failed' \in BOOLEAN /\ (failed => failed')
          /\ WritesKept /\ ReadyPosted(None) /\ TaskTypes'
          /\ PumpInv' /\ DeliveryInv'
      BY <2>1, <2>2, <2>3, FrontTaken
    <2>5. "message" \in Outcomes
      BY DEF Outcomes
    <2>6. Tell(None, "message", n, "message")
      BY <1>0, <2>1, <2>5, TellsReceive
    <2>7. QED
      BY <2>2, <2>4, <2>5, <2>6 DEF Returned
  <1>2. CASE ~InHand
    <2>1. PICK out : out = IF peer_closed THEN "end" ELSE "transport"
      OBVIOUS
    <2>2. /\ Report(ReceiveOp(n), out)
          /\ UNCHANGED <<received, delivered, read_paused, tasks, failed>>
      BY <1>2, <2>1, Zenon DEF FinishReceive
    <2>3. out \in Outcomes /\ (out = "end" => peer_closed)
      BY <2>1 DEF Outcomes
    <2>4. received = <<>>
      BY <1>2 DEF InHand, IInv, DeliveryInv, DeliveredInOrder
    <2>5. Tell(None, out, n, out)
      BY <1>0, <2>2, <2>3, TellsReceive
    <2>6. QueueGrows(FALSE, None, None)
      BY <1>0, <2>2, QueueSame
    <2>7. PumpsKept /\ WritesKept /\ ReadyPosted(None) /\ TaskTypes'
      BY <2>6, GrowthKeeps DEF IInv, WireInv, PumpInv
    <2>8. PumpInv' /\ DeliveryInv'
      BY <2>2, <2>7, PumpKept, DeliveryKept DEF IInv
    <2>9. QED
      BY <2>2, <2>3, <2>4, <2>5, <2>7, <2>8 DEF Returned, IInv, Types, ReceiveTypes, FlagTypes
  <1>3. QED
    BY <1>1, <1>2

LEMMA ReceiveWithinStep ==
    ASSUME IInv, NEW timed \in BOOLEAN, NEW ok \in BOOLEAN, ReceiveWithin(timed, ok)
    PROVE  IInv'
  <1>0. DebtTypes /\ DebtInv /\ TaskTypes
    BY DEF IInv, Types
  <1>1. PICK n \in 1 .. ReceiveBudget : n = receives + 1 /\ receives' = n
    <2>1. receives < ReceiveBudget /\ receives' = receives + 1
      BY Zenon DEF ReceiveWithin
    <2>2. QED
      BY <2>1, BoundsAssumption DEF IInv, Types, ReceiveTypes
  <1>2. UNCHANGED <<pending_receive, receive_park_generation, receive_deadline, peer_closed,
                    close_requested, close_started, peer_close, sendSide, blockingSend, wire,
                    strandSide, owed, sends, closes, aborted, peer_sent, on_wire>>
    BY Zenon DEF ReceiveWithin
  <1>3. /\ UNCHANGED <<sends, pending_send, turn, stage, writing, closing, write_buffer, on_wire,
                       write_complete, write_error, wire_write_busy, overlap, close_started,
                       close_requested, peer_closed>>
        /\ UNCHANGED <<reading, pump_next, stream_down, socket_open, kick_deadline>>
    BY <1>2 DEF sendSide, blockingSend, wire, strandSide
  <1>4. CASE Settled
    <2>1. FinishReceive(n, ok) /\ UNCHANGED blocked_receivers
      BY <1>1, <1>4, Zenon DEF ReceiveWithin
    <2>2. Returned(n)
      BY <1>2, <1>3, <1>4, <2>1, ReceiveReturns
    <2>3. PICK out \in Outcomes :
             Tell(None, out, n, out) /\ (out = "end" => peer_closed /\ received' = <<>>)
      BY <2>2 DEF Returned
    <2>4. SendSideUnchanged
      BY <1>3, <2>2 DEF Returned, SendSideUnchanged
    <2>5. FlagTypes'
      BY <1>2, <1>3, <2>2 DEF Returned, IInv, Types, FlagTypes
    <2>6. ReceiveTypes'
      BY <1>1, <1>2, <1>3, <2>1, <2>2 DEF Returned, IInv, Types, ReceiveTypes
    <2>7. ReceiveMove(n)
      BY <1>1, <1>2, <2>1, <2>2 DEF Returned, ReceiveMove
    <2>8. QED
      BY <1>3, <2>2, <2>3, <2>4, <2>5, <2>6, <2>7, ReceiveSideStep DEF Returned
  <1>5. CASE ~Settled
    <2>1. /\ blocked_receivers' = blocked_receivers \cup {[n |-> receives + 1, timed |-> timed]}
          /\ UNCHANGED <<received, delivered, read_paused, tasks, failed, log>>
      BY <1>5, Zenon DEF ReceiveWithin
    <2>2. QueueGrows(FALSE, None, None) /\ Tell(None, "ok", None, "ok")
      BY <1>0, <1>2, <2>1, QueueSame, TellsNothing
    <2>3. PumpsKept /\ WritesKept /\ ReadyPosted(None) /\ TaskTypes'
      BY <2>2, GrowthKeeps DEF IInv, WireInv, PumpInv
    <2>4. PumpInv' /\ DeliveryInv'
      BY <1>2, <1>3, <2>1, <2>3, PumpKept, DeliveryKept DEF IInv
    <2>5. SendSideUnchanged
      BY <1>3, <2>1, <2>3 DEF SendSideUnchanged
    <2>6. FlagTypes'
      BY <1>2, <1>3, <2>1 DEF IInv, Types, FlagTypes
    <2>7. ReceiveTypes'
      BY <1>1, <1>2, <1>3, <2>1 DEF IInv, Types, ReceiveTypes
    <2>8. ReceiveMove(None)
      BY <1>1, <1>2, <2>1, <2>3 DEF ReceiveMove
    <2>9. QED
      BY <1>3, <2>1, <2>2, <2>3, <2>4, <2>5, <2>6, <2>7, <2>8, ReceiveSideStep
  <1>6. QED
    BY <1>4, <1>5

LEMMA ReceiveWakesStep ==
    ASSUME IInv, NEW ok \in BOOLEAN, ReceiveWakes(ok)
    PROVE  IInv'
  <1>1. PICK r \in blocked_receivers :
            /\ Settled /\ blocked_receivers' = blocked_receivers \ {r} /\ FinishReceive(r.n, ok)
            /\ UNCHANGED <<pending_receive, receive_park_generation, receive_deadline, peer_closed,
                           close_requested, close_started, peer_close, sendSide, blockingSend, wire,
                           strandSide, owed, issued, peer_sent, on_wire>>
    BY Zenon DEF ReceiveWakes
  <1>2. PICK n \in 1 .. ReceiveBudget : n = r.n
    BY DEF IInv, Types, ReceiveTypes
  <1>3. /\ UNCHANGED <<sends, pending_send, turn, stage, writing, closing, write_buffer, on_wire,
                       write_complete, write_error, wire_write_busy, overlap, close_started,
                       close_requested, peer_closed>>
        /\ UNCHANGED <<reading, pump_next, stream_down, socket_open, kick_deadline, receives,
                       closes, aborted>>
    BY <1>1 DEF sendSide, blockingSend, wire, strandSide, issued
  <1>4. Returned(n)
    BY <1>1, <1>2, <1>3, ReceiveReturns
  <1>5. PICK out \in Outcomes :
           Tell(None, out, n, out) /\ (out = "end" => peer_closed /\ received' = <<>>)
    BY <1>4 DEF Returned
  <1>6. SendSideUnchanged
    BY <1>3, <1>4 DEF Returned, SendSideUnchanged
  <1>7. FlagTypes'
    BY <1>1, <1>3, <1>4 DEF Returned, IInv, Types, FlagTypes
  <1>8. ReceiveTypes'
    BY <1>1, <1>3, <1>4 DEF Returned, IInv, Types, ReceiveTypes
  <1>9. ReceiveMove(n)
    BY <1>1, <1>2, <1>3, <1>4 DEF Returned, ReceiveMove
  <1>10. QED
    BY <1>3, <1>4, <1>5, <1>6, <1>7, <1>8, <1>9, ReceiveSideStep DEF Returned

\* A step that moves a receive and no message.
NoMessageMoves ==
    UNCHANGED <<received, delivered, peer_sent, read_paused, failed, peer_closed, peer_close,
                reading, pump_next, stream_down, socket_open, kick_deadline, closes, aborted,
                sends, pending_send, turn, stage, writing, closing, write_buffer, on_wire,
                write_complete, write_error, wire_write_busy, overlap, close_started,
                close_requested>>

LEMMA ReceiveMovesStep ==
    ASSUME IInv, NoMessageMoves, WritesKept, PumpsKept, TaskTypes', ReceiveTypes',
           pending_receive' \in {None, pending_receive} \/ received = <<>>,
           NEW ko, NEW j, NEW jo, Tell(None, ko, j, jo), ReceiveMove(j),
           jo = "end" /\ j # None => peer_closed /\ received = <<>>
    PROVE  IInv'
  <1>1. SendSideUnchanged
    BY DEF NoMessageMoves, SendSideUnchanged
  <1>2. FlagTypes'
    BY DEF NoMessageMoves, IInv, Types, FlagTypes
  <1>3. PumpInv' /\ DeliveryInv'
    BY PumpKept, DeliveryKept DEF IInv, NoMessageMoves
  <1>4. received' = received /\ stream_down' = stream_down
    BY DEF NoMessageMoves
  <1>5. QED
    BY <1>1, <1>2, <1>3, <1>4, ReceiveSideStep

LEMMA ReceiveTimesOutStep ==
    ASSUME IInv, ReceiveTimesOut
    PROVE  IInv'
  <1>0. DebtTypes /\ DebtInv /\ TaskTypes
    BY DEF IInv, Types
  <1>1. PICK r \in blocked_receivers :
            /\ blocked_receivers' = blocked_receivers \ {r} /\ Report(ReceiveOp(r.n), "timeout")
            /\ UNCHANGED <<received, pending_receive, receive_park_generation, receive_deadline,
                           read_paused, flags, sendSide, blockingSend, tasks, wire, strandSide,
                           owed, issued, seen>>
    BY Zenon DEF ReceiveTimesOut
  <1>2. NoMessageMoves /\ UNCHANGED <<receives, owed, tasks>>
    BY <1>1 DEF NoMessageMoves, flags, sendSide, blockingSend, wire, strandSide, issued, seen
  <1>3. PICK n \in 1 .. ReceiveBudget : n = r.n
    BY DEF IInv, Types, ReceiveTypes
  <1>4. "timeout" \in Outcomes
    BY DEF Outcomes
  <1>5. QueueGrows(FALSE, None, None) /\ Tell(None, "timeout", n, "timeout")
    BY <1>0, <1>1, <1>2, <1>3, <1>4, QueueSame, TellsReceive
  <1>6. PumpsKept /\ WritesKept /\ ReadyPosted(None) /\ TaskTypes'
    BY <1>5, GrowthKeeps DEF IInv, WireInv, PumpInv
  <1>7. ReceiveTypes'
    BY <1>1, <1>2 DEF NoMessageMoves, IInv, Types, ReceiveTypes
  <1>8. ReceiveMove(n)
    BY <1>1, <1>2, <1>3, <1>6 DEF ReceiveMove
  <1>9. QED
    BY <1>1, <1>2, <1>5, <1>6, <1>7, <1>8, ReceiveMovesStep

LEMMA DeadlineExpiresStep ==
    ASSUME IInv, DeadlineExpires
    PROVE  IInv'
  <1>0. DebtTypes /\ DebtInv /\ TaskTypes
    BY DEF IInv, Types
  <1>1. /\ receive_deadline # None /\ receive_deadline' = None
        /\ tasks' = Append(tasks, Task("Deadline", receive_deadline))
        /\ UNCHANGED <<received, pending_receive, receive_park_generation, blocked_receivers,
                       read_paused, flags, sendSide, blockingSend, wire, strandSide, owed,
                       issued, seen, log>>
    BY Zenon DEF DeadlineExpires
  <1>2. NoMessageMoves /\ UNCHANGED <<receives, owed, log>>
    BY <1>1 DEF NoMessageMoves, flags, sendSide, blockingSend, wire, strandSide, issued, seen
  <1>3. PICK t \in Tasks : t = Task("Deadline", receive_deadline) /\ t.kind = "Deadline"
    BY <1>1, TaskKinds DEF IInv, Types, ReceiveTypes, None
  <1>4. QueueGrows(t.kind = "PumpRead", IF t.kind = "StartWrite" THEN t.arg ELSE None,
                   IF t.kind = "Ready" THEN t.arg ELSE None)
    BY <1>0, <1>1, <1>3, QueuePosted
  <1>5. QueueGrows(FALSE, None, None) /\ Tell(None, "ok", None, "ok")
    BY <1>0, <1>2, <1>3, <1>4, TellsNothing DEF QueueGrows
  <1>6. PumpsKept /\ WritesKept /\ ReadyPosted(None) /\ TaskTypes'
    BY <1>5, GrowthKeeps DEF IInv, WireInv, PumpInv
  <1>7. ReceiveTypes'
    BY <1>1, <1>2, BoundsAssumption DEF NoMessageMoves, IInv, Types, ReceiveTypes, None
  <1>8. ReceiveMove(None)
    BY <1>1, <1>2, <1>6 DEF ReceiveMove
  <1>9. QED
    BY <1>1, <1>2, <1>5, <1>6, <1>7, <1>8, ReceiveMovesStep

\* A parked receive is told by the handler that takes it.
LEMMA ParkedReceiveTold ==
    ASSUME IInv, pending_receive # None, NEW out \in Outcomes,
           Owe(TRUE, <<Completion(ReceiveOp(pending_receive), out)>>), UNCHANGED log
    PROVE  Tell(None, out, pending_receive, out)
  <1>1. /\ pending_receive \in 1 .. ReceiveBudget /\ None \in 0 .. SendBudget
        /\ DebtTypes /\ DebtInv /\ TRUE \in BOOLEAN
    BY BoundsAssumption DEF IInv, Types, ReceiveTypes, None
  <1>2. PICK j \in 1 .. ReceiveBudget : j = pending_receive
    BY <1>1
  <1>3. j # None /\ j \in 0 .. ReceiveBudget
    BY DEF None
  <1>4. PICK todo : todo = DueList(None, out, j, out)
    OBVIOUS
  <1>5. todo = Parked(ReceiveOp(j), out)
    BY <1>1, <1>3, <1>4, DueLists
  <1>6. todo = <<Completion(ReceiveOp(j), out)>>
    BY <1>3, <1>5, IssuableOps DEF Parked
  <1>7. ~Owing(ReceiveOp(j))
    BY <1>2, <1>3, ParkedUnowed DEF IInv
  <1>8. Owe(TRUE, todo)
    BY <1>2, <1>6
  <1>9. Tell(None, out, j, out)
    BY <1>1, <1>3, <1>4, <1>7, <1>8, TellsDue
  <1>10. QED
    BY <1>2, <1>9

LEMMA OnReceiveDeadlineStep ==
    ASSUME IInv, OnReceiveDeadline
    PROVE  IInv'
  <1>0. DebtTypes /\ DebtInv /\ TaskTypes
    BY DEF IInv, Types
  <1>1. /\ tasks # <<>> /\ Head(tasks).kind = "Deadline" /\ tasks' = Tail(tasks)
        /\ IF StillParked(Head(tasks).arg)
           THEN /\ pending_receive' = None
                /\ Owe(TRUE, <<Completion(ReceiveOp(pending_receive), "timeout")>>)
           ELSE UNCHANGED <<pending_receive, owed>>
        /\ UNCHANGED <<received, receive_park_generation, receive_deadline, blocked_receivers,
                       read_paused, flags, sendSide, blockingSend, wire, strandSide, issued,
                       seen, log>>
    BY Zenon DEF OnReceiveDeadline, NextTask
  <1>2. NoMessageMoves /\ UNCHANGED <<receives, log>>
    BY <1>1 DEF NoMessageMoves, flags, sendSide, blockingSend, wire, strandSide, issued, seen
  <1>3. PICK h : h = Head(tasks)
    OBVIOUS
  <1>4. QueueShrinks(h) /\ h.kind = "Deadline"
    BY <1>0, <1>1, <1>3, QueueTaken
  <1>5. PumpsKept /\ WritesKept /\ ReadyPosted(None) /\ TaskTypes'
    BY <1>4, ShrinkageKeeps DEF IInv, WireInv, PumpInv
  <1>6. CASE StillParked(h.arg)
    <2>1. PICK j \in 1 .. ReceiveBudget : j = pending_receive
      BY <1>6 DEF StillParked, IInv, Types, ReceiveTypes, None
    <2>2. pending_receive' = None /\ Owe(TRUE, <<Completion(ReceiveOp(j), "timeout")>>)
      BY <1>1, <1>3, <1>6, <2>1
    <2>3. Tell(None, "timeout", j, "timeout")
      <3>1. "timeout" \in Outcomes /\ pending_receive # None
        BY <2>1 DEF Outcomes, None
      <3>2. QED
        BY <1>2, <2>1, <2>2, <3>1, ParkedReceiveTold
    <2>4. ReceiveTypes'
      BY <1>1, <1>2, <2>2, BoundsAssumption DEF NoMessageMoves, IInv, Types, ReceiveTypes, None
    <2>5. ReceiveMove(j)
      BY <1>1, <1>2, <1>5, <2>1, <2>2 DEF ReceiveMove
    <2>6. QED
      BY <1>2, <1>5, <2>2, <2>3, <2>4, <2>5, ReceiveMovesStep
  <1>7. CASE ~StillParked(h.arg)
    <2>1. UNCHANGED <<pending_receive, owed>>
      BY <1>1, <1>3, <1>7
    <2>2. Tell(None, "ok", None, "ok")
      BY <1>0, <1>2, <2>1, TellsNothing
    <2>3. ReceiveTypes'
      BY <1>1, <1>2, <2>1 DEF NoMessageMoves, IInv, Types, ReceiveTypes
    <2>4. ReceiveMove(None)
      BY <1>1, <1>2, <1>5, <2>1 DEF ReceiveMove
    <2>5. QED
      BY <1>2, <1>5, <2>1, <2>2, <2>3, <2>4, ReceiveMovesStep
  <1>8. QED
    BY <1>6, <1>7

LEMMA ReadyCompletionStep ==
    ASSUME IInv, ReadyCompletion
    PROVE  IInv'
  <1>0. DebtTypes /\ DebtInv /\ TaskTypes
    BY DEF IInv, Types
  <1>1. /\ tasks # <<>> /\ Head(tasks).kind = "Ready" /\ tasks' = Tail(tasks)
        /\ Report(ReceiveOp(Head(tasks).arg), "message")
        /\ UNCHANGED <<receiveSide, flags, sendSide, blockingSend, wire, strandSide, owed,
                       issued, seen>>
    BY Zenon DEF ReadyCompletion, NextTask
  <1>2. NoMessageMoves /\ UNCHANGED <<receives, owed, pending_receive, receive_park_generation,
                                      receive_deadline, blocked_receivers>>
    BY <1>1 DEF NoMessageMoves, receiveSide, flags, sendSide, blockingSend, wire, strandSide,
                issued, seen
  <1>3. PICK h : h = Head(tasks)
    OBVIOUS
  <1>4. QueueShrinks(h) /\ h.kind = "Ready"
    BY <1>0, <1>1, <1>3, QueueTaken
  <1>5. PumpsKept /\ WritesKept /\ ReadyTaken(h.arg) /\ TaskTypes'
    BY <1>4, ShrinkageKeeps DEF IInv, WireInv, PumpInv
  <1>6. PICK n \in 1 .. ReceiveBudget : n = h.arg
    BY <1>4, TaskKinds DEF QueueShrinks
  <1>7. "message" \in Outcomes /\ Report(ReceiveOp(n), "message")
    BY <1>1, <1>3, <1>6 DEF Outcomes
  <1>8. Tell(None, "message", n, "message")
    BY <1>0, <1>2, <1>7, TellsReceive
  <1>9. ReceiveTypes'
    BY <1>2 DEF NoMessageMoves, IInv, Types, ReceiveTypes
  <1>10. ReceiveMove(n)
    BY <1>2, <1>5, <1>6 DEF ReceiveMove
  <1>11. QED
    BY <1>2, <1>5, <1>8, <1>9, <1>10, ReceiveMovesStep

LEMMA ReceiveAsyncStep ==
    ASSUME IInv, NEW budget, NEW resumed \in BOOLEAN, NEW ok \in BOOLEAN,
           ReceiveAsyncWithin(budget, resumed, ok)
    PROVE  IInv'
  <1>0. DebtTypes /\ DebtInv /\ TaskTypes
    BY DEF IInv, Types
  <1>1. receives < ReceiveBudget /\ receives' = receives + 1
    BY Zenon DEF ReceiveAsyncWithin
  <1>2. PICK n \in 1 .. ReceiveBudget : n = receives + 1 /\ receives' = n
    BY <1>1, BoundsAssumption DEF IInv, Types, ReceiveTypes
  <1>3. UNCHANGED <<peer_closed, close_requested, close_started, peer_close, sendSide,
                    blockingSend, wire, strandSide, owed, sends, closes, aborted, peer_sent, on_wire>>
    BY Zenon DEF ReceiveAsyncWithin
  <1>4. /\ UNCHANGED <<sends, pending_send, turn, stage, writing, closing, write_buffer, on_wire,
                       write_complete, write_error, wire_write_busy, overlap, close_started,
                       close_requested, peer_closed>>
        /\ UNCHANGED <<reading, pump_next, stream_down, socket_open, kick_deadline, owed,
                       peer_sent, closes, aborted, peer_close>>
    BY <1>3 DEF sendSide, blockingSend, wire, strandSide
  \* An answer given at once, and nothing else changed.
  <1>5. ASSUME NEW out \in Outcomes, Report(ReceiveOp(n), out),
               out = "end" => peer_closed /\ received = <<>>,
               UNCHANGED <<received, pending_receive, receive_deadline, blocked_receivers,
                           read_paused, tasks, failed, delivered>>,
               receive_park_generation' \in {receive_park_generation, receive_park_generation + 1}
        PROVE  IInv'
    <2>1. NoMessageMoves
      BY <1>4, <1>5 DEF NoMessageMoves
    <2>2. QueueGrows(FALSE, None, None) /\ Tell(None, out, n, out)
      BY <1>0, <1>4, <1>5, QueueSame, TellsReceive
    <2>3. PumpsKept /\ WritesKept /\ ReadyPosted(None) /\ TaskTypes'
      BY <2>2, GrowthKeeps DEF IInv, WireInv, PumpInv
    <2>4. ReceiveTypes'
      BY <1>2, <1>4, <1>5 DEF IInv, Types, ReceiveTypes
    <2>5. ReceiveMove(n)
      BY <1>2, <1>5, <2>3 DEF ReceiveMove
    <2>6. QED
      BY <1>5, <2>1, <2>2, <2>3, <2>4, <2>5, ReceiveMovesStep
  <1>6. {"validation", "transport", "timeout", "end"} \subseteq Outcomes
    BY DEF Outcomes
  <1>7. CASE /\ ReceiveOutstanding /\ Report(ReceiveOp(n), "validation")
             /\ UNCHANGED <<receiveSide, tasks, failed, delivered>>
    BY <1>5, <1>6, <1>7 DEF receiveSide
  <1>8. CASE /\ ~ReceiveOutstanding /\ received = <<>> /\ (peer_closed \/ failed)
             /\ Report(ReceiveOp(n), IF peer_closed THEN "end" ELSE "transport")
             /\ UNCHANGED <<receiveSide, tasks, failed, delivered>>
    <2>1. UNCHANGED <<received, pending_receive, receive_park_generation, receive_deadline,
                      blocked_receivers, read_paused, tasks, failed, delivered>>
      BY <1>8 DEF receiveSide
    <2>2. CASE peer_closed
      BY <1>5, <1>6, <1>8, <2>1, <2>2
    <2>3. CASE ~peer_closed
      BY <1>5, <1>6, <1>8, <2>1, <2>3
    <2>4. QED
      BY <2>2, <2>3
  <1>9. CASE /\ NothingInHand /\ Report(ReceiveOp(n), "timeout")
             /\ UNCHANGED <<receiveSide, tasks, failed, delivered>>
    BY <1>5, <1>6, <1>9 DEF receiveSide
  \* A message in hand: it is taken now and its completion posted.
  <1>10. CASE /\ ~ReceiveOutstanding /\ received # <<>> /\ TakeFront
              /\ ResumeReadsIfPaused(Tail(received), resumed, IF ok THEN <<Task("Ready", n)>> ELSE <<>>)
              /\ IF ok THEN UNCHANGED log ELSE Report(ReceiveOp(n), "transport")
              /\ UNCHANGED <<pending_receive, receive_park_generation, receive_deadline,
                             blocked_receivers>>
    <2>1. PICK r \in 0 .. ReceiveBudget : r = IF ok THEN n ELSE None
      BY BoundsAssumption DEF None
    <2>2. PICK after : after = IF ok THEN <<Task("Ready", n)>> ELSE <<>>
      OBVIOUS
    <2>3. after = IF r = None THEN <<>> ELSE <<Task("Ready", r)>>
      BY <2>1, <2>2 DEF None
    <2>4. ResumeReadsIfPaused(Tail(received), resumed, after) /\ TakeFront
      BY <1>10, <2>2, Zenon
    <2>5. pending_receive = None /\ received # <<>>
      BY <1>10 DEF ReceiveOutstanding
    <2>6. /\ received' \in Seq(1 .. PeerMessages) /\ delivered' \in Seq(1 .. PeerMessages)
          /\ read_paused' \in BOOLEAN /\ failed' \in BOOLEAN /\ (failed => failed')
          /\ WritesKept /\ ReadyPosted(r) /\ TaskTypes'
          /\ PumpInv' /\ DeliveryInv'
      BY <1>4, <1>10, <2>3, <2>4, <2>5, FrontTaken
    <2>7. SendSideUnchanged
      BY <1>4, <2>6 DEF SendSideUnchanged
    <2>8. FlagTypes'
      BY <1>4, <2>6 DEF IInv, Types, FlagTypes
    <2>9. ReceiveTypes'
      BY <1>2, <1>4, <1>10, <2>6 DEF IInv, Types, ReceiveTypes
    <2>10. CASE ok
      <3>1. Tell(None, "ok", None, "ok")
        BY <1>0, <1>4, <1>10, <2>10, TellsNothing
      <3>2. ReceiveMove(None)
        BY <1>2, <1>10, <2>1, <2>6, <2>10 DEF ReceiveMove
      <3>3. QED
        BY <1>4, <2>5, <2>6, <2>7, <2>8, <2>9, <3>1, <3>2, ReceiveSideStep
    <2>11. CASE ~ok
      <3>1. Tell(None, "transport", n, "transport")
        BY <1>0, <1>4, <1>6, <1>10, <2>11, TellsReceive
      <3>2. ReceiveMove(n)
        BY <1>2, <1>10, <2>1, <2>6, <2>11 DEF ReceiveMove
      <3>3. QED
        BY <1>4, <2>5, <2>6, <2>7, <2>8, <2>9, <3>1, <3>2, ReceiveSideStep
    <2>12. QED
      BY <2>10, <2>11
  <1>11. CASE /\ NothingInHand
              /\ receive_park_generation' = receive_park_generation + 1
              /\ IF budget = "timed" /\ ~ok
                 THEN /\ Report(ReceiveOp(n), "transport")
                      /\ UNCHANGED <<pending_receive, receive_deadline>>
                 ELSE /\ pending_receive' = n
                      /\ receive_deadline' = IF budget = "timed" THEN receive_park_generation + 1
                                                                 ELSE receive_deadline
                      /\ UNCHANGED log
              /\ UNCHANGED <<received, blocked_receivers, read_paused, tasks, failed, delivered>>
    <2>1. CASE budget = "timed" /\ ~ok
      BY <1>5, <1>6, <1>11, <2>1
    <2>2. CASE ~(budget = "timed" /\ ~ok)
      <3>1. /\ pending_receive' = n /\ log' = log
            /\ receive_deadline' \in {receive_deadline, receive_park_generation + 1}
        BY <1>11, <2>2
      <3>2. NoMessageMoves
        BY <1>4, <1>11 DEF NoMessageMoves
      <3>3. QueueGrows(FALSE, None, None) /\ Tell(None, "ok", None, "ok")
        BY <1>0, <1>4, <1>11, <3>1, QueueSame, TellsNothing
      <3>4. PumpsKept /\ WritesKept /\ ReadyPosted(None) /\ TaskTypes'
        BY <3>3, GrowthKeeps DEF IInv, WireInv, PumpInv
      <3>5. ReceiveTypes'
        BY <1>2, <1>4, <1>11, <3>1, BoundsAssumption DEF IInv, Types, ReceiveTypes
      <3>6. pending_receive = None /\ received = <<>>
        BY <1>11 DEF NothingInHand, ReceiveOutstanding
      <3>7. ReceiveMove(None)
        BY <1>2, <1>11, <3>1, <3>4, <3>6 DEF ReceiveMove
      <3>8. QED
        BY <3>2, <3>3, <3>4, <3>5, <3>6, <3>7, ReceiveMovesStep
    <2>3. QED
      BY <2>1, <2>2
  <1>12. QED
    BY <1>2, <1>7, <1>8, <1>9, <1>10, <1>11, Zenon DEF ReceiveAsyncWithin

-----------------------------------------------------------------------------
\* The steps of the send side and of the close.

\* All that such a step leaves to be shown.
LEMMA SendSideStep ==
    ASSUME IInv, ReceiveSideUnchanged, FlagTypes', SendTypes', TaskTypes', WireInv', WriteInv',
           NEW k, NEW ko, NEW jo, Tell(k, ko, None, jo), SendMove(k)
    PROVE  IInv'
  <1>1. ReceiveTypes' /\ PumpInv' /\ DeliveryInv' /\ ReceiveOnce' /\ EndInv'
    BY ReceiveSideKept
  <1>2. DebtTypes' /\ DebtInv'
    BY DEF Tell
  <1>3. SendOnce'
    BY SendMoved DEF IInv
  <1>4. QED
    BY <1>1, <1>2, <1>3, Zenon DEF IInv, Types

\* A write that is posted or out is not complete, and is the only one.
LEMMA WriteInProgress ==
    ASSUME IInv, NEW n, PostedOrOut(n)
    PROVE  ~write_complete
  <1>1. Has(tasks, WriteOf(n)) => Has(tasks, Writes)
    BY DEF Has, WriteOf, Writes
  <1>2. QED
    BY <1>1 DEF PostedOrOut, IInv, WireInv

\* A send's write is posted when none is posted or out.
LEMMA WritePosted ==
    ASSUME IInv, NEW n \in 1 .. SendBudget, write_complete,
           tasks' = Append(tasks, Task("StartWrite", n)), ~write_complete',
           UNCHANGED <<overlap, wire_write_busy, writing, closing, close_started, close_requested,
                       write_buffer>>
    PROVE  /\ TaskTypes' /\ PumpsKept /\ ReadyPosted(None) /\ WireInv'
           /\ PostedOrOut(n)'
           /\ \A k \in 1 .. SendBudget : PostedOrOut(k) => PostedOrOut(k)'
  <1>1. PICK t \in Tasks : t = Task("StartWrite", n) /\ t.kind = "StartWrite" /\ t.arg = n
    BY TaskKinds
  <1>2. QueueGrows(t.kind = "PumpRead", IF t.kind = "StartWrite" THEN t.arg ELSE None,
                   IF t.kind = "Ready" THEN t.arg ELSE None)
    BY <1>1, QueuePosted DEF IInv, Types
  <1>3. QueueGrows(FALSE, n, None)
    BY <1>1, <1>2 DEF QueueGrows
  <1>4. TaskTypes' /\ PumpsKept /\ ReadyPosted(None)
    BY <1>3, GrowthKeeps DEF IInv, WireInv, PumpInv
  <1>5. WireInv'
    BY <1>3 DEF QueueGrows, IInv, WireInv, None
  <1>6. \A k \in 1 .. SendBudget : Has(tasks', WriteOf(k)) <=> Has(tasks, WriteOf(k)) \/ k = n
    BY <1>3 DEF QueueGrows
  <1>7. QED
    BY <1>4, <1>5, <1>6 DEF PostedOrOut

\* What a call of the application leaves alone besides the receive side.
NoWireMoves ==
    UNCHANGED <<received, delivered, peer_sent, receives, pending_receive,
                receive_park_generation, receive_deadline, blocked_receivers, read_paused,
                pump_next, peer_closed, failed, peer_close, reading, stream_down, socket_open,
                kick_deadline, closes, aborted, close_requested, close_started, writing, closing,
                overlap, wire_write_busy, write_buffer, on_wire, owed>>

LEMMA FlagsKept ==
    ASSUME FlagTypes, NoWireMoves, write_complete' \in BOOLEAN, write_error' \in BOOLEAN
    PROVE  FlagTypes'
  BY DEF NoWireMoves, FlagTypes

\* The refusal of a send: nothing is posted, and the stored outcome of an
\* earlier write is lost only while the session goes on.
LEMMA SendRefused ==
    ASSUME IInv, NoWireMoves, NEW n \in 1 .. SendBudget, NEW out \in Outcomes, out # "ok",
           Report(SendOp(n), out), UNCHANGED <<tasks, pending_send>>, sends' \in 0 .. SendBudget,
           write_complete' \in BOOLEAN, write_complete' => write_complete,
           write_error' \in BOOLEAN, write_error /\ Ended => write_error',
           (turn' = None /\ stage' = "idle") \/ (turn' = turn /\ stage' = stage), SendMove(n)
    PROVE  IInv'
  <1>0. DebtTypes /\ DebtInv /\ TaskTypes
    BY DEF IInv, Types
  <1>1. UNCHANGED owed
    BY DEF NoWireMoves
  <1>2. QueueGrows(FALSE, None, None) /\ Tell(n, out, None, out)
    BY <1>0, <1>1, QueueSame, TellsSend
  <1>3. TaskTypes' /\ PumpsKept /\ WritesKept /\ ReadyPosted(None)
    BY <1>2, GrowthKeeps DEF IInv, WireInv, PumpInv
  <1>4. ReceiveSideUnchanged
    BY <1>3 DEF ReceiveSideUnchanged, NoWireMoves, IInv, Types, ReceiveTypes
  <1>5. FlagTypes'
    BY FlagsKept DEF IInv, Types
  <1>6. SendTypes'
    BY BoundsAssumption DEF NoWireMoves, IInv, Types, SendTypes, None
  <1>7. WireInv'
    BY <1>3 DEF WritesKept, NoWireMoves, IInv, WireInv
  <1>8. WriteInv'
    <2>1. Ended => Ended'
      BY DEF Ended, NoWireMoves
    <2>2. QED
      BY <1>2, <1>3, <2>1, WriteKept DEF NoWireMoves, IInv
  <1>9. QED
    BY <1>2, <1>3, <1>4, <1>5, <1>6, <1>7, <1>8, SendSideStep

\* The posting of a send's write, for the blocking call or for a parked one.
LEMMA SendPosted ==
    ASSUME IInv, NoWireMoves, NEW n \in 1 .. SendBudget, write_complete, pending_send = None,
           ~Ended, tasks' = Append(tasks, Task("StartWrite", n)), UNCHANGED log,
           write_complete' = FALSE, write_error' = FALSE, sends' \in 0 .. SendBudget,
           \/ turn' = n /\ stage' = "written" /\ pending_send' = None
           \/ pending_send' = n /\ turn' = turn /\ stage' = stage,
           SendMove(None)
    PROVE  IInv'
  <1>0. DebtTypes /\ DebtInv
    BY DEF IInv, Types
  <1>1. /\ TaskTypes' /\ PumpsKept /\ ReadyPosted(None) /\ WireInv'
        /\ PostedOrOut(n)'
        /\ \A k \in 1 .. SendBudget : PostedOrOut(k) => PostedOrOut(k)'
    BY WritePosted DEF NoWireMoves
  <1>2. Tell(None, "transport", None, "transport")
    BY <1>0, TellsNothing DEF NoWireMoves
  <1>3. ReceiveSideUnchanged
    BY <1>1 DEF ReceiveSideUnchanged, NoWireMoves, IInv, Types, ReceiveTypes
  <1>4. FlagTypes'
    <2>1. write_complete' \in BOOLEAN /\ write_error' \in BOOLEAN
      OBVIOUS
    <2>2. QED
      BY <2>1, FlagsKept DEF IInv, Types
  <1>5. SendTypes'
    <2>1. SendTypes /\ n # None /\ None \in 0 .. SendBudget /\ n \in 0 .. SendBudget
      BY BoundsAssumption DEF IInv, Types, None
    <2>2. QED
      BY <2>1, BoundsAssumption DEF NoWireMoves, SendTypes
  <1>6. WriteInv'
    <2>1. pending_send' # None => PostedOrOut(pending_send)'
      BY <1>1 DEF PostedOrOut
    <2>2. stage' = "written" => turn' \in on_wire' \/ PostedOrOut(turn)'
      <3>1. CASE turn' = n
        BY <1>1, <3>1 DEF PostedOrOut
      <3>2. CASE turn' = turn /\ stage' = stage
        <4>1. stage = "written" => turn \in on_wire \/ PostedOrOut(turn)
          BY DEF IInv, WriteInv
        <4>2. stage = "written" => ~PostedOrOut(turn)
          BY WriteInProgress
        <4>3. QED
          BY <3>2, <4>1, <4>2 DEF NoWireMoves
      <3>3. QED
        BY <3>1, <3>2
    <2>3. SuccessMeansOnWire'
      BY <1>2 DEF NoWireMoves, IInv, WriteInv, SuccessMeansOnWire, Tell, Kept, None
    <2>4. QED
      BY <2>1, <2>2, <2>3 DEF WriteInv
  <1>7. QED
    BY <1>1, <1>2, <1>3, <1>4, <1>5, <1>6, SendSideStep

\* After the first wait of Send.
LEMMA PostWriteStep ==
    ASSUME IInv, NoWireMoves, SendReady, NEW n \in 1 .. SendBudget, NEW ok \in BOOLEAN,
           PostWrite(n, ok), sends' \in 0 .. SendBudget,
           \/ sends' = sends + 1 /\ n = sends + 1 /\ turn = None
           \/ sends' = sends /\ n = turn
    PROVE  IInv'
  <1>1. pending_send' = pending_send
    BY Zenon DEF PostWrite
  <1>2. CASE Ended \/ ~ok
    <2>1. /\ Report(SendOp(n), "transport") /\ turn' = None /\ stage' = "idle"
          /\ write_complete' = (write_complete /\ Ended)
          /\ write_error' = (write_error /\ Ended) /\ tasks' = tasks
      BY <1>2, Zenon DEF PostWrite
    <2>2. "transport" \in Outcomes /\ "transport" # "ok"
      BY DEF Outcomes
    <2>3. SendMove(n)
      BY <1>1, <2>1 DEF SendMove
    <2>4. /\ write_complete' \in BOOLEAN /\ (write_complete' => write_complete)
          /\ write_error' \in BOOLEAN /\ (write_error /\ Ended => write_error')
      BY <2>1
    <2>5. QED
      BY <1>1, <2>1, <2>2, <2>3, <2>4, SendRefused
  <1>3. CASE ~(Ended \/ ~ok)
    <2>1. /\ write_complete' = FALSE /\ write_error' = FALSE
          /\ tasks' = Append(tasks, Task("StartWrite", n))
          /\ turn' = n /\ stage' = "written" /\ log' = log
      BY <1>3, Zenon DEF PostWrite
    <2>2. write_complete /\ pending_send = None /\ ~Ended
      BY <1>3 DEF SendReady
    <2>3. SendMove(None)
      BY <1>1, <2>1 DEF SendMove
    <2>4. QED
      BY <1>1, <2>1, <2>2, <2>3, SendPosted
  <1>4. QED
    BY <1>2, <1>3

LEMMA SendStep ==
    ASSUME IInv, NEW ok \in BOOLEAN, Send(ok)
    PROVE  IInv'
  <1>0. DebtTypes /\ DebtInv /\ TaskTypes
    BY DEF IInv, Types
  <1>1. /\ sends < SendBudget /\ turn = None /\ sends' = sends + 1
        /\ UNCHANGED <<receiveSide, flags, wire_write_busy, write_buffer, wire, strandSide, owed,
                       receives, closes, aborted, seen>>
    BY Zenon DEF Send
  <1>2. PICK n \in 1 .. SendBudget : n = sends + 1 /\ sends' = n
    BY <1>1, BoundsAssumption DEF IInv, Types, SendTypes
  <1>3. NoWireMoves /\ sends' \in 0 .. SendBudget
    BY <1>1, <1>2 DEF NoWireMoves, receiveSide, flags, wire, strandSide, seen
  <1>4. CASE SendReady
    <2>1. PostWrite(n, ok)
      BY <1>2, <1>4, Zenon DEF Send
    <2>2. QED
      BY <1>1, <1>2, <1>3, <1>4, <2>1, PostWriteStep
  <1>5. CASE ~SendReady
    <2>1. /\ turn' = n /\ stage' = "wait"
          /\ UNCHANGED <<pending_send, write_complete, write_error, tasks, log>>
      BY <1>2, <1>5, Zenon DEF Send
    <2>2. QueueGrows(FALSE, None, None) /\ Tell(None, "transport", None, "transport")
      BY <1>0, <1>1, <2>1, QueueSame, TellsNothing
    <2>3. TaskTypes' /\ PumpsKept /\ WritesKept /\ ReadyPosted(None)
      BY <2>2, GrowthKeeps DEF IInv, WireInv, PumpInv
    <2>4. ReceiveSideUnchanged
      BY <1>3, <2>3 DEF ReceiveSideUnchanged, NoWireMoves, IInv, Types, ReceiveTypes
    <2>5. FlagTypes'
      <3>1. write_complete' \in BOOLEAN /\ write_error' \in BOOLEAN
        BY <2>1 DEF IInv, Types, FlagTypes
      <3>2. QED
        BY <1>3, <3>1, FlagsKept DEF IInv, Types
    <2>6. SendTypes'
      BY <1>2, <1>3, <2>1, BoundsAssumption DEF NoWireMoves, IInv, Types, SendTypes, None
    <2>7. WireInv'
      BY <1>3, <2>1, <2>3, WireKept DEF NoWireMoves, IInv
    <2>8. SendMove(None)
      BY <1>1, <1>2, <2>1 DEF SendMove
    <2>9. WriteInv'
      <3>1. pending_send' # None => PostedOrOut(pending_send)'
        BY <1>3, <2>1, <2>3 DEF WritesKept, PostedOrOut, NoWireMoves, IInv, WriteInv, Types, SendTypes, None
      <3>2. SuccessMeansOnWire'
        BY <1>3, <2>2 DEF NoWireMoves, IInv, WriteInv, SuccessMeansOnWire, Tell, Kept, None
      <3>3. QED
        BY <2>1, <3>1, <3>2 DEF WriteInv
    <2>10. QED
      BY <2>2, <2>3, <2>4, <2>5, <2>6, <2>7, <2>8, <2>9, SendSideStep
  <1>6. QED
    BY <1>4, <1>5

LEMMA SendWakesStep ==
    ASSUME IInv, NEW ok \in BOOLEAN, SendWakes(ok)
    PROVE  IInv'
  <1>1. /\ stage = "wait" /\ SendReady /\ PostWrite(turn, ok)
        /\ UNCHANGED <<receiveSide, flags, wire_write_busy, write_buffer, wire, strandSide, owed,
                       issued, seen>>
    BY Zenon DEF SendWakes
  <1>2. PICK n \in 1 .. SendBudget : n = turn
    BY <1>1 DEF IInv, Types, SendTypes, None
  <1>3. NoWireMoves /\ sends' = sends
    BY <1>1 DEF NoWireMoves, receiveSide, flags, wire, strandSide, issued, seen
  <1>4. sends' \in 0 .. SendBudget
    BY <1>3 DEF IInv, Types, SendTypes
  <1>5. PostWrite(n, ok)
    BY <1>1, <1>2
  <1>6. QED
    BY <1>1, <1>2, <1>3, <1>4, <1>5, PostWriteStep

LEMMA SendReturnsStep ==
    ASSUME IInv, SendReturns
    PROVE  IInv'
  <1>0. DebtTypes /\ DebtInv /\ TaskTypes
    BY DEF IInv, Types
  <1>1. /\ stage = "written" /\ Report(SendOp(turn), SendOutcome) /\ turn' = None /\ stage' = "idle"
        /\ UNCHANGED <<receiveSide, flags, sendSide, tasks, wire, strandSide, owed, issued, seen>>
    BY Zenon DEF SendReturns
  <1>2. PICK n \in 1 .. SendBudget : n = turn
    BY <1>1 DEF IInv, Types, SendTypes, None
  <1>3. PICK out : out = SendOutcome
    OBVIOUS
  <1>4. out \in Outcomes /\ (out = "ok" => write_complete /\ ~write_error)
    BY <1>3 DEF SendOutcome, Outcomes
  <1>5. NoWireMoves /\ UNCHANGED <<sends, pending_send, write_complete, write_error, tasks>>
    BY <1>1 DEF NoWireMoves, receiveSide, flags, sendSide, wire, strandSide, issued, seen
  <1>6. QueueGrows(FALSE, None, None) /\ Tell(n, out, None, out)
    BY <1>0, <1>1, <1>2, <1>3, <1>4, QueueSame, TellsSend
  <1>7. TaskTypes' /\ PumpsKept /\ WritesKept /\ ReadyPosted(None)
    BY <1>6, GrowthKeeps DEF IInv, WireInv, PumpInv
  <1>8. ReceiveSideUnchanged
    BY <1>5, <1>7 DEF ReceiveSideUnchanged, NoWireMoves, IInv, Types, ReceiveTypes
  <1>9. FlagTypes'
    <2>1. write_complete' \in BOOLEAN /\ write_error' \in BOOLEAN
      BY <1>5 DEF IInv, Types, FlagTypes
    <2>2. QED
      BY <1>5, <2>1, FlagsKept DEF IInv, Types
  <1>10. SendTypes'
    BY <1>1, <1>5, BoundsAssumption DEF NoWireMoves, IInv, Types, SendTypes, None
  <1>11. WireInv'
    BY <1>5, <1>7, WireKept DEF NoWireMoves, IInv
  \* A success was the write's own: the frame is out.
  <1>12. out = "ok" => n \in on_wire
    <2>1. turn \in on_wire \/ write_error \/ PostedOrOut(turn)
      BY <1>1 DEF IInv, WriteInv
    <2>2. PostedOrOut(turn) => ~write_complete
      BY WriteInProgress
    <2>3. QED
      BY <1>2, <1>4, <2>1, <2>2
  <1>13. WriteInv'
    <2>1. Ended => Ended'
      BY <1>5 DEF Ended, NoWireMoves
    <2>2. QED
      BY <1>1, <1>5, <1>6, <1>7, <1>12, <2>1, WriteKept DEF NoWireMoves, IInv
  <1>14. SendMove(n)
    BY <1>1, <1>2, <1>5 DEF SendMove
  <1>15. QED
    BY <1>6, <1>7, <1>8, <1>9, <1>10, <1>11, <1>13, <1>14, SendSideStep

LEMMA SendAsyncStep ==
    ASSUME IInv, NEW ok \in BOOLEAN, SendAsync(ok)
    PROVE  IInv'
  <1>1. /\ sends < SendBudget /\ sends' = sends + 1
        /\ UNCHANGED <<receiveSide, flags, wire_write_busy, write_buffer, blockingSend, wire,
                       strandSide, owed, receives, closes, aborted, seen>>
    BY Zenon DEF SendAsync
  <1>2. PICK n \in 1 .. SendBudget : n = sends + 1 /\ sends' = n
    BY <1>1, BoundsAssumption DEF IInv, Types, SendTypes
  <1>3. NoWireMoves /\ UNCHANGED <<turn, stage>> /\ sends' \in 0 .. SendBudget
    BY <1>1, <1>2 DEF NoWireMoves, receiveSide, flags, blockingSend, wire, strandSide, seen
  <1>4. CASE Ended \/ SendOutstanding \/ ~ok
    <2>1. PICK out : out = IF ~Ended /\ SendOutstanding THEN "validation" ELSE "transport"
      OBVIOUS
    <2>2. /\ Report(SendOp(n), out)
          /\ write_error' = (write_error /\ (Ended \/ SendOutstanding))
          /\ UNCHANGED <<pending_send, write_complete, tasks>>
      BY <1>2, <1>4, <2>1, Zenon DEF SendAsync
    <2>3. out \in Outcomes /\ out # "ok"
      BY <2>1 DEF Outcomes
    <2>4. /\ write_complete' \in BOOLEAN /\ (write_complete' => write_complete)
          /\ write_error' \in BOOLEAN /\ (write_error /\ Ended => write_error')
      BY <2>2 DEF IInv, Types, FlagTypes
    <2>5. SendMove(n)
      BY <1>2, <1>3, <2>2 DEF SendMove
    <2>6. QED
      BY <1>3, <2>2, <2>3, <2>4, <2>5, SendRefused
  <1>5. CASE ~(Ended \/ SendOutstanding \/ ~ok)
    <2>1. /\ pending_send' = n /\ write_complete' = FALSE /\ write_error' = FALSE
          /\ tasks' = Append(tasks, Task("StartWrite", n)) /\ log' = log
      BY <1>2, <1>5, Zenon DEF SendAsync
    <2>2. write_complete /\ pending_send = None /\ ~Ended
      BY <1>5 DEF SendOutstanding
    <2>3. SendMove(None)
      BY <1>2, <1>3, <2>1, <2>2 DEF SendMove
    <2>4. QED
      BY <1>3, <2>1, <2>2, <2>3, SendPosted
  <1>6. QED
    BY <1>4, <1>5

\* The parked send is told of a write's end by the handler.
LEMMA ParkedSendTold ==
    ASSUME IInv, NEW out \in Outcomes, Owe(TRUE, Parked(SendOp(pending_send), out)), UNCHANGED log
    PROVE  Tell(pending_send, out, None, out)
  <1>1. /\ pending_send \in 0 .. SendBudget /\ None \in 0 .. ReceiveBudget
        /\ DebtTypes /\ DebtInv /\ TRUE \in BOOLEAN
    BY BoundsAssumption DEF IInv, Types, SendTypes, None
  <1>2. PICK k \in 0 .. SendBudget : k = pending_send
    BY <1>1
  <1>3. PICK todo : todo = DueList(k, out, None, out)
    OBVIOUS
  <1>4. todo = Parked(SendOp(k), out)
    BY <1>1, <1>3, DueLists
  <1>5. k # None => ~Owing(SendOp(k))
    BY <1>2, ParkedUnowed DEF IInv
  <1>6. Owe(TRUE, todo)
    BY <1>2, <1>4
  <1>7. Tell(k, out, None, out)
    BY <1>1, <1>3, <1>5, <1>6, TellsDue
  <1>8. QED
    BY <1>2, <1>7

LEMMA StartWriteStep ==
    ASSUME IInv, StartWrite
    PROVE  IInv'
  <1>0. DebtTypes /\ DebtInv /\ TaskTypes
    BY DEF IInv, Types
  <1>1. /\ tasks # <<>> /\ Head(tasks).kind = "StartWrite" /\ tasks' = Tail(tasks)
        /\ IF Ended
           THEN RefuseWrite /\ UNCHANGED <<wire_write_busy, writing, write_buffer, overlap>>
           ELSE /\ wire_write_busy' = TRUE
                /\ writing' = "out" /\ write_buffer' = Head(tasks).arg
                /\ overlap' = (overlap \/ writing # "idle" \/ closing # "idle")
                /\ UNCHANGED <<write_complete, write_error, pending_send, owed>>
        /\ UNCHANGED <<receiveSide, flags, blockingSend, reading, closing, socket_open,
                       stream_down, strandSide, issued, seen, log>>
    BY Zenon DEF StartWrite, NextTask
  <1>2. UNCHANGED <<received, delivered, peer_sent, receives, pending_receive,
                    receive_park_generation, receive_deadline, blocked_receivers, read_paused,
                    pump_next, peer_closed, failed, peer_close, reading, stream_down, socket_open,
                    kick_deadline, closes, aborted, close_requested, close_started, closing,
                    on_wire, log, turn, stage, sends>>
    BY <1>1 DEF receiveSide, flags, blockingSend, strandSide, issued, seen
  <1>3. PICK h : h = Head(tasks)
    OBVIOUS
  <1>4. QueueShrinks(h) /\ h.kind = "StartWrite"
    BY <1>0, <1>1, <1>3, QueueTaken
  <1>5. PumpsKept /\ ReadyPosted(None) /\ TaskTypes'
    BY <1>4, ShrinkageKeeps DEF IInv, WireInv, PumpInv
  <1>6. /\ Has(tasks, Writes) /\ Single(tasks', Writes) /\ ~Has(tasks', Writes)
        /\ \A n \in 1 .. SendBudget :
             Has(tasks, WriteOf(n)) => Has(tasks', WriteOf(n)) \/ h.arg = n
    BY <1>4 DEF QueueShrinks, IInv, WireInv
  <1>7. PICK n \in 1 .. SendBudget : n = h.arg
    BY <1>4, TaskKinds DEF QueueShrinks
  <1>8. ReceiveSideUnchanged
    BY <1>2, <1>5 DEF ReceiveSideUnchanged, IInv, Types, ReceiveTypes
  <1>9. ~write_complete /\ writing = "idle" /\ ~wire_write_busy
    BY <1>6 DEF IInv, WireInv
  <1>10. CASE Ended
    <2>1. /\ write_complete' = TRUE /\ write_error' = TRUE /\ pending_send' = None
          /\ Owe(TRUE, Parked(SendOp(pending_send), "transport"))
          /\ UNCHANGED <<wire_write_busy, writing, write_buffer, overlap>>
      BY <1>1, <1>10, Zenon DEF RefuseWrite
    <2>2. "transport" \in Outcomes
      BY DEF Outcomes
    <2>3. Tell(pending_send, "transport", None, "transport")
      BY <1>2, <2>1, <2>2, ParkedSendTold
    <2>4. FlagTypes'
      <3>1. write_complete' \in BOOLEAN /\ write_error' \in BOOLEAN
        BY <2>1
      <3>2. QED
        BY <1>2, <2>1, <3>1 DEF IInv, Types, FlagTypes
    <2>5. SendTypes'
      BY <1>2, <2>1, BoundsAssumption DEF IInv, Types, SendTypes, None
    <2>6. WireInv'
      BY <1>2, <1>6, <1>9, <2>1 DEF IInv, WireInv
    <2>7. WriteInv'
      <3>1. SuccessMeansOnWire'
        BY <1>2, <2>3 DEF IInv, WriteInv, SuccessMeansOnWire, Tell, Kept, Answered
      <3>2. Ended'
        BY <1>2, <1>10 DEF Ended
      <3>3. QED
        BY <2>1, <3>1, <3>2 DEF WriteInv
    <2>8. SendMove(pending_send)
      BY <1>2, <2>1 DEF SendMove
    <2>9. QED
      BY <1>5, <1>8, <2>3, <2>4, <2>5, <2>6, <2>7, <2>8, SendSideStep
  <1>11. CASE ~Ended
    <2>1. /\ wire_write_busy' = TRUE /\ writing' = "out" /\ write_buffer' = n
          /\ overlap' = (overlap \/ writing # "idle" \/ closing # "idle")
          /\ UNCHANGED <<write_complete, write_error, pending_send, owed>>
      BY <1>1, <1>3, <1>7, <1>11, Zenon
    <2>2. Tell(None, "transport", None, "transport")
      BY <1>0, <1>2, <2>1, TellsNothing
    <2>3. closing = "idle" /\ ~close_requested
      BY <1>11 DEF Ended, IInv, WireInv
    <2>4. overlap' = FALSE
      BY <1>9, <2>1, <2>3 DEF IInv, WireInv
    <2>5. FlagTypes'
      <3>1. wire_write_busy' \in BOOLEAN /\ overlap' \in BOOLEAN
        BY <2>1, <2>4
      <3>2. QED
        BY <1>2, <2>1, <3>1 DEF IInv, Types, FlagTypes
    <2>6. SendTypes'
      BY <1>2, <2>1, BoundsAssumption DEF IInv, Types, SendTypes, None, OpStates
    <2>7. WireInv'
      BY <1>2, <1>6, <1>9, <2>1, <2>4 DEF IInv, WireInv
    <2>8. WriteInv'
      <3>1. ASSUME NEW k \in 1 .. SendBudget, PostedOrOut(k) PROVE PostedOrOut(k)'
        BY <1>6, <1>7, <1>9, <2>1, <3>1 DEF PostedOrOut
      <3>2. pending_send' # None => PostedOrOut(pending_send)'
        <4>1. pending_send # None => PostedOrOut(pending_send) /\ pending_send \in 1 .. SendBudget
          BY DEF IInv, WriteInv, Types, SendTypes, None
        <4>2. QED
          BY <2>1, <3>1, <4>1 DEF PostedOrOut
      <3>3. stage' = "written" => turn' \in on_wire' \/ PostedOrOut(turn)'
        <4>1. stage = "written" => /\ turn \in on_wire \/ PostedOrOut(turn)
                                   /\ turn \in 1 .. SendBudget
          BY <1>11 DEF IInv, WriteInv, Types, SendTypes, None
        <4>2. QED
          BY <1>2, <3>1, <4>1 DEF PostedOrOut
      <3>4. SuccessMeansOnWire'
        BY <1>2, <2>2 DEF IInv, WriteInv, SuccessMeansOnWire, Tell, Kept, None
      <3>5. QED
        BY <3>2, <3>3, <3>4 DEF WriteInv
    <2>9. SendMove(None)
      BY <1>2, <2>1 DEF SendMove
    <2>10. QED
      BY <1>5, <1>8, <2>2, <2>5, <2>6, <2>7, <2>8, <2>9, SendSideStep
  <1>12. QED
    BY <1>10, <1>11

\* A step of the close: it may start the close operation and mark what is
\* outstanding as cancelled, and tells nobody.
ClosesOnly ==
    /\ UNCHANGED <<received, delivered, peer_sent, receives, pending_receive,
                   receive_park_generation, receive_deadline, blocked_receivers, read_paused,
                   pump_next, peer_closed, failed, peer_close, stream_down,
                   wire_write_busy, write_complete, write_error, write_buffer, on_wire, owed, log,
                   pending_send, turn, stage, sends>>
    /\ reading' \in OpStates /\ writing' \in OpStates /\ closing' \in OpStates
    /\ reading = "idle" <=> reading' = "idle"
    /\ writing = "idle" <=> writing' = "idle"
    /\ close_requested => close_requested'

LEMMA CloseStep ==
    ASSUME IInv, ClosesOnly, FlagTypes', TaskTypes', WireInv',
           PumpsKept, WritesKept, ReadyPosted(None)
    PROVE  IInv'
  <1>0. DebtTypes /\ DebtInv
    BY DEF IInv, Types
  <1>1. Tell(None, "transport", None, "transport")
    BY <1>0, TellsNothing DEF ClosesOnly
  <1>2. ReceiveSideUnchanged
    BY DEF ReceiveSideUnchanged, ClosesOnly
  <1>3. SendTypes'
    BY DEF ClosesOnly, IInv, Types, SendTypes
  <1>4. SendMove(None)
    BY DEF SendMove, ClosesOnly
  <1>5. WriteInv'
    <2>1. Ended => Ended'
      BY DEF Ended, ClosesOnly
    <2>2. QED
      BY <1>1, <2>1, WriteKept DEF ClosesOnly, IInv
  <1>6. QED
    BY <1>1, <1>2, <1>3, <1>4, <1>5, SendSideStep

\* RequestClose, whether or not there is a write to cancel.
Requested ==
    /\ reading' \in OpStates /\ writing' \in OpStates /\ closing' \in OpStates
    /\ reading = "idle" <=> reading' = "idle"
    /\ writing = "idle" <=> writing' = "idle"
    /\ close_requested => close_requested'
    /\ close_requested' \in BOOLEAN /\ close_started' \in BOOLEAN
    /\ overlap' = overlap
    /\ closing' # "idle" => close_started'
    /\ close_started' => close_requested'

LEMMA CloseRequested ==
    ASSUME IInv, RequestClose
    PROVE  Requested
  <1>0. reading \in OpStates /\ writing \in OpStates /\ closing \in OpStates
    BY DEF IInv, Types, ReceiveTypes, SendTypes
  <1>1. CASE close_requested \/ failed \/ peer_closed
    <2>1. UNCHANGED <<close_requested, close_started, reading, writing, closing, overlap>>
      BY <1>1, Zenon DEF RequestClose
    <2>2. QED
      BY <1>0, <2>1 DEF Requested, IInv, Types, FlagTypes, WireInv
  <1>2. CASE ~(close_requested \/ failed \/ peer_closed)
    <2>1. /\ close_requested' = TRUE
          /\ IF ~wire_write_busy
             THEN StartClose /\ UNCHANGED <<reading, writing>>
             ELSE Cancel /\ UNCHANGED <<close_started, closing, overlap>>
      BY <1>2, Zenon DEF RequestClose
    <2>2. CASE ~wire_write_busy
      <3>1. writing = "idle" /\ closing = "idle" /\ ~overlap
        BY <1>2, <2>2 DEF IInv, WireInv
      <3>2. close_started' = TRUE /\ closing' = "out" /\ UNCHANGED <<reading, writing>>
        BY <2>1, <2>2 DEF StartClose
      <3>3. overlap' = overlap
        BY <2>1, <2>2, <3>1 DEF StartClose, IInv, Types, FlagTypes
      <3>4. QED
        BY <1>0, <2>1, <3>2, <3>3 DEF Requested, OpStates
    <2>3. CASE wire_write_busy
      <3>1. Cancel /\ UNCHANGED <<close_started, closing, overlap>>
        BY <2>1, <2>3
      <3>2. /\ reading' \in OpStates /\ (reading = "idle" <=> reading' = "idle")
            /\ writing' \in OpStates /\ (writing = "idle" <=> writing' = "idle")
        BY <1>0, <3>1 DEF Cancel, OpStates
      <3>3. closing' # "idle" => close_started'
        BY <3>1 DEF IInv, WireInv
      <3>4. close_started' \in BOOLEAN /\ close_requested' \in BOOLEAN /\ closing' \in OpStates
        BY <1>0, <2>1, <3>1 DEF IInv, Types, FlagTypes
      <3>5. QED
        BY <2>1, <3>1, <3>2, <3>3, <3>4 DEF Requested
    <2>4. QED
      BY <2>2, <2>3
  <1>3. QED
    BY <1>1, <1>2

LEMMA CloseTaskStep ==
    ASSUME IInv, CloseTask
    PROVE  IInv'
  <1>1. /\ tasks # <<>> /\ Head(tasks).kind = "Close" /\ tasks' = Tail(tasks) /\ RequestClose
        /\ UNCHANGED <<receiveSide, peer_closed, failed, peer_close, sendSide, blockingSend,
                       socket_open, stream_down, strandSide, owed, issued, seen, log>>
    BY Zenon DEF CloseTask, NextTask
  <1>2. PICK h : h = Head(tasks)
    OBVIOUS
  <1>3. QueueShrinks(h) /\ h.kind = "Close"
    BY <1>1, <1>2, QueueTaken DEF IInv, Types
  <1>4. PumpsKept /\ WritesKept /\ ReadyPosted(None) /\ TaskTypes'
    BY <1>3, ShrinkageKeeps DEF IInv, WireInv, PumpInv
  <1>5. Requested
    BY <1>1, CloseRequested
  <1>6. ClosesOnly /\ UNCHANGED <<socket_open, kick_deadline, overlap, closes, aborted>>
    BY <1>1, <1>5 DEF Requested, ClosesOnly, receiveSide, sendSide, blockingSend, strandSide,
                      issued, seen
  <1>7. FlagTypes'
    BY <1>5, <1>6 DEF Requested, ClosesOnly, IInv, Types, FlagTypes
  <1>8. WireInv'
    BY <1>4, <1>5, <1>6 DEF Requested, ClosesOnly, WritesKept, IInv, WireInv
  <1>9. QED
    BY <1>4, <1>6, <1>7, <1>8, CloseStep

LEMMA KickTaskStep ==
    ASSUME IInv, KickTask
    PROVE  IInv'
  <1>1. /\ tasks # <<>> /\ Head(tasks).kind = "Kick" /\ tasks' = Tail(tasks)
        /\ IF kick_deadline # "none" \/ peer_closed
           THEN UNCHANGED <<kick_deadline, close_requested, close_started, reading, writing,
                            closing, overlap>>
           ELSE kick_deadline' = "armed" /\ RequestClose
        /\ UNCHANGED <<receiveSide, peer_closed, failed, peer_close, sendSide, pump_next,
                       blockingSend, socket_open, stream_down, owed, issued, seen, log>>
    BY Zenon DEF KickTask, NextTask
  <1>2. PICK h : h = Head(tasks)
    OBVIOUS
  <1>3. QueueShrinks(h) /\ h.kind = "Kick"
    BY <1>1, <1>2, QueueTaken DEF IInv, Types
  <1>4. PumpsKept /\ WritesKept /\ ReadyPosted(None) /\ TaskTypes'
    BY <1>3, ShrinkageKeeps DEF IInv, WireInv, PumpInv
  <1>5. Requested /\ kick_deadline' \in {"none", "armed", "fired"}
    <2>1. CASE kick_deadline # "none" \/ peer_closed
      <3>1. UNCHANGED <<kick_deadline, close_requested, close_started, reading, writing,
                        closing, overlap>>
        BY <1>1, <2>1
      <3>2. QED
        BY <3>1 DEF Requested, IInv, Types, FlagTypes, ReceiveTypes, SendTypes, WireInv
    <2>2. CASE ~(kick_deadline # "none" \/ peer_closed)
      BY <1>1, <2>2, CloseRequested
    <2>3. QED
      BY <2>1, <2>2
  <1>6. ClosesOnly /\ UNCHANGED <<socket_open, overlap, closes, aborted>>
    BY <1>1, <1>5 DEF Requested, ClosesOnly, receiveSide, sendSide, blockingSend, issued, seen
  <1>7. FlagTypes'
    BY <1>5, <1>6 DEF Requested, ClosesOnly, IInv, Types, FlagTypes
  <1>8. WireInv'
    BY <1>4, <1>5, <1>6 DEF Requested, ClosesOnly, WritesKept, IInv, WireInv
  <1>9. QED
    BY <1>4, <1>6, <1>7, <1>8, CloseStep

\* socket().close(), by the kick's deadline or by an abort's task.
LEMMA SocketClosed ==
    ASSUME IInv, CloseSocket, WritesKept, PumpsKept, ReadyPosted(None), TaskTypes',
           UNCHANGED <<received, delivered, peer_sent, receives, pending_receive,
                       receive_park_generation, receive_deadline, blocked_receivers, read_paused,
                       pump_next, peer_closed, failed, peer_close, closes, aborted,
                       close_requested, close_started, wire_write_busy, write_complete,
                       write_error, write_buffer, on_wire, owed, log, pending_send, turn, stage,
                       sends>>,
           kick_deadline' \in {"none", "armed", "fired"}
    PROVE  IInv'
  <1>0. reading \in OpStates /\ writing \in OpStates /\ closing \in OpStates
    BY DEF IInv, Types, ReceiveTypes, SendTypes
  <1>1. /\ socket_open' = FALSE /\ UNCHANGED <<stream_down, overlap>>
        /\ reading' \in OpStates /\ (reading = "idle" <=> reading' = "idle")
        /\ writing' \in OpStates /\ (writing = "idle" <=> writing' = "idle")
        /\ closing' \in OpStates /\ (closing = "idle" <=> closing' = "idle")
    BY <1>0 DEF CloseSocket, Cancelled, OpStates
  <1>2. ClosesOnly
    BY <1>1 DEF ClosesOnly
  <1>3. FlagTypes'
    <2>1. socket_open' \in BOOLEAN
      BY <1>1
    <2>2. QED
      BY <1>1, <2>1 DEF IInv, Types, FlagTypes
  <1>4. WireInv'
    BY <1>1 DEF WritesKept, IInv, WireInv
  <1>5. QED
    BY <1>2, <1>3, <1>4, CloseStep

LEMMA KickDeadlineStep ==
    ASSUME IInv, KickDeadline
    PROVE  IInv'
  <1>1. /\ kick_deadline' = "fired" /\ CloseSocket
        /\ UNCHANGED <<receiveSide, flags, sendSide, blockingSend, tasks, pump_next, owed,
                       issued, seen, log>>
    BY Zenon DEF KickDeadline
  <1>2. QueueGrows(FALSE, None, None)
    BY <1>1, QueueSame DEF IInv, Types
  <1>3. TaskTypes' /\ PumpsKept /\ WritesKept /\ ReadyPosted(None)
    BY <1>2, GrowthKeeps DEF IInv, WireInv, PumpInv
  <1>4. QED
    BY <1>1, <1>3, SocketClosed DEF receiveSide, flags, sendSide, blockingSend, issued, seen

LEMMA CloseSocketTaskStep ==
    ASSUME IInv, CloseSocketTask
    PROVE  IInv'
  <1>1. /\ tasks # <<>> /\ Head(tasks).kind = "CloseSocket" /\ tasks' = Tail(tasks)
        /\ CloseSocket
        /\ UNCHANGED <<receiveSide, flags, sendSide, blockingSend, strandSide, owed, issued,
                       seen, log>>
    BY Zenon DEF CloseSocketTask, NextTask
  <1>2. PICK h : h = Head(tasks)
    OBVIOUS
  <1>3. QueueShrinks(h) /\ h.kind = "CloseSocket"
    BY <1>1, <1>2, QueueTaken DEF IInv, Types
  <1>4. PumpsKept /\ WritesKept /\ ReadyPosted(None) /\ TaskTypes'
    BY <1>3, ShrinkageKeeps DEF IInv, WireInv, PumpInv
  <1>5. kick_deadline' \in {"none", "armed", "fired"}
    BY <1>1 DEF strandSide, IInv, Types, FlagTypes
  <1>6. QED
    BY <1>1, <1>4, <1>5, SocketClosed DEF receiveSide, flags, sendSide, blockingSend, strandSide,
                                          issued, seen

-----------------------------------------------------------------------------
\* The handlers of the wire.

LEMMA OnWriteStep ==
    ASSUME IInv, NEW error \in BOOLEAN, OnWrite(error)
    PROVE  IInv'
  <1>1. /\ IF error THEN StrandFree /\ writing # "idle" ELSE Flowing(writing)
        /\ writing' = "idle" /\ stream_down' = (stream_down \/ error)
        /\ on_wire' = IF error THEN on_wire ELSE on_wire \cup {write_buffer}
        /\ wire_write_busy' = FALSE /\ write_complete' = TRUE
        /\ write_error' = (write_error \/ error)
        /\ failed' = (failed \/ (error /\ ~peer_closed))
        /\ pending_send' = None
        /\ Owe(TRUE, Parked(SendOp(pending_send),
                            IF write_error \/ error THEN "transport" ELSE "ok"))
        /\ IF ~error /\ close_requested /\ ~close_started
           THEN /\ close_started' = TRUE /\ closing' = "out"
                /\ overlap' = (overlap \/ closing # "idle")
           ELSE UNCHANGED <<close_started, closing, overlap>>
        /\ UNCHANGED <<receiveSide, peer_closed, close_requested, peer_close, write_buffer,
                       blockingSend, tasks, pump_next, reading, socket_open, kick_deadline,
                       issued, peer_sent, delivered, log>>
    BY Zenon DEF OnWrite
  <1>2. UNCHANGED <<received, delivered, peer_sent, receives, pending_receive,
                    receive_park_generation, receive_deadline, blocked_receivers, read_paused,
                    pump_next, peer_closed, peer_close, reading, socket_open, kick_deadline,
                    closes, aborted, close_requested, log, turn, stage, sends, write_buffer, tasks>>
    BY <1>1 DEF receiveSide, blockingSend, issued
  <1>3. writing # "idle"
    BY <1>1 DEF Flowing
  <1>4. QueueGrows(FALSE, None, None)
    BY <1>2, QueueSame DEF IInv, Types
  <1>5. TaskTypes' /\ PumpsKept /\ WritesKept /\ ReadyPosted(None)
    BY <1>4, GrowthKeeps DEF IInv, WireInv, PumpInv
  <1>6. (failed => failed') /\ (stream_down => stream_down')
        /\ failed' \in BOOLEAN /\ stream_down' \in BOOLEAN
    BY <1>1
  <1>7. ReceiveSideUnchanged
    BY <1>2, <1>5, <1>6 DEF ReceiveSideUnchanged, IInv, Types, ReceiveTypes
  <1>8. ~overlap' /\ overlap' \in BOOLEAN /\ close_started' \in BOOLEAN /\ closing' \in OpStates
        /\ (closing' # "idle" => close_started') /\ (close_started' => close_requested')
    <2>1. ~overlap /\ (closing # "idle" => close_started) /\ (close_started => close_requested)
      BY DEF IInv, WireInv
    <2>2. overlap \in BOOLEAN /\ close_started \in BOOLEAN /\ closing \in OpStates
      BY DEF IInv, Types, FlagTypes, SendTypes
    <2>3. CASE ~error /\ close_requested /\ ~close_started
      <3>1. /\ close_started' = TRUE /\ closing' = "out" /\ overlap' = (overlap \/ closing # "idle")
        BY <1>1, <2>3
      <3>2. QED
        BY <1>2, <2>1, <2>3, <3>1 DEF OpStates
    <2>4. CASE ~(~error /\ close_requested /\ ~close_started)
      <3>1. UNCHANGED <<close_started, closing, overlap>>
        BY <1>1, <2>4
      <3>2. QED
        BY <1>2, <2>1, <2>2, <3>1
    <2>5. QED
      BY <2>3, <2>4
  <1>9. FlagTypes'
    <2>1. wire_write_busy' \in BOOLEAN /\ write_complete' \in BOOLEAN /\ write_error' \in BOOLEAN
      BY <1>1
    <2>2. QED
      BY <1>2, <1>6, <1>8, <2>1 DEF IInv, Types, FlagTypes
  <1>10. ~Has(tasks, Writes) /\ \A n : ~Has(tasks, WriteOf(n))
    <2>1. ~Has(tasks, Writes)
      BY <1>3 DEF IInv, WireInv
    <2>2. QED
      BY <2>1 DEF Has, WriteOf, Writes
  <1>11. WireInv'
    BY <1>1, <1>2, <1>5, <1>8, <1>10 DEF WritesKept, WireInv
  <1>12. /\ on_wire' \subseteq 1 .. SendBudget /\ on_wire \subseteq on_wire'
         /\ ~error => write_buffer \in on_wire'
    BY <1>1, <1>3 DEF IInv, Types, SendTypes, None
  <1>13. SendTypes'
    BY <1>1, <1>2, <1>8, <1>12, BoundsAssumption DEF IInv, Types, SendTypes, None, OpStates
  <1>14. PICK out : out = IF write_error \/ error THEN "transport" ELSE "ok"
    OBVIOUS
  <1>15. out \in Outcomes /\ (out = "ok" => ~error)
    BY <1>14 DEF Outcomes
  <1>16. Tell(pending_send, out, None, out)
    BY <1>1, <1>2, <1>14, <1>15, ParkedSendTold
  <1>17. WriteInv'
    <2>1. pending_send # None => write_buffer = pending_send
      BY <1>10 DEF IInv, WriteInv, PostedOrOut
    <2>2. SuccessMeansOnWire'
      BY <1>12, <1>15, <1>16, <2>1 DEF IInv, WriteInv, SuccessMeansOnWire, Tell, Kept, Answered, None
    <2>3. stage' = "written" => turn' \in on_wire' \/ (write_error' /\ Ended')
      <3>1. stage = "written" => turn \in on_wire \/ (write_error /\ Ended) \/ write_buffer = turn
        BY <1>10 DEF IInv, WriteInv, PostedOrOut
      <3>a. (error \/ write_error => write_error') /\ (error => failed' \/ peer_closed)
        BY <1>1
      <3>b. peer_closed' = peer_closed /\ close_requested' = close_requested
        BY <1>2
      <3>2. error => write_error' /\ Ended'
        BY <3>a, <3>b DEF Ended
      <3>3. write_error /\ Ended => write_error' /\ Ended'
        BY <1>6, <3>a, <3>b DEF Ended
      <3>4. QED
        BY <1>2, <1>12, <3>1, <3>2, <3>3
    <2>4. QED
      BY <1>1, <2>2, <2>3 DEF WriteInv
  <1>18. SendMove(pending_send)
    BY <1>1, <1>2 DEF SendMove
  <1>19. QED
    BY <1>5, <1>7, <1>9, <1>11, <1>13, <1>16, <1>17, <1>18, SendSideStep

LEMMA PumpReadStep ==
    ASSUME IInv, PumpRead
    PROVE  IInv'
  <1>0. DebtTypes /\ DebtInv /\ TaskTypes
    BY DEF IInv, Types
  <1>1. /\ IF pump_next
           THEN pump_next' = FALSE /\ UNCHANGED tasks
           ELSE /\ tasks # <<>> /\ Head(tasks).kind = "PumpRead"
                /\ tasks' = Tail(tasks) /\ UNCHANGED pump_next
        /\ \/ /\ failed \/ peer_closed \/ close_started
              /\ UNCHANGED <<read_paused, reading, overlap>>
           \/ /\ Len(received) >= QueueDepth /\ read_paused' = TRUE
              /\ UNCHANGED <<reading, overlap>>
           \/ /\ Len(received) < QueueDepth /\ reading' = "out"
              /\ overlap' = (overlap \/ reading # "idle") /\ UNCHANGED read_paused
        /\ UNCHANGED <<received, pending_receive, receive_park_generation, receive_deadline,
                       blocked_receivers, flags, sendSide, blockingSend, writing, closing,
                       socket_open, stream_down, kick_deadline, owed, issued, seen, log>>
    BY Zenon DEF PumpRead
  <1>2. UNCHANGED <<received, delivered, peer_sent, receives, pending_receive,
                    receive_park_generation, receive_deadline, blocked_receivers, peer_closed,
                    failed, peer_close, stream_down, socket_open, kick_deadline, closes, aborted,
                    close_requested, close_started, closing, writing, write_buffer, write_complete,
                    write_error, wire_write_busy, pending_send, on_wire, log, owed, turn, stage, sends>>
    BY <1>1 DEF flags, sendSide, blockingSend, issued, seen
  \* The pump was in one place, and is taken from it.
  <1>3. /\ WritesKept /\ ReadyPosted(None) /\ TaskTypes'
        /\ Single(tasks', Pumps) /\ ~Has(tasks', Pumps) /\ pump_next' = FALSE
        /\ reading = "idle" /\ ~read_paused
    <2>1. CASE pump_next
      <3>1. pump_next' = FALSE /\ tasks' = tasks
        BY <1>1, <2>1
      <3>2. QueueGrows(FALSE, None, None)
        BY <1>0, <3>1, QueueSame
      <3>3. WritesKept /\ ReadyPosted(None) /\ TaskTypes' /\ PumpsKept
        BY <3>2, GrowthKeeps DEF IInv, WireInv, PumpInv
      <3>4. QED
        BY <2>1, <3>1, <3>3 DEF PumpsKept, IInv, PumpInv
    <2>2. CASE ~pump_next
      <3>1. tasks # <<>> /\ Head(tasks).kind = "PumpRead" /\ tasks' = Tail(tasks)
            /\ pump_next' = pump_next
        BY <1>1, <2>2
      <3>2. PICK h : h = Head(tasks)
        OBVIOUS
      <3>3. QueueShrinks(h) /\ h.kind = "PumpRead"
        BY <1>0, <3>1, <3>2, QueueTaken
      <3>4. WritesKept /\ ReadyPosted(None) /\ TaskTypes'
        BY <3>3, ShrinkageKeeps DEF IInv, WireInv, PumpInv
      <3>5. Has(tasks, Pumps) /\ Single(tasks', Pumps) /\ ~Has(tasks', Pumps)
        BY <3>3 DEF QueueShrinks, IInv, PumpInv
      <3>6. pump_next' = FALSE
        BY <2>2, <3>1 DEF IInv, Types, FlagTypes
      <3>7. QED
        BY <3>4, <3>5, <3>6 DEF IInv, PumpInv
    <2>3. QED
      BY <2>1, <2>2
  <1>4. overlap' = overlap /\ reading' \in OpStates /\ read_paused' \in BOOLEAN
    <2>1. reading \in OpStates /\ overlap \in BOOLEAN /\ read_paused \in BOOLEAN
      BY DEF IInv, Types, ReceiveTypes, FlagTypes
    <2>2. QED
      BY <1>1, <1>3, <2>1 DEF OpStates
  <1>5. SendSideUnchanged
    BY <1>2, <1>3, <1>4 DEF SendSideUnchanged
  <1>6. FlagTypes'
    <2>1. pump_next' \in BOOLEAN
      BY <1>3
    <2>2. QED
      BY <1>2, <1>4, <2>1 DEF IInv, Types, FlagTypes
  <1>7. ReceiveTypes'
    BY <1>2, <1>4 DEF IInv, Types, ReceiveTypes
  <1>8. PumpInv'
    <2>1. close_started => close_requested
      BY DEF IInv, WireInv
    <2>2. QED
      BY <1>1, <1>2, <1>3, <2>1 DEF PumpInv
  <1>9. DeliveryInv'
    BY <1>1, <1>2, <1>3 DEF IInv, DeliveryInv, DeliveredInOrder
  <1>10. Tell(None, "ok", None, "ok")
    BY <1>0, <1>2, TellsNothing
  <1>11. ReceiveMove(None)
    BY <1>2, <1>3 DEF ReceiveMove
  <1>12. received' = received /\ stream_down' = stream_down
    BY <1>2
  <1>13. QED
    BY <1>3, <1>5, <1>6, <1>7, <1>8, <1>9, <1>10, <1>11, <1>12, ReceiveSideStep

\* The history of the wire grows by one message.
LEMMA OneMore ==
    ASSUME NEW n \in Nat, NEW s, s = [i \in 1 .. n |-> i]
    PROVE  Append(s, n + 1) = [i \in 1 .. (n + 1) |-> i]
  <1>1. s \in Seq(Nat) /\ Len(s) = n /\ \A i \in 1 .. n : s[i] = i
    OBVIOUS
  <1>2. PICK t : t = [i \in 1 .. (n + 1) |-> i]
    OBVIOUS
  <1>3. t \in Seq(Nat) /\ Len(t) = n + 1 /\ \A i \in 1 .. (n + 1) : t[i] = i
    BY <1>2
  <1>4. PICK a : a = Append(s, n + 1)
    OBVIOUS
  <1>5. a \in Seq(Nat) /\ Len(a) = n + 1 /\ \A i \in 1 .. (n + 1) : a[i] = i
    BY <1>1, <1>4
  <1>6. a = t
    BY <1>3, <1>5, SeqEqual
  <1>7. QED
    BY <1>2, <1>4, <1>6

LEMMA OnReadMessageStep ==
    ASSUME IInv, OnReadMessage
    PROVE  IInv'
  <1>0. DebtTypes /\ DebtInv /\ TaskTypes
    BY DEF IInv, Types
  <1>1. /\ Flowing(reading) /\ peer_sent < PeerMessages /\ peer_sent' = peer_sent + 1
        /\ reading' = "idle" /\ pump_next' = TRUE /\ Deliver(peer_sent + 1)
        /\ UNCHANGED <<receive_park_generation, blocked_receivers, read_paused, flags, sendSide,
                       blockingSend, tasks, writing, closing, socket_open, stream_down, overlap,
                       kick_deadline, issued, on_wire, log>>
    BY Zenon DEF OnReadMessage
  <1>2. UNCHANGED <<receives, receive_park_generation, blocked_receivers, read_paused, tasks,
                    peer_closed, failed, peer_close, stream_down, socket_open, kick_deadline,
                    closes, aborted, close_requested, close_started, closing, writing,
                    write_buffer, write_complete, write_error, wire_write_busy, overlap,
                    pending_send, on_wire, log, turn, stage, sends>>
    BY <1>1 DEF flags, sendSide, blockingSend, issued
  <1>3. PICK m \in 1 .. PeerMessages : m = peer_sent + 1 /\ m = peer_sent'
    BY <1>1, BoundsAssumption DEF IInv, Types, ReceiveTypes
  <1>4. reading # "idle" /\ ~stream_down /\ Len(received) < QueueDepth
    BY <1>1 DEF Flowing, IInv, DeliveryInv
  <1>5. ~peer_closed /\ ~peer_closed'
    BY <1>2, <1>4 DEF IInv, EndInv
  <1>6. QueueGrows(FALSE, None, None)
    BY <1>0, <1>2, QueueSame
  <1>7. PumpsKept /\ WritesKept /\ ReadyPosted(None) /\ TaskTypes'
    BY <1>6, GrowthKeeps DEF IInv, WireInv, PumpInv
  <1>8. SendSideUnchanged
    BY <1>2, <1>7 DEF SendSideUnchanged
  <1>9. FlagTypes'
    <2>1. pump_next' \in BOOLEAN
      BY <1>1
    <2>2. QED
      BY <1>2, <2>1 DEF IInv, Types, FlagTypes
  <1>10. PumpInv'
    <2>1. ~Has(tasks, Pumps) /\ ~read_paused
      BY <1>4 DEF IInv, PumpInv
    <2>2. QED
      BY <1>1, <1>2, <1>7, <2>1 DEF PumpsKept, PumpInv
  \* The message is handed over or queued.
  <1>11. /\ received \in Seq(1 .. PeerMessages) /\ delivered \in Seq(1 .. PeerMessages)
         /\ peer_sent \in Nat /\ delivered \o received = [i \in 1 .. peer_sent |-> i]
    BY DEF IInv, Types, ReceiveTypes, DeliveryInv, DeliveredInOrder
  <1>12. Append(delivered \o received, m) = [i \in 1 .. peer_sent' |-> i]
    <2>1. PICK s : s = delivered \o received
      OBVIOUS
    <2>2. PICK n \in Nat : n = peer_sent
      BY <1>11
    <2>3. s = [i \in 1 .. n |-> i]
      BY <1>11, <2>1, <2>2
    <2>4. Append(s, n + 1) = [i \in 1 .. (n + 1) |-> i]
      BY <2>3, OneMore
    <2>5. QED
      BY <1>3, <2>1, <2>2, <2>4
  <1>13. CASE pending_receive # None
    <2>1. /\ Owe(TRUE, <<Completion(ReceiveOp(pending_receive), "message")>>)
          /\ pending_receive' = None /\ receive_deadline' = None
          /\ delivered' = Append(delivered, m) /\ received' = received
      BY <1>1, <1>3, <1>13, Zenon DEF Deliver
    <2>2. "message" \in Outcomes
      BY DEF Outcomes
    <2>3. Tell(None, "message", pending_receive, "message")
      BY <1>2, <1>13, <2>1, <2>2, ParkedReceiveTold
    <2>4. received = <<>>
      BY <1>13 DEF IInv, DeliveryInv, DeliveredInOrder
    <2>5. delivered' \o received' = Append(delivered \o received, m)
      <3>1. delivered \o <<>> = delivered
        BY <1>11, ConcatEmptySeq
      <3>2. Append(delivered, m) \in Seq(1 .. PeerMessages)
        BY <1>11
      <3>3. Append(delivered, m) \o <<>> = Append(delivered, m)
        BY <3>2, ConcatEmptySeq
      <3>4. QED
        BY <2>1, <2>4, <3>1, <3>3
    <2>6. DeliveryInv'
      BY <1>1, <1>12, <2>1, <2>5 DEF IInv, DeliveryInv, DeliveredInOrder
    <2>7. ReceiveTypes'
      <3>1. delivered' \in Seq(1 .. PeerMessages) /\ reading' \in OpStates
        BY <1>1, <1>11, <2>1 DEF OpStates
      <3>2. QED
        BY <1>2, <1>3, <2>1, <3>1, BoundsAssumption DEF IInv, Types, ReceiveTypes, None
    <2>8. ReceiveMove(pending_receive)
      BY <1>2, <1>7, <2>1 DEF ReceiveMove
    <2>9. QED
      BY <1>2, <1>5, <1>7, <1>8, <1>9, <1>10, <2>3, <2>6, <2>7, <2>8, ReceiveSideStep
  <1>14. CASE pending_receive = None
    <2>1. /\ received' = Append(received, m)
          /\ UNCHANGED <<pending_receive, receive_deadline, delivered, owed>>
      BY <1>1, <1>3, <1>14, Zenon DEF Deliver
    <2>2. Tell(None, "ok", None, "ok")
      BY <1>0, <1>2, <2>1, TellsNothing
    <2>3. delivered' \o received' = Append(delivered \o received, m)
      <3>0. PICK S : S = 1 .. PeerMessages
        OBVIOUS
      <3>a. delivered \in Seq(S) /\ received \in Seq(S) /\ m \in S
        BY <1>11, <3>0
      <3>1. delivered \o Append(received, m) = Append(delivered \o received, m)
        BY <3>a, ArrivalConcat
      <3>2. delivered' = delivered /\ received' = Append(received, m)
        BY <2>1
      <3>3. QED
        BY <3>1, <3>2, Zenon
    <2>4. Len(received') <= QueueDepth
      BY <1>4, <1>11, <2>1, QueueDepthAssumption
    <2>5. DeliveryInv'
      BY <1>1, <1>12, <1>14, <2>1, <2>3, <2>4 DEF DeliveryInv, DeliveredInOrder
    <2>6. ReceiveTypes'
      <3>1. received' \in Seq(1 .. PeerMessages) /\ reading' \in OpStates
        BY <1>1, <1>11, <2>1 DEF OpStates
      <3>2. QED
        BY <1>2, <1>3, <2>1, <3>1, BoundsAssumption DEF IInv, Types, ReceiveTypes, None
    <2>7. ReceiveMove(None)
      BY <1>2, <1>7, <2>1 DEF ReceiveMove
    <2>8. QED
      BY <1>2, <1>5, <1>7, <1>8, <1>9, <1>10, <2>2, <2>5, <2>6, <2>7, ReceiveSideStep
  <1>15. QED
    BY <1>13, <1>14

\* A handler or an abort takes both waiters: they are told by what it owes.
LEMMA WaitersTold ==
    ASSUME IInv, NEW strand \in BOOLEAN, NEW out \in Outcomes, TakeAsyncWaiters(strand, out),
           UNCHANGED log
    PROVE  Tell(pending_send, "transport", pending_receive, out)
  <1>1. /\ pending_send \in 0 .. SendBudget /\ pending_receive \in 0 .. ReceiveBudget
        /\ DebtTypes /\ DebtInv /\ "transport" \in Outcomes
    BY DEF IInv, Types, SendTypes, ReceiveTypes, Outcomes
  <1>2. PICK k \in 0 .. SendBudget : k = pending_send
    BY <1>1
  <1>3. PICK j \in 0 .. ReceiveBudget : j = pending_receive
    BY <1>1
  <1>4. PICK todo : todo = DueList(k, "transport", j, out)
    OBVIOUS
  <1>5. Owe(strand, todo)
    BY <1>2, <1>3, <1>4, Zenon DEF TakeAsyncWaiters, TerminalWaiters, DueList
  <1>6. /\ k # None => ~Owing(SendOp(k))
        /\ j # None => ~Owing(ReceiveOp(j))
    BY <1>2, <1>3, ParkedUnowed DEF IInv
  <1>7. Tell(k, "transport", j, out)
    BY <1>1, <1>4, <1>5, <1>6, TellsDue
  <1>8. QED
    BY <1>2, <1>3, <1>7

\* A step that ends the session, or finds it ended, for whoever is parked.
EndsSession ==
    /\ UNCHANGED <<received, delivered, peer_sent, receives, receive_park_generation,
                   blocked_receivers, read_paused, pump_next, sends, turn, stage, write_buffer,
                   on_wire, write_complete, write_error, wire_write_busy, writing, log>>
    /\ reading' \in OpStates /\ closing' \in OpStates
    /\ reading = "idle" => reading' = "idle"
    /\ failed => failed'
    /\ peer_closed => peer_closed'
    /\ peer_closed' => stream_down'
    /\ close_requested => close_requested'
    /\ TaskTypes' /\ PumpsKept /\ WritesKept /\ ReadyPosted(None)

LEMMA TerminalStep ==
    ASSUME IInv, EndsSession, FlagTypes', WireInv', PumpInv', NEW strand \in BOOLEAN,
           NEW out \in Outcomes, TakeAsyncWaiters(strand, out), out = "end" => peer_closed'
    PROVE  IInv'
  <1>1. Tell(pending_send, "transport", pending_receive, out)
    BY WaitersTold DEF EndsSession
  <1>2. pending_send' = None /\ pending_receive' = None /\ receive_deadline' = None
    BY Zenon DEF TakeAsyncWaiters
  <1>3. ReceiveTypes'
    BY <1>2, BoundsAssumption DEF EndsSession, IInv, Types, ReceiveTypes, None
  <1>4. SendTypes'
    BY <1>2, BoundsAssumption DEF EndsSession, IInv, Types, SendTypes, None
  <1>5. DebtTypes' /\ DebtInv' /\ TaskTypes'
    BY <1>1 DEF Tell, EndsSession
  <1>6. DeliveryInv'
    BY <1>2, DeliveryKept DEF EndsSession, IInv
  <1>7. SendOnce'
    <2>1. SendMove(pending_send)
      BY <1>2 DEF SendMove, EndsSession
    <2>2. QED
      BY <1>1, <2>1, SendMoved DEF IInv
  <1>8. ReceiveOnce'
    <2>1. ReceiveMove(pending_receive) /\ receives' <= ReceiveBudget
      BY <1>2, <1>3 DEF ReceiveMove, EndsSession, ReceiveTypes
    <2>2. QED
      BY <1>1, <2>1, ReceiveMoved DEF IInv
  <1>9. WriteInv'
    <2>1. Ended => Ended'
      BY DEF Ended, EndsSession
    <2>2. QED
      BY <1>1, <1>2, <2>1, WriteKept DEF EndsSession, IInv
  <1>10. EndInv'
    <2>1. out = "end" /\ pending_receive # None => peer_closed' /\ received' = <<>>
      BY DEF EndsSession, IInv, DeliveryInv, DeliveredInOrder
    <2>2. QED
      BY <1>1, <2>1, EndKept DEF EndsSession, IInv
  <1>11. QED
    BY <1>3, <1>4, <1>5, <1>6, <1>7, <1>8, <1>9, <1>10, Zenon DEF IInv, Types

\* Nothing posted: the queue keeps what it held.
LEMMA QueueKept ==
    ASSUME IInv, UNCHANGED tasks
    PROVE  TaskTypes' /\ PumpsKept /\ WritesKept /\ ReadyPosted(None)
  <1>1. QueueGrows(FALSE, None, None)
    BY QueueSame DEF IInv, Types
  <1>2. QED
    BY <1>1, GrowthKeeps DEF IInv, WireInv, PumpInv

LEMMA OnReadClosedStep ==
    ASSUME IInv, OnReadClosed
    PROVE  IInv'
  <1>1. /\ Flowing(reading) /\ reading' = "idle" /\ stream_down' = TRUE
        /\ peer_closed' = TRUE /\ peer_close' = TRUE /\ TakeAsyncWaiters(TRUE, "end")
        /\ UNCHANGED <<received, receive_park_generation, blocked_receivers, read_paused, failed,
                       close_requested, close_started, write_complete, write_error,
                       wire_write_busy, write_buffer, blockingSend, tasks, pump_next, writing,
                       closing, socket_open, overlap, kick_deadline, issued, seen, log>>
    BY Zenon DEF OnReadClosed
  <1>2. UNCHANGED <<received, delivered, peer_sent, receives, receive_park_generation,
                    blocked_receivers, read_paused, pump_next, sends, turn, stage, write_buffer,
                    on_wire, write_complete, write_error, wire_write_busy, writing, log, failed,
                    close_requested, close_started, closing, socket_open, overlap, kick_deadline,
                    closes, aborted, tasks>>
    BY <1>1 DEF blockingSend, issued, seen
  <1>3. TaskTypes' /\ PumpsKept /\ WritesKept /\ ReadyPosted(None)
    BY <1>2, QueueKept
  <1>4. EndsSession
    BY <1>1, <1>2, <1>3 DEF EndsSession, IInv, Types, SendTypes, OpStates
  <1>5. FlagTypes'
    <2>1. stream_down' \in BOOLEAN /\ peer_closed' \in BOOLEAN /\ peer_close' \in BOOLEAN
      BY <1>1
    <2>2. QED
      BY <1>2, <2>1 DEF IInv, Types, FlagTypes
  <1>6. WireInv'
    BY <1>2, <1>3, WireKept DEF IInv
  <1>7. PumpInv'
    BY <1>1, <1>2, <1>3 DEF IInv, PumpInv, PumpsKept
  <1>8. "end" \in Outcomes /\ TRUE \in BOOLEAN
    BY DEF Outcomes
  <1>9. QED
    BY <1>1, <1>4, <1>5, <1>6, <1>7, <1>8, TerminalStep

LEMMA OnReadErrorStep ==
    ASSUME IInv, OnReadError
    PROVE  IInv'
  <1>0. DebtTypes /\ DebtInv
    BY DEF IInv, Types
  <1>1. /\ reading' = "idle"
        /\ \/ /\ ReadAborted /\ close_requested
              /\ stream_down' = (stream_down \/ closing # "out")
              /\ UNCHANGED <<failed, pending_send, pending_receive, receive_deadline, owed>>
           \/ stream_down' = TRUE /\ Fail(TRUE)
        /\ UNCHANGED <<received, receive_park_generation, blocked_receivers, read_paused,
                       peer_closed, close_requested, close_started, peer_close, write_complete,
                       write_error, wire_write_busy, write_buffer, blockingSend, tasks, pump_next,
                       writing, closing, socket_open, overlap, kick_deadline, issued, seen, log>>
    BY Zenon DEF OnReadError
  <1>2. UNCHANGED <<received, delivered, peer_sent, receives, receive_park_generation,
                    blocked_receivers, read_paused, pump_next, sends, turn, stage, write_buffer,
                    on_wire, write_complete, write_error, wire_write_busy, writing, log,
                    peer_closed, peer_close, close_requested, close_started, closing, socket_open,
                    overlap, kick_deadline, closes, aborted, tasks>>
    BY <1>1 DEF blockingSend, issued, seen
  <1>3. TaskTypes' /\ PumpsKept /\ WritesKept /\ ReadyPosted(None)
    BY <1>2, QueueKept
  <1>4. stream_down' \in BOOLEAN /\ (stream_down => stream_down')
    BY <1>1
  <1>5. CASE /\ close_requested
             /\ UNCHANGED <<failed, pending_send, pending_receive, receive_deadline, owed>>
    <2>1. SendSideUnchanged
      BY <1>2, <1>3, <1>5 DEF SendSideUnchanged
    <2>2. FlagTypes'
      BY <1>2, <1>4, <1>5 DEF IInv, Types, FlagTypes
    <2>3. ReceiveTypes'
      BY <1>1, <1>2, <1>5 DEF IInv, Types, ReceiveTypes, OpStates
    <2>4. PumpInv'
      BY <1>1, <1>2, <1>3, <1>5 DEF IInv, PumpInv, PumpsKept
    <2>5. DeliveryInv'
      BY <1>1, <1>2, <1>5, DeliveryKept DEF IInv
    <2>6. Tell(None, "ok", None, "ok")
      BY <1>0, <1>2, <1>5, TellsNothing
    <2>7. ReceiveMove(None)
      BY <1>2, <1>3, <1>5 DEF ReceiveMove
    <2>8. received' = received
      BY <1>2
    <2>9. QED
      BY <1>3, <1>4, <2>1, <2>2, <2>3, <2>4, <2>5, <2>6, <2>7, <2>8, ReceiveSideStep
  <1>6. CASE stream_down' = TRUE /\ Fail(TRUE)
    <2>1. failed' = (failed \/ ~peer_closed) /\ TakeAsyncWaiters(TRUE, "transport")
      BY <1>6, Zenon DEF Fail
    <2>2. failed' \in BOOLEAN /\ (failed => failed') /\ (failed' \/ peer_closed)
      BY <2>1
    <2>3. EndsSession
      BY <1>1, <1>2, <1>3, <1>6, <2>2 DEF EndsSession, IInv, Types, SendTypes, OpStates
    <2>4. FlagTypes'
      BY <1>2, <1>4, <2>2 DEF IInv, Types, FlagTypes
    <2>5. WireInv'
      BY <1>2, <1>3, WireKept DEF IInv
    <2>6. PumpInv'
      BY <1>1, <1>2, <1>3, <2>2 DEF IInv, PumpInv, PumpsKept
    <2>7. "transport" \in Outcomes /\ TRUE \in BOOLEAN
      BY DEF Outcomes
    <2>8. QED
      BY <2>1, <2>3, <2>4, <2>5, <2>6, <2>7, TerminalStep
  <1>7. QED
    BY <1>1, <1>5, <1>6

LEMMA OnReadViolationStep ==
    ASSUME IInv, OnReadViolation
    PROVE  IInv'
  <1>1. /\ Flowing(reading) /\ reading' = "idle" /\ Fail(TRUE) /\ close_requested' = TRUE
        /\ IF ~close_started /\ ~wire_write_busy THEN StartClose
           ELSE UNCHANGED <<close_started, closing, overlap>>
        /\ UNCHANGED <<received, receive_park_generation, blocked_receivers, read_paused,
                       peer_closed, peer_close, write_complete, write_error, wire_write_busy,
                       write_buffer, blockingSend, tasks, pump_next, writing, socket_open,
                       stream_down, kick_deadline, issued, seen, log>>
    BY Zenon DEF OnReadViolation
  <1>2. UNCHANGED <<received, delivered, peer_sent, receives, receive_park_generation,
                    blocked_receivers, read_paused, pump_next, sends, turn, stage, write_buffer,
                    on_wire, write_complete, write_error, wire_write_busy, writing, log,
                    peer_closed, peer_close, socket_open, stream_down, kick_deadline, closes,
                    aborted, tasks>>
    BY <1>1 DEF blockingSend, issued, seen
  <1>3. TaskTypes' /\ PumpsKept /\ WritesKept /\ ReadyPosted(None)
    BY <1>2, QueueKept
  <1>4. failed' = (failed \/ ~peer_closed) /\ TakeAsyncWaiters(TRUE, "transport")
    BY <1>1, Zenon DEF Fail
  <1>5. failed' \in BOOLEAN /\ (failed => failed') /\ (failed' \/ peer_closed)
    BY <1>4
  <1>6. /\ overlap' = overlap /\ close_started' \in BOOLEAN /\ closing' \in OpStates
        /\ closing' # "idle" => close_started'
    <2>1. /\ ~overlap /\ (closing # "idle" => close_started)
          /\ wire_write_busy <=> writing # "idle"
      BY DEF IInv, WireInv
    <2>2. overlap \in BOOLEAN /\ close_started \in BOOLEAN /\ closing \in OpStates
      BY DEF IInv, Types, FlagTypes, SendTypes
    <2>3. CASE ~close_started /\ ~wire_write_busy
      <3>1. /\ close_started' = TRUE /\ closing' = "out"
            /\ overlap' = (overlap \/ writing # "idle" \/ closing # "idle")
        BY <1>1, <2>3 DEF StartClose
      <3>2. QED
        BY <2>1, <2>2, <2>3, <3>1 DEF OpStates
    <2>4. CASE ~(~close_started /\ ~wire_write_busy)
      <3>1. UNCHANGED <<close_started, closing, overlap>>
        BY <1>1, <2>4
      <3>2. QED
        BY <2>1, <2>2, <3>1
    <2>5. QED
      BY <2>3, <2>4
  <1>7. EndsSession
    <2>1. ~peer_closed
      BY <1>1 DEF Flowing, IInv, EndInv
    <2>2. QED
      BY <1>1, <1>2, <1>3, <1>5, <1>6, <2>1 DEF EndsSession, OpStates
  <1>8. FlagTypes'
    <2>1. close_requested' \in BOOLEAN
      BY <1>1
    <2>2. QED
      BY <1>2, <1>5, <1>6, <2>1 DEF IInv, Types, FlagTypes
  <1>9. WireInv'
    BY <1>1, <1>2, <1>3, <1>6 DEF WritesKept, IInv, WireInv
  <1>10. PumpInv'
    BY <1>1, <1>2, <1>3, <1>5 DEF IInv, PumpInv, PumpsKept
  <1>11. "transport" \in Outcomes /\ TRUE \in BOOLEAN
    BY DEF Outcomes
  <1>12. QED
    BY <1>4, <1>7, <1>8, <1>9, <1>10, <1>11, TerminalStep

LEMMA OnCloseStep ==
    ASSUME IInv, NEW error \in BOOLEAN, OnClose(error)
    PROVE  IInv'
  <1>1. /\ closing' = "idle" /\ stream_down' = TRUE
        /\ failed' = (failed \/ (error /\ ~peer_closed))
        /\ peer_closed' = (peer_closed \/ CleanEnd(error))
        /\ TakeAsyncWaiters(TRUE, IF failed' THEN "transport" ELSE "end")
        /\ UNCHANGED <<received, receive_park_generation, blocked_receivers, read_paused,
                       close_requested, close_started, peer_close, write_complete, write_error,
                       wire_write_busy, write_buffer, blockingSend, tasks, pump_next, reading,
                       writing, socket_open, overlap, kick_deadline, issued, seen, log>>
    BY Zenon DEF OnClose
  <1>2. UNCHANGED <<received, delivered, peer_sent, receives, receive_park_generation,
                    blocked_receivers, read_paused, pump_next, sends, turn, stage, write_buffer,
                    on_wire, write_complete, write_error, wire_write_busy, writing, log,
                    peer_close, reading, close_requested, close_started, socket_open, overlap,
                    kick_deadline, closes, aborted, tasks>>
    BY <1>1 DEF blockingSend, issued, seen
  <1>3. TaskTypes' /\ PumpsKept /\ WritesKept /\ ReadyPosted(None)
    BY <1>2, QueueKept
  <1>4. /\ failed' \in BOOLEAN /\ (failed => failed')
        /\ peer_closed' \in BOOLEAN /\ (peer_closed => peer_closed')
        /\ failed' \/ peer_closed'
    BY <1>1 DEF CleanEnd
  <1>5. EndsSession
    BY <1>1, <1>2, <1>3, <1>4 DEF EndsSession, IInv, Types, ReceiveTypes, OpStates
  <1>6. FlagTypes'
    <2>1. stream_down' \in BOOLEAN
      BY <1>1
    <2>2. QED
      BY <1>2, <1>4, <2>1 DEF IInv, Types, FlagTypes
  <1>7. WireInv'
    BY <1>1, <1>2, <1>3 DEF WritesKept, IInv, WireInv
  <1>8. PumpInv'
    BY <1>2, <1>3, <1>4, PumpKept DEF IInv
  <1>9. PICK out : out = IF failed' THEN "transport" ELSE "end"
    OBVIOUS
  <1>10. /\ out \in Outcomes /\ TRUE \in BOOLEAN /\ (out = "end" => peer_closed')
         /\ TakeAsyncWaiters(TRUE, out)
    BY <1>1, <1>4, <1>9 DEF Outcomes
  <1>11. QED
    BY <1>5, <1>6, <1>7, <1>8, <1>10, TerminalStep

\* A task of the close is posted.
LEMMA CloseTaskPosted ==
    ASSUME IInv, NEW kind \in {"Close", "Kick", "CloseSocket"},
           tasks' = Append(tasks, Task(kind, None))
    PROVE  TaskTypes' /\ PumpsKept /\ WritesKept /\ ReadyPosted(None)
  <1>1. PICK t \in Tasks : t = Task(kind, None) /\ t.kind = kind
    BY TaskKinds
  <1>2. QueueGrows(t.kind = "PumpRead", IF t.kind = "StartWrite" THEN t.arg ELSE None,
                   IF t.kind = "Ready" THEN t.arg ELSE None)
    BY <1>1, QueuePosted DEF IInv, Types
  <1>3. QueueGrows(FALSE, None, None)
    BY <1>1, <1>2 DEF QueueGrows
  <1>4. QED
    BY <1>3, GrowthKeeps DEF IInv, WireInv, PumpInv

\* Abort, from whoever calls it.
LEMMA AbortNowStep ==
    ASSUME IInv, NEW ok \in BOOLEAN, AbortNow(ok), closes' \in 0 .. CloseBudget, aborted' \in BOOLEAN,
           UNCHANGED <<received, delivered, peer_sent, receives, receive_park_generation,
                       blocked_receivers, read_paused, pump_next, sends, turn, stage, write_buffer,
                       on_wire, write_complete, write_error, wire_write_busy, writing, log,
                       peer_closed, peer_close, reading, close_requested, close_started, closing,
                       socket_open, stream_down, overlap, kick_deadline>>
    PROVE  IInv'
  <1>1. /\ failed' = (failed \/ ~peer_closed) /\ TakeAsyncWaiters(FALSE, "transport")
        /\ tasks' = IF ok THEN Append(tasks, Task("CloseSocket", None)) ELSE tasks
    BY Zenon DEF AbortNow, Fail
  <1>2. TaskTypes' /\ PumpsKept /\ WritesKept /\ ReadyPosted(None)
    <2>1. CASE ok
      BY <1>1, <2>1, CloseTaskPosted
    <2>2. CASE ~ok
      BY <1>1, <2>2, QueueKept
    <2>3. QED
      BY <2>1, <2>2
  <1>3. failed' \in BOOLEAN /\ (failed => failed')
    BY <1>1
  <1>4. EndsSession
    BY <1>2, <1>3 DEF EndsSession, IInv, EndInv, Types, ReceiveTypes, SendTypes
  <1>5. FlagTypes'
    BY <1>3 DEF IInv, Types, FlagTypes
  <1>6. WireInv'
    BY <1>2, WireKept DEF IInv
  <1>7. PumpInv'
    BY <1>2, <1>3, PumpKept DEF IInv
  <1>8. "transport" \in Outcomes /\ FALSE \in BOOLEAN
    BY DEF Outcomes
  <1>9. QED
    BY <1>1, <1>4, <1>5, <1>6, <1>7, <1>8, TerminalStep

LEMMA AbortStep ==
    ASSUME IInv, NEW ok \in BOOLEAN, Abort(ok)
    PROVE  IInv'
  <1>1. /\ aborted' = TRUE /\ AbortNow(ok)
        /\ UNCHANGED <<received, receive_park_generation, blocked_receivers, read_paused,
                       peer_closed, close_requested, close_started, peer_close, write_complete,
                       write_error, wire_write_busy, write_buffer, blockingSend, wire, strandSide,
                       sends, receives, closes, seen, log>>
    BY Zenon DEF Abort
  <1>2. closes' \in 0 .. CloseBudget /\ aborted' \in BOOLEAN
    BY <1>1 DEF IInv, Types, FlagTypes
  <1>3. QED
    BY <1>1, <1>2, AbortNowStep DEF blockingSend, wire, strandSide, seen

LEMMA CloseCallStep ==
    ASSUME IInv, NEW kind \in {"Close", "Kick"}, NEW ok \in BOOLEAN, Close(kind, ok)
    PROVE  IInv'
  <1>1. /\ closes < CloseBudget /\ closes' = closes + 1
        /\ IF ok
           THEN /\ tasks' = Append(tasks, Task(kind, None))
                /\ UNCHANGED <<failed, pending_send, pending_receive, receive_deadline, owed>>
           ELSE \E again \in BOOLEAN : AbortNow(again)
        /\ UNCHANGED <<received, receive_park_generation, blocked_receivers, read_paused,
                       peer_closed, close_requested, close_started, peer_close, write_complete,
                       write_error, wire_write_busy, write_buffer, blockingSend, wire, strandSide,
                       sends, receives, aborted, seen, log>>
    BY Zenon DEF Close
  <1>2. closes' \in 0 .. CloseBudget /\ aborted' \in BOOLEAN
    BY <1>1, BoundsAssumption DEF IInv, Types, FlagTypes
  <1>3. UNCHANGED <<received, delivered, peer_sent, receives, receive_park_generation,
                    blocked_receivers, read_paused, pump_next, sends, turn, stage, write_buffer,
                    on_wire, write_complete, write_error, wire_write_busy, writing, log,
                    peer_closed, peer_close, reading, close_requested, close_started, closing,
                    socket_open, stream_down, overlap, kick_deadline>>
    BY <1>1 DEF blockingSend, wire, strandSide, seen
  <1>4. CASE ok
    <2>1. /\ tasks' = Append(tasks, Task(kind, None))
          /\ UNCHANGED <<failed, pending_send, pending_receive, receive_deadline, owed>>
      BY <1>1, <1>4
    <2>2. TaskTypes' /\ PumpsKept /\ WritesKept /\ ReadyPosted(None)
      BY <2>1, CloseTaskPosted
    <2>3. ClosesOnly
      BY <1>3, <2>1 DEF ClosesOnly, IInv, Types, ReceiveTypes, SendTypes
    <2>4. FlagTypes'
      BY <1>2, <1>3, <2>1 DEF IInv, Types, FlagTypes
    <2>5. WireInv'
      BY <1>3, <2>2, WireKept DEF IInv
    <2>6. QED
      BY <2>2, <2>3, <2>4, <2>5, CloseStep
  <1>5. CASE ~ok
    <2>1. PICK again \in BOOLEAN : AbortNow(again)
      BY <1>1, <1>5
    <2>2. QED
      BY <1>2, <1>3, <2>1, AbortNowStep
  <1>6. QED
    BY <1>4, <1>5

LEMMA FireStep ==
    ASSUME IInv, Fire
    PROVE  IInv'
  <1>1. UNCHANGED <<receiveSide, flags, sendSide, blockingSend, tasks, wire, strandSide, issued, seen>>
    BY Zenon DEF Fire
  <1>2. NoMessageMoves /\ UNCHANGED <<receives, pending_receive, receive_park_generation,
                                      receive_deadline, blocked_receivers, tasks>>
    BY <1>1 DEF NoMessageMoves, receiveSide, flags, sendSide, blockingSend, wire, strandSide,
                issued, seen
  <1>3. TaskTypes' /\ PumpsKept /\ WritesKept /\ ReadyPosted(None)
    BY <1>2, QueueKept
  <1>4. Tell(None, "ok", None, "ok")
    BY TellsFire DEF IInv, Types
  <1>5. ReceiveTypes'
    BY <1>2 DEF NoMessageMoves, IInv, Types, ReceiveTypes
  <1>6. ReceiveMove(None)
    BY <1>2, <1>3 DEF ReceiveMove
  <1>7. QED
    BY <1>2, <1>3, <1>4, <1>5, <1>6, ReceiveMovesStep

\* A step that changes nothing.
LEMMA StutterStep ==
    ASSUME IInv, UNCHANGED vars
    PROVE  IInv'
  <1>1. NoMessageMoves /\ UNCHANGED <<receives, pending_receive, receive_park_generation,
                                      receive_deadline, blocked_receivers, tasks, owed, log>>
    BY DEF NoMessageMoves, vars
  <1>2. TaskTypes' /\ PumpsKept /\ WritesKept /\ ReadyPosted(None)
    BY <1>1, QueueKept
  <1>3. Tell(None, "ok", None, "ok")
    BY <1>1, TellsNothing DEF IInv, Types
  <1>4. ReceiveTypes'
    BY <1>1 DEF NoMessageMoves, IInv, Types, ReceiveTypes
  <1>5. ReceiveMove(None)
    BY <1>1, <1>2 DEF ReceiveMove
  <1>6. QED
    BY <1>1, <1>2, <1>3, <1>4, <1>5, ReceiveMovesStep

-----------------------------------------------------------------------------
\* The invariant.

LEMMA SchedulingTypes == Scheduling \subseteq BOOLEAN
  BY DEF Scheduling

LEMMA NextIInv == ASSUME IInv, [Next]_vars PROVE IInv'
  <1>1. CASE Application
    <2>1. PICK ok \in Scheduling :
            \/ \E timed \in BOOLEAN : ReceiveWithin(timed, ok)
            \/ \E budget \in {"none", "poll", "timed"}, resumed \in Scheduling :
                 ReceiveAsyncWithin(budget, resumed, ok)
            \/ Send(ok) \/ SendAsync(ok)
            \/ \E kind \in {"Close", "Kick"} : Close(kind, ok)
            \/ Abort(ok)
      BY <1>1, Zenon DEF Application
    <2>2. ok \in BOOLEAN
      BY SchedulingTypes
    <2>3. ASSUME NEW timed \in BOOLEAN, ReceiveWithin(timed, ok) PROVE IInv'
      BY <2>2, <2>3, ReceiveWithinStep
    <2>4. ASSUME NEW budget \in {"none", "poll", "timed"}, NEW resumed \in Scheduling,
                 ReceiveAsyncWithin(budget, resumed, ok)
          PROVE  IInv'
      <3>1. resumed \in BOOLEAN
        BY SchedulingTypes
      <3>2. QED
        BY <2>2, <2>4, <3>1, ReceiveAsyncStep
    <2>5. ASSUME NEW kind \in {"Close", "Kick"}, Close(kind, ok) PROVE IInv'
      BY <2>2, <2>5, CloseCallStep
    <2>6. QED
      BY <2>1, <2>2, <2>3, <2>4, <2>5, SendStep, SendAsyncStep, AbortStep
  <1>2. CASE Blocked
    <2>1. ASSUME NEW ok \in Scheduling, ReceiveWakes(ok) \/ SendWakes(ok) PROVE IInv'
      <3>1. ok \in BOOLEAN
        BY SchedulingTypes
      <3>2. QED
        BY <2>1, <3>1, ReceiveWakesStep, SendWakesStep
    <2>2. QED
      BY <1>2, <2>1, ReceiveTimesOutStep, SendReturnsStep DEF Blocked
  <1>3. CASE Strand
    BY <1>3, PumpReadStep, ReadyCompletionStep, OnReceiveDeadlineStep, StartWriteStep,
       CloseTaskStep, KickTaskStep, CloseSocketTaskStep DEF Strand
  <1>4. CASE Timers
    BY <1>4, DeadlineExpiresStep, KickDeadlineStep DEF Timers
  <1>5. CASE Wire
    BY <1>5, OnReadMessageStep, OnReadClosedStep, OnReadErrorStep, OnReadViolationStep,
       OnWriteStep, OnCloseStep DEF Wire, OnRead
  <1>6. QED
    BY <1>1, <1>2, <1>3, <1>4, <1>5, FireStep, StutterStep DEF Next

LEMMA InitIInv == ASSUME Init PROVE IInv
  <1>1. /\ received = <<>> /\ pending_receive = None /\ pending_send = None
        /\ receive_park_generation = 0 /\ receive_deadline = None
        /\ blocked_receivers = {} /\ read_paused = FALSE
        /\ peer_closed = FALSE /\ failed = FALSE /\ peer_close = FALSE
        /\ write_complete = TRUE /\ write_error = FALSE /\ wire_write_busy = FALSE
        /\ write_buffer = None
        /\ close_requested = FALSE /\ close_started = FALSE
        /\ turn = None /\ stage = "idle"
        /\ tasks = <<Task("PumpRead", None)>>
        /\ pump_next = FALSE
        /\ reading = "idle" /\ writing = "idle" /\ closing = "idle"
        /\ socket_open = TRUE /\ stream_down = FALSE /\ overlap = FALSE
        /\ kick_deadline = "none"
        /\ owed = {}
        /\ sends = 0 /\ receives = 0 /\ closes = 0 /\ aborted = FALSE
        /\ peer_sent = 0 /\ delivered = <<>> /\ on_wire = {}
        /\ log = [op \in Issuable |-> <<>>]
    BY Zenon DEF Init
  <1>2. PICK t \in Tasks : t = Task("PumpRead", None) /\ t.kind = "PumpRead"
    BY TaskKinds
  <1>3. tasks \in Seq(Tasks) /\ Len(tasks) = 1 /\ tasks[1] = t
    BY <1>1, <1>2
  <1>4. \A S : Single(tasks, S) /\ (Has(tasks, S) <=> t \in S)
    BY <1>3 DEF Single, Has
  <1>5. /\ t \in Pumps /\ t \notin Writes
        /\ \A n : t \notin WriteOf(n) /\ t \notin ReadyFor(n)
    BY <1>2, TaskKinds
  <1>6. FlagTypes
    <2>1. closes \in 0 .. CloseBudget
      BY <1>1, BoundsAssumption
    <2>2. QED
      BY <1>1, <2>1 DEF FlagTypes
  <1>7. ReceiveTypes
    BY <1>1, BoundsAssumption DEF ReceiveTypes, None, OpStates
  <1>8. SendTypes
    BY <1>1, BoundsAssumption DEF SendTypes, None, OpStates
  <1>9. TaskTypes /\ DebtTypes
    BY <1>1, <1>3 DEF TaskTypes, DebtTypes
  <1>10. WireInv
    BY <1>1, <1>4, <1>5 DEF WireInv
  <1>11. PumpInv
    BY <1>1, <1>4, <1>5 DEF PumpInv
  <1>12. DeliveryInv
    <2>1. Len(<<>>) = 0 /\ <<>> \o <<>> = [i \in 1 .. 0 |-> i]
      OBVIOUS
    <2>2. QED
      BY <1>1, <2>1, QueueDepthAssumption DEF DeliveryInv, DeliveredInOrder
  <1>13. DebtInv
    BY <1>1 DEF DebtInv
  <1>14. Promised = {} /\ \A op : ~Owing(op)
    BY <1>1 DEF Promised, Owing
  <1>15. \A op \in Issuable : log[op] = <<>> /\ Answers(op) = 0
    BY <1>1, <1>14 DEF Answers, One
  <1>16. \A op \in Issuable : \A out : out \notin Given(op)
    <2>1. GivenByLogOrDebt
      BY <1>9, GivenMeans
    <2>2. QED
      BY <1>14, <1>15, <2>1 DEF GivenByLogOrDebt
  <1>17. SendOnce
    BY <1>1, <1>15, IssuableOps DEF SendOnce, One, None
  <1>18. ReceiveOnce
    <2>1. \A n \in 1 .. ReceiveBudget :
             /\ Answers(ReceiveOp(n)) = 0 /\ ~BlockedFor(n) /\ ~Has(tasks, ReadyFor(n))
             /\ pending_receive # n /\ ~(n <= receives)
      BY <1>1, <1>4, <1>5, <1>15, IssuableOps DEF BlockedFor, None
    <2>2. QED
      BY <1>1, <1>4, <2>1 DEF ReceiveOnce, One
  <1>19. WriteInv
    BY <1>1, <1>16, IssuableOps DEF WriteInv, SuccessMeansOnWire
  <1>20. EndInv
    BY <1>1, <1>16, IssuableOps DEF EndInv
  <1>21. QED
    BY <1>6, <1>7, <1>8, <1>9, <1>10, <1>11, <1>12, <1>13, <1>17, <1>18, <1>19, <1>20 DEF IInv, Types

\* The session keeps its invariant, for every queue depth, budget and
\* executor: each critical section and each handler of class WsSession, in any
\* order the threads, the strand and the network allow.
THEOREM SessionInvariant == Spec => []IInv
  <1>1. Init => IInv
    BY InitIInv
  <1>2. IInv /\ [Next]_vars => IInv'
    BY NextIInv
  <1>3. QED
    BY <1>1, <1>2, PTL DEF Spec

-----------------------------------------------------------------------------
\* What the invariant says of the runs' properties.

\* How many tasks of a kind that comes at most once are queued.
LEMMA CountOnce ==
    ASSUME NEW s \in Seq(Tasks), NEW S, Single(s, S)
    PROVE  Cardinality({i \in 1 .. Len(s) : s[i] \in S}) = IF Has(s, S) THEN 1 ELSE 0
  <1>1. CASE Has(s, S)
    <2>1. PICK k \in 1 .. Len(s) : s[k] \in S
      BY <1>1 DEF Has
    <2>2. {i \in 1 .. Len(s) : s[i] \in S} = {k}
      BY <2>1 DEF Single
    <2>3. QED
      BY <1>1, <2>2, FS_Singleton
  <1>2. CASE ~Has(s, S)
    <2>1. {i \in 1 .. Len(s) : s[i] \in S} = {}
      BY <1>2 DEF Has
    <2>2. QED
      BY <1>2, <2>1, FS_EmptySet
  <1>3. QED
    BY <1>1, <1>2

\* One async_read and one write-class operation outstanding, at most.
THEOREM WireDisciplineHolds == Spec => []WireDiscipline
  <1>1. ASSUME IInv PROVE WireDiscipline
    <2>1. /\ received \in Seq(1 .. PeerMessages) /\ delivered \in Seq(1 .. PeerMessages)
          /\ pending_receive \in 0 .. ReceiveBudget
          /\ receive_park_generation \in 0 .. ReceiveBudget
          /\ receive_deadline \in 0 .. ReceiveBudget
          /\ blocked_receivers \subseteq [n : 1 .. ReceiveBudget, timed : BOOLEAN]
          /\ receives \in 0 .. ReceiveBudget /\ peer_sent \in 0 .. PeerMessages
          /\ reading \in {"idle", "out", "cancelled"}
      BY <1>1, BoundsAssumption DEF IInv, Types, ReceiveTypes, OpStates
    <2>2. /\ pending_send \in 0 .. SendBudget /\ turn \in 0 .. SendBudget
          /\ stage \in {"idle", "wait", "written"} /\ ((turn = None) <=> (stage = "idle"))
          /\ {writing, closing} \subseteq {"idle", "out", "cancelled"}
          /\ write_buffer \in 0 .. SendBudget /\ sends \in 0 .. SendBudget
          /\ on_wire \subseteq 1 .. SendBudget
      BY <1>1 DEF IInv, Types, SendTypes, OpStates
    <2>3. /\ {read_paused, peer_closed, failed, write_complete, write_error, wire_write_busy,
              close_requested, close_started, peer_close, pump_next, socket_open,
              stream_down, overlap, aborted} \subseteq BOOLEAN
          /\ kick_deadline \in {"none", "armed", "fired"} /\ closes \in 0 .. CloseBudget
      BY <1>1 DEF IInv, Types, FlagTypes
    <2>4. \A i \in DOMAIN tasks : tasks[i].kind \in
            {"PumpRead", "Ready", "Deadline", "StartWrite", "Close", "Kick", "CloseSocket"}
      <3>1. tasks \in Seq(Tasks)
        BY <1>1 DEF IInv, Types, TaskTypes
      <3>2. \A t \in Tasks : t.kind \in
              {"PumpRead", "Ready", "Deadline", "StartWrite", "Close", "Kick", "CloseSocket"}
        BY DEF Tasks
      <3>3. QED
        BY <3>1, <3>2
    <2>5. /\ \A c \in owed : c.strand \in BOOLEAN /\ c.todo # <<>>
          /\ log \in [Issuable -> Seq(Outcomes)]
      BY <1>1 DEF IInv, Types, DebtTypes, Debts
    <2>6. TypeOK
      BY <2>1, <2>2, <2>3, <2>4, <2>5 DEF TypeOK
    <2>7. QED
      BY <1>1, <2>6 DEF IInv, WireInv, WireDiscipline
  <1>2. QED
    BY <1>1, SessionInvariant, PTL

\* The read pump is never lost and never doubled, and a pause leaves a message.
THEOREM PumpNeverLostHolds == Spec => []PumpNeverLost
  <1>1. ASSUME IInv PROVE PumpNeverLost
    <2>1. Queued({"PumpRead"}) = IF Has(tasks, Pumps) THEN 1 ELSE 0
      <3>1. tasks \in Seq(Tasks) /\ Single(tasks, Pumps)
        BY <1>1 DEF IInv, Types, TaskTypes, PumpInv
      <3>2. {i \in DOMAIN tasks : tasks[i].kind \in {"PumpRead"}}
              = {i \in 1 .. Len(tasks) : tasks[i] \in Pumps}
        <4>1. DOMAIN tasks = 1 .. Len(tasks) /\ \A i \in 1 .. Len(tasks) : tasks[i] \in Tasks
          BY <3>1
        <4>2. QED
          BY <4>1 DEF Pumps
      <3>3. QED
        BY <3>1, <3>2, CountOnce DEF Queued
    <2>2. read_paused /\ ~failed /\ ~peer_closed => received # <<>>
      <3>1. Len(<<>>) = 0
        OBVIOUS
      <3>2. read_paused /\ ~failed /\ ~peer_closed => Len(received) # 0
        BY <1>1, QueueDepthAssumption DEF IInv, PumpInv, Types, ReceiveTypes
      <3>3. QED
        BY <3>1, <3>2
    <2>3. PICK q \in {0, 1} : q = Queued({"PumpRead"}) /\ (q = 1 <=> Has(tasks, Pumps))
      BY <2>1
    <2>4. ~failed /\ ~peer_closed /\ ~close_requested =>
            One(reading # "idle") + One(pump_next) + q + One(read_paused) = 1
      BY <1>1, <2>3 DEF IInv, PumpInv, One
    <2>5. QED
      BY <2>2, <2>3, <2>4 DEF PumpNeverLost
  <1>2. QED
    BY <1>1, SessionInvariant, PTL

\* Messages reach the application in wire order, none lost and none twice.
THEOREM DeliveredInOrderHolds == Spec => []DeliveredInOrder
  <1>1. IInv => DeliveredInOrder
    BY DEF IInv, DeliveryInv
  <1>2. QED
    BY <1>1, SessionInvariant, PTL

\* Every callback fires once and every blocking call returns once.
THEOREM CompletesOnceHolds == Spec => []EachOperationCompletesOnce
  <1>1. ASSUME IInv, NEW op \in Issuable
        PROVE  Waiting(op) + Len(log[op]) + Cardinality(OwedPlaces(op)) = One(Started(op))
    <2>1. PICK c \in {0, 1} : c = Cardinality(OwedPlaces(op)) /\ c = One(Owing(op))
      BY <1>1, OwedOnce DEF IInv, Types, One
    <2>2. PICK l \in Nat : l = Len(log[op])
      BY <1>1 DEF IInv, Types, DebtTypes
    <2>3. Answers(op) = c + l
      BY <2>1, <2>2 DEF Answers
    <2>4. CASE \E n \in 1 .. SendBudget : op = SendOp(n)
      <3>1. PICK n \in 1 .. SendBudget : op = SendOp(n)
        BY <2>4
      <3>2. op.kind = "send" /\ op.n = n
        BY <3>1, IssuableOps
      <3>3. PICK w \in Nat : w = One(pending_send = n) + One(turn = n)
        BY DEF One
      <3>4. w + (c + l) = One(n <= sends)
        BY <1>1, <2>3, <3>1, <3>3 DEF IInv, SendOnce
      <3>5. Waiting(op) = w /\ One(Started(op)) = One(n <= sends)
        BY <3>2, <3>3 DEF Waiting, Started
      <3>6. QED
        BY <2>1, <2>2, <3>4, <3>5
    <2>5. CASE \E n \in 1 .. ReceiveBudget : op = ReceiveOp(n)
      <3>1. PICK n \in 1 .. ReceiveBudget : op = ReceiveOp(n)
        BY <2>5
      <3>2. op.kind = "receive" /\ op.n = n
        BY <3>1, IssuableOps
      <3>3. Cardinality({i \in DOMAIN tasks : tasks[i].kind = "Ready" /\ tasks[i].arg = op.n})
              = One(Has(tasks, ReadyFor(n)))
        <4>1. tasks \in Seq(Tasks) /\ Single(tasks, ReadyFor(n))
          BY <1>1 DEF IInv, Types, TaskTypes, ReceiveOnce
        <4>2. {i \in DOMAIN tasks : tasks[i].kind = "Ready" /\ tasks[i].arg = op.n}
                = {i \in 1 .. Len(tasks) : tasks[i] \in ReadyFor(n)}
          <5>1. DOMAIN tasks = 1 .. Len(tasks) /\ \A i \in 1 .. Len(tasks) : tasks[i] \in Tasks
            BY <4>1
          <5>2. QED
            BY <3>2, <5>1 DEF ReadyFor
        <4>3. QED
          BY <4>1, <4>2, CountOnce DEF One
      <3>4. PICK w \in Nat : w = One(pending_receive = n) + One(BlockedFor(n))
                                   + One(Has(tasks, ReadyFor(n)))
        BY DEF One
      <3>5. w + (c + l) = One(n <= receives)
        BY <1>1, <2>3, <3>1, <3>4 DEF IInv, ReceiveOnce
      <3>6. Waiting(op) = w /\ One(Started(op)) = One(n <= receives)
        BY <3>2, <3>3, <3>4 DEF Waiting, Started, BlockedFor
      <3>7. QED
        BY <2>1, <2>2, <3>5, <3>6
    <2>6. QED
      BY <2>4, <2>5, IssuableOps
  <1>2. IInv => EachOperationCompletesOnce
    BY <1>1 DEF EachOperationCompletesOnce
  <1>3. QED
    BY <1>2, SessionInvariant, PTL

\* A success was on the wire, and the end comes after the last message.
THEOREM OutcomesHonest == Spec => []HonestOutcomes
  <1>1. IInv => HonestOutcomes
    BY DEF IInv, WriteInv, EndInv, HonestOutcomes, EndMeansDrained
  <1>2. QED
    BY <1>1, SessionInvariant, PTL

=============================================================================
