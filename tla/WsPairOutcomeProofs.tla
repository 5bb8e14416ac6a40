------------------------ MODULE WsPairOutcomeProofs ------------------------
(* Machine-checked proofs about what the pair tells its callers, for every   *)
(* queue depth, every budget and every number of threads: each operation     *)
(* completes exactly once, and the outcome it is given is true.              *)
EXTENDS WsPairProofs, FiniteSetTheorems

\* The completions of a list, and those that some thread owes.
Entries(todo) == {todo[i] : i \in 1 .. Len(todo)}
Promised == UNION {Entries(c.todo) : c \in owed}
Owing(op) == \E x \in Promised : x.op = op

\* The operations waiting in the session have been issued and wait once.
SendWaitInv ==
    \A e \in Ends :
        /\ sends[e] <= SendBudget[e] /\ pending_send[e] <= sends[e]
        /\ \A m \in blocked_senders[e] : m <= sends[e] /\ m # pending_send[e]

ReceiveWaitInv ==
    \A e \in Ends :
        /\ receives[e] <= ReceiveBudget[e] /\ pending_receive[e] <= receives[e]
        /\ \A r \in blocked_receivers[e] : r.n <= receives[e] /\ r.n # pending_receive[e]
        /\ \A r, q \in blocked_receivers[e] : r.n = q.n => r = q

\* No two places of what is owed are for the same operation.
DebtInv ==
    /\ \A x \in Promised : x.op \in Issuable
    /\ \A c, d \in owed : \A i \in 1 .. Len(c.todo), j \in 1 .. Len(d.todo) :
           c.todo[i].op = d.todo[j].op => c = d /\ i = j

\* An operation has not been issued, or waits, or is owed its outcome, or
\* was told it; it is never in two of these places.
Settled(started, waiting, owing, told) ==
    \/ ~started /\ ~waiting /\ ~owing /\ told = 0
    \/ started /\ waiting /\ ~owing /\ told = 0
    \/ started /\ ~waiting /\ owing /\ told = 0
    \/ started /\ ~waiting /\ ~owing /\ told = 1

OnceInv ==
    \A op \in Issuable : Settled(Started(op), Waiting(op), Owing(op), Len(log[op]))

CompletionInv == SendWaitInv /\ ReceiveWaitInv /\ DebtInv /\ OnceInv

\* An outcome has been given, or is about to be.
Told(op, out) == out \in Given(op)

Accepted(e, m) == \E i \in 1 .. Len(committed[e]) : committed[e][i] = m

\* What each outcome rests on, while the operation is parked and after.
TruthInv ==
    /\ \A e \in Ends : \A m \in 1 .. SendBudget[e] :
           Told(SendOp(e, m), "ok") <=> Accepted(e, m)
    /\ \A e \in Ends : \A n \in 1 .. ReceiveBudget[e] :
           Told(ReceiveOp(e, n), "end") => closed /\ queues[Peer(e)] = <<>>
    /\ \A op \in Issuable : Told(op, "timeout") => op \in bounded

\* A deadline in flight belongs to a park at or before the current one, and
\* the park it matches was issued with a deadline.
DeadlineInv ==
    /\ \A e \in Ends : \A r \in blocked_receivers[e] : r.timed => ReceiveOp(e, r.n) \in bounded
    /\ \A w \in arming \cup watchdogs :
           /\ w.generation <= receive_park_generation[w.end]
           /\ StillParked(w) => ReceiveOp(w.end, pending_receive[w.end]) \in bounded

\* With one sender thread, what is accepted comes before the parked send,
\* and the parked send before the blocked one: the messages c accepted from
\* an end, the calls it issued, its parked send and its blocked ones.
Ordered(c, issued, parked, blocked) ==
    /\ IsFiniteSet(blocked)
    /\ \A i \in 1 .. Len(c) : c[i] <= issued
    /\ SenderThreads = 1 =>
         /\ \A m, k \in blocked : m = k
         /\ \A i \in 1 .. Len(c) : /\ parked # None => c[i] < parked
                                   /\ \A m \in blocked : c[i] < m
         /\ \A m \in blocked : parked < m
         /\ \A i, j \in 1 .. Len(c) : i < j => c[i] < c[j]
OrderInv ==
    \A e \in Ends : Ordered(committed[e], sends[e], pending_send[e], blocked_senders[e])

-----------------------------------------------------------------------------
\* An operation is its kind, its end and its number.
LEMMA OpFields ==
    ASSUME NEW e, NEW n
    PROVE  /\ SendOp(e, n).kind = "send" /\ SendOp(e, n).end = e /\ SendOp(e, n).n = n
           /\ ReceiveOp(e, n).kind = "receive" /\ ReceiveOp(e, n).end = e
           /\ ReceiveOp(e, n).n = n
  BY DEF SendOp, ReceiveOp

\* The operations the budgets allow, by kind.
LEMMA IssuableOps ==
    /\ \A op \in Issuable :
         /\ op \in Ops /\ op.end \in Ends /\ op.n \in Nat /\ op.n >= 1
         /\ \/ op.kind = "send" /\ op = SendOp(op.end, op.n) /\ op.n <= SendBudget[op.end]
            \/ op.kind = "receive" /\ op = ReceiveOp(op.end, op.n) /\ op.n <= ReceiveBudget[op.end]
    /\ \A e \in Ends : \A n \in Nat : 1 <= n /\ n <= SendBudget[e] => SendOp(e, n) \in Issuable
    /\ \A e \in Ends : \A n \in Nat : 1 <= n /\ n <= ReceiveBudget[e] => ReceiveOp(e, n) \in Issuable
  <1>1. \A e \in Ends : SendBudget[e] \in Nat /\ ReceiveBudget[e] \in Nat
    BY BudgetAssumption
  <1>2. ASSUME NEW op \in Issuable
        PROVE  /\ op \in Ops /\ op.end \in Ends /\ op.n \in Nat /\ op.n >= 1
               /\ \/ op.kind = "send" /\ op = SendOp(op.end, op.n) /\ op.n <= SendBudget[op.end]
                  \/ op.kind = "receive" /\ op = ReceiveOp(op.end, op.n) /\ op.n <= ReceiveBudget[op.end]
    <2>1. CASE \E e \in Ends : \E n \in 1 .. SendBudget[e] : op = SendOp(e, n)
      <3>1. PICK e \in Ends, n \in Nat : n >= 1 /\ n <= SendBudget[e] /\ op = SendOp(e, n)
        BY <1>1, <2>1
      <3>2. op.kind = "send" /\ op.end = e /\ op.n = n /\ op \in Ops
        BY <3>1, OpFields DEF SendOp, Ops
      <3>3. QED
        BY <3>1, <3>2
    <2>2. CASE \E e \in Ends : \E n \in 1 .. ReceiveBudget[e] : op = ReceiveOp(e, n)
      <3>1. PICK e \in Ends, n \in Nat : n >= 1 /\ n <= ReceiveBudget[e] /\ op = ReceiveOp(e, n)
        BY <1>1, <2>2
      <3>2. op.kind = "receive" /\ op.end = e /\ op.n = n /\ op \in Ops
        BY <3>1, OpFields DEF ReceiveOp, Ops
      <3>3. QED
        BY <3>1, <3>2
    <2>3. QED
      BY <2>1, <2>2 DEF Issuable
  <1>3. ASSUME NEW e \in Ends, NEW n \in Nat, 1 <= n, n <= SendBudget[e]
        PROVE  SendOp(e, n) \in Issuable
    BY <1>1, <1>3 DEF Issuable
  <1>4. ASSUME NEW e \in Ends, NEW n \in Nat, 1 <= n, n <= ReceiveBudget[e]
        PROVE  ReceiveOp(e, n) \in Issuable
    BY <1>1, <1>4 DEF Issuable
  <1>5. QED
    BY <1>2, <1>3, <1>4

\* The completions of short lists.
LEMMA EntriesOf ==
    /\ Entries(<<>>) = {}
    /\ \A x : Entries(<<x>>) = {x}
    /\ \A x, y : Entries(<<x, y>>) = {x, y}
  <1>1. ASSUME NEW x PROVE Entries(<<x>>) = {x}
    BY DEF Entries
  <1>2. ASSUME NEW x, NEW y PROVE Entries(<<x, y>>) = {x, y}
    <2>1. Len(<<x, y>>) = 2 /\ <<x, y>>[1] = x /\ <<x, y>>[2] = y
      OBVIOUS
    <2>2. 1 .. 2 = {1, 2}
      OBVIOUS
    <2>3. QED
      BY <2>1, <2>2 DEF Entries
  <1>3. QED
    BY <1>1, <1>2 DEF Entries

\* The fields of a completion.
LEMMA CompletionFields ==
    /\ \A op, out : Completion(op, out).op = op /\ Completion(op, out).out = out
    /\ \A x \in Completions : x = Completion(x.op, x.out) /\ x.op \in Ops /\ x.out \in Outcomes
  BY DEF Completion, Completions

\* No list holds two completions of one operation.
OncePerOp(todo) ==
    \A i, j \in 1 .. Len(todo) : todo[i].op = todo[j].op => i = j

\* A thread takes on a list: it is added to what is promised, and nothing is
\* promised twice when the operations on the list were not owed before.
LEMMA DebtAdded ==
    ASSUME DebtInv, owed \in SUBSET Debts, NEW b, NEW todo,
           owed' = owed \cup {[locked |-> b, todo |-> todo]}
    PROVE  /\ Promised' = Promised \cup Entries(todo)
           /\ /\ OncePerOp(todo)
              /\ \A x \in Entries(todo) : x.op \in Issuable /\ ~Owing(x.op)
              => DebtInv'
  <1> DEFINE d == [locked |-> b, todo |-> todo]
  <1>1. Promised' = Promised \cup Entries(todo)
    <2>1. Promised' = UNION {Entries(c.todo) : c \in owed'}
      BY DEF Promised, Entries
    <2>2. d.todo = todo
      OBVIOUS
    <2> HIDE DEF d
    <2>3. QED
      BY <2>1, <2>2 DEF Promised, d
  <1>2. ASSUME OncePerOp(todo),
               \A x \in Entries(todo) : x.op \in Issuable /\ ~Owing(x.op)
        PROVE  DebtInv'
    <2>1. d.todo = todo
      OBVIOUS
    <2> HIDE DEF d
    <2>2. \A x \in Promised' : x.op \in Issuable
      BY <1>1, <1>2 DEF DebtInv
    <2>3. ASSUME NEW c \in owed, NEW i \in 1 .. Len(c.todo), NEW j \in 1 .. Len(todo)
          PROVE  c.todo[i].op # todo[j].op
      <3>1. c.todo[i] \in Promised /\ todo[j] \in Entries(todo)
        BY DEF Promised, Entries
      <3>2. QED
        BY <1>2, <3>1 DEF Owing
    <2>4. ASSUME NEW c \in owed', NEW f \in owed', NEW i \in 1 .. Len(c.todo),
                 NEW j \in 1 .. Len(f.todo), c.todo[i].op = f.todo[j].op
          PROVE  c = f /\ i = j
      <3>1. CASE c \in owed /\ f \in owed
        BY <2>4, <3>1 DEF DebtInv
      <3>2. CASE c = d /\ f \in owed
        BY <2>1, <2>3, <2>4, <3>2
      <3>3. CASE c \in owed /\ f = d
        BY <2>1, <2>3, <2>4, <3>3
      <3>4. CASE c = d /\ f = d
        BY <1>2, <2>1, <2>4, <3>4 DEF OncePerOp
      <3>5. QED
        BY <3>1, <3>2, <3>3, <3>4 DEF d
    <2>5. QED
      BY <2>2, <2>4 DEF DebtInv
  <1>3. QED
    BY <1>1, <1>2

\* A thread's list without its first completion.
Shortened(c) ==
    IF Len(c.todo) = 1 THEN {} ELSE {[locked |-> c.locked, todo |-> Tail(c.todo)]}

\* A thread runs the first completion on its list: only that one is no
\* longer owed, and the rest of the list is.
LEMMA DebtPaid ==
    ASSUME DebtInv, owed \in SUBSET Debts, NEW c \in owed,
           owed' = (owed \ {c}) \cup Shortened(c)
    PROVE  /\ DebtInv'
           /\ Head(c.todo) \in Promised /\ Head(c.todo) \in Completions
           /\ Promised' = Promised \ {Head(c.todo)}
           /\ \A x \in Promised' : x.op # Head(c.todo).op
  <1> DEFINE d == [locked |-> c.locked, todo |-> Tail(c.todo)]
             h == Head(c.todo)
  <1>1. c.todo \in Seq(Completions) /\ c.todo # <<>>
    BY DEF Debts
  <1>2. /\ Len(c.todo) \in Nat /\ Len(c.todo) >= 1 /\ h = c.todo[1]
        /\ Tail(c.todo) \in Seq(Completions) /\ Len(Tail(c.todo)) = Len(c.todo) - 1
        /\ \A i \in 1 .. Len(Tail(c.todo)) : Tail(c.todo)[i] = c.todo[i + 1]
    BY <1>1, EmptySeq, HeadTailProperties
  <1>n. Len(c.todo) = 1 \/ Len(c.todo) > 1
    <2>1. PICK n \in Nat : n = Len(c.todo) /\ n >= 1
      BY <1>2
    <2>2. n >= 1
      BY <2>1, Zenon
    <2>3. n = 1 \/ n > 1
      BY <2>2
    <2>4. QED
      BY <2>1, <2>3, Zenon
  <1>3. d.todo = Tail(c.todo)
    OBVIOUS
  <1>4. h \in Promised /\ h \in Completions
    BY <1>1, <1>2 DEF Promised, Entries
  <1>5. Shortened(c) = IF Len(c.todo) = 1 THEN {} ELSE {d}
    BY DEF Shortened
  <1> HIDE DEF d, h
  <1>6. /\ \A f \in owed' : \/ f \in owed /\ f # c
                            \/ f = d /\ Len(c.todo) > 1
        /\ Len(c.todo) > 1 => d \in owed'
        /\ \A f \in owed : f # c => f \in owed'
    <2>1. CASE Len(c.todo) = 1
      BY <1>5, <2>1
    <2>2. CASE ~(Len(c.todo) = 1)
      <3>1. owed' = (owed \ {c}) \cup {d}
        BY <1>5, <2>2, Zenon
      <3>2. Len(c.todo) > 1
        BY <1>n, <2>2
      <3>3. QED
        BY <3>1, <3>2, Zenon
    <2>3. QED
      BY <2>1, <2>2
  <1>7. \A i \in 1 .. Len(d.todo) :
            /\ i + 1 \in 1 .. Len(c.todo) /\ i + 1 # 1 /\ 1 \in 1 .. Len(c.todo)
            /\ d.todo[i] = c.todo[i + 1]
    BY <1>2, <1>3
  <1>8. \A i, j \in 1 .. Len(c.todo) : c.todo[i].op = c.todo[j].op => i = j
    BY DEF DebtInv
  <1>9. \A f \in owed : f # c => \A i \in 1 .. Len(c.todo), j \in 1 .. Len(f.todo) : c.todo[i].op # f.todo[j].op
    BY DEF DebtInv
  <1>10. Promised' = UNION {Entries(f.todo) : f \in owed'}
    BY DEF Promised, Entries
  <1>11. ASSUME NEW x \in Promised' PROVE x \in Promised /\ x.op # h.op
    <2>1. PICK f \in owed' : x \in Entries(f.todo)
      BY <1>10
    <2>2. PICK i \in 1 .. Len(f.todo) : x = f.todo[i]
      BY <2>1 DEF Entries
    <2>3. CASE f \in owed /\ f # c
      <3>1. x \in Promised
        BY <2>1, <2>3 DEF Promised
      <3>2. QED
        BY <1>2, <1>9, <2>2, <2>3, <3>1
    <2>4. CASE f = d /\ Len(c.todo) > 1
      <3>1. i + 1 \in 1 .. Len(c.todo) /\ x = c.todo[i + 1] /\ i + 1 # 1
        BY <1>7, <2>2, <2>4
      <3>2. x \in Promised
        BY <3>1 DEF Promised, Entries
      <3>3. QED
        BY <1>2, <1>8, <3>1, <3>2
    <2>5. QED
      BY <1>6, <2>3, <2>4
  <1>12. ASSUME NEW x \in Promised, x # h PROVE x \in Promised'
    <2>1. PICK f \in owed : x \in Entries(f.todo)
      BY DEF Promised
    <2>2. PICK i \in 1 .. Len(f.todo) : x = f.todo[i]
      BY <2>1 DEF Entries
    <2>3. CASE f # c
      BY <1>6, <1>10, <2>1, <2>3
    <2>4. CASE f = c
      <3>1. i \in Nat /\ i > 1 /\ Len(c.todo) > 1
        BY <1>2, <1>12, <2>2, <2>4
      <3>2. i - 1 \in 1 .. Len(Tail(c.todo)) /\ x = Tail(c.todo)[i - 1]
        BY <1>2, <2>2, <2>4, <3>1
      <3>3. x \in Entries(d.todo)
        BY <1>3, <3>2 DEF Entries
      <3>4. QED
        BY <1>6, <1>10, <3>1, <3>3
    <2>5. QED
      BY <2>3, <2>4
  <1>13. ASSUME NEW f \in owed', NEW g \in owed', NEW i \in 1 .. Len(f.todo),
                NEW j \in 1 .. Len(g.todo), f.todo[i].op = g.todo[j].op
         PROVE  f = g /\ i = j
    <2>1. CASE f \in owed /\ g \in owed
      BY <1>13, <2>1 DEF DebtInv
    <2>2. CASE f = d /\ g \in owed /\ g # c
      BY <1>7, <1>9, <1>13, <2>2
    <2>3. CASE g = d /\ f \in owed /\ f # c
      BY <1>7, <1>9, <1>13, <2>3
    <2>4. CASE f = d /\ g = d
      <3>1. /\ i + 1 \in 1 .. Len(c.todo) /\ j + 1 \in 1 .. Len(c.todo)
            /\ f.todo[i] = c.todo[i + 1] /\ g.todo[j] = c.todo[j + 1]
        BY <1>7, <2>4
      <3>2. i + 1 = j + 1
        BY <1>8, <1>13, <3>1
      <3>3. QED
        BY <2>4, <3>2
    <2>5. QED
      BY <1>6, <2>1, <2>2, <2>3, <2>4
  <1>14. DebtInv'
    BY <1>11, <1>13 DEF DebtInv
  <1>15. Promised' = Promised \ {h}
    BY <1>11, <1>12
  <1>16. QED
    BY <1>4, <1>11, <1>14, <1>15 DEF h

\* An operation that is owed is owed in one place.
LEMMA OwedOnce ==
    ASSUME TypeOK, DebtInv, NEW op
    PROVE  Cardinality(OwedPlaces(op)) = IF Owing(op) THEN 1 ELSE 0
  <1>1. \A c \in owed : DOMAIN c.todo = 1 .. Len(c.todo)
    BY DEF TypeOK
  <1>2. \A p : p \in OwedPlaces(op) <=>
           \E c \in owed : \E i \in 1 .. Len(c.todo) : p = <<c, i>> /\ c.todo[i].op = op
    BY <1>1 DEF OwedPlaces
  <1>3. Owing(op) <=> \E c \in owed : \E i \in 1 .. Len(c.todo) : c.todo[i].op = op
    BY DEF Owing, Promised, Entries
  <1>4. CASE ~Owing(op)
    <2>1. OwedPlaces(op) = {}
      BY <1>2, <1>3, <1>4
    <2>2. QED
      BY <1>4, <2>1, FS_EmptySet
  <1>5. CASE Owing(op)
    <2>1. PICK c \in owed : \E i \in 1 .. Len(c.todo) : c.todo[i].op = op
      BY <1>3, <1>5
    <2>2. PICK i \in 1 .. Len(c.todo) : c.todo[i].op = op
      BY <2>1
    <2>3. \A d \in owed : \A j \in 1 .. Len(d.todo) : d.todo[j].op = op => d = c /\ j = i
      BY <2>2 DEF DebtInv
    <2>4. OwedPlaces(op) = {<<c, i>>}
      BY <1>2, <2>2, <2>3
    <2>5. QED
      BY <1>5, <2>4, FS_Singleton
  <1>6. QED
    BY <1>4, <1>5

-----------------------------------------------------------------------------
\* What an operation has been told is what its log and the debts say.
ToldByLogOrDebt ==
    \A op \in Issuable : \A out \in Outcomes :
        Told(op, out) <=> \/ \E i \in 1 .. Len(log[op]) : log[op][i] = out
                          \/ \E x \in Promised : x.op = op /\ x.out = out

\* What an operation was told is in its log or in somebody's debt.
LEMMA ToldMeans == TypeOK => ToldByLogOrDebt
  <1> SUFFICES ASSUME TypeOK, NEW op \in Issuable, NEW out \in Outcomes
               PROVE  Told(op, out) <=> \/ \E i \in 1 .. Len(log[op]) : log[op][i] = out
                                        \/ \E x \in Promised : x.op = op /\ x.out = out
    BY DEF ToldByLogOrDebt
  <1>1. DOMAIN log[op] = 1 .. Len(log[op])
    BY DEF TypeOK
  <1>2. \A c \in owed : DOMAIN c.todo = 1 .. Len(c.todo)
    BY DEF TypeOK
  <1>3. \A p : p \in OwedPlaces(op) <=>
           \E c \in owed : \E i \in 1 .. Len(c.todo) : p = <<c, i>> /\ c.todo[i].op = op
    BY <1>2 DEF OwedPlaces
  <1>4. (\E p \in OwedPlaces(op) : p[1].todo[p[2]].out = out)
          <=> \E c \in owed : \E i \in 1 .. Len(c.todo) : c.todo[i].op = op /\ c.todo[i].out = out
    <2>1. ASSUME NEW p \in OwedPlaces(op), p[1].todo[p[2]].out = out
          PROVE  \E c \in owed : \E i \in 1 .. Len(c.todo) : c.todo[i].op = op /\ c.todo[i].out = out
      BY <1>3, <2>1
    <2>2. ASSUME NEW c \in owed, NEW i \in 1 .. Len(c.todo), c.todo[i].op = op, c.todo[i].out = out
          PROVE  \E p \in OwedPlaces(op) : p[1].todo[p[2]].out = out
      <3>1. <<c, i>> \in OwedPlaces(op) /\ <<c, i>>[1] = c /\ <<c, i>>[2] = i
        BY <1>3, <2>2
      <3>2. QED
        BY <2>2, <3>1
    <2>3. QED
      BY <2>1, <2>2
  <1>5. (\E x \in Promised : x.op = op /\ x.out = out)
          <=> \E c \in owed : \E i \in 1 .. Len(c.todo) : c.todo[i].op = op /\ c.todo[i].out = out
    BY DEF Promised, Entries
  <1>6. QED
    BY <1>1, <1>4, <1>5 DEF Told, Given

\* The outcomes a step gives.
NewlyTold(N) ==
    \A op \in Issuable : \A out \in Outcomes :
        Told(op, out)' <=> Told(op, out) \/ Completion(op, out) \in N

\* Reporting an outcome tells that one.
LEMMA ReportTold ==
    ASSUME TypeOK, TypeOK', NEW op \in Issuable, NEW out \in Outcomes, Report(op, out),
           UNCHANGED owed
    PROVE  /\ NewlyTold({Completion(op, out)})
           /\ Promised' = Promised
           /\ \A x \in Issuable : Len(log'[x]) = IF x = op THEN Len(log[x]) + 1 ELSE Len(log[x])
  <1>t. ToldByLogOrDebt /\ ToldByLogOrDebt'
    BY ToldMeans, PTL
  <1>1. log \in [Issuable -> Seq(Outcomes)]
    BY DEF TypeOK
  <1>2. \A x \in Issuable : log'[x] = IF x = op THEN Append(log[x], out) ELSE log[x]
    BY <1>1 DEF Report
  <1>3. Promised' = Promised
    BY DEF Promised, Entries
  <1>4. ASSUME NEW x \in Issuable, NEW y \in Outcomes
        PROVE  Told(x, y)' <=> Told(x, y) \/ Completion(x, y) \in {Completion(op, out)}
    <2>1. Told(x, y) <=> \/ \E i \in 1 .. Len(log[x]) : log[x][i] = y
                         \/ \E z \in Promised : z.op = x /\ z.out = y
      BY <1>t DEF ToldByLogOrDebt
    <2>2. Told(x, y)' <=> \/ \E i \in 1 .. Len(log'[x]) : log'[x][i] = y
                          \/ \E z \in Promised' : z.op = x /\ z.out = y
      BY <1>t DEF ToldByLogOrDebt
    <2>3. Completion(x, y) \in {Completion(op, out)} <=> x = op /\ y = out
      BY CompletionFields
    <2>4. log[x] \in Seq(Outcomes)
      BY <1>1
    <2>5. (\E i \in 1 .. Len(log'[x]) : log'[x][i] = y)
             <=> (\E i \in 1 .. Len(log[x]) : log[x][i] = y) \/ (x = op /\ y = out)
      <3>1. CASE x # op
        BY <1>2, <3>1
      <3>2. CASE x = op
        <4>1. log'[x] = Append(log[x], out)
          BY <1>2, <3>2
        <4>2. /\ Len(log'[x]) = Len(log[x]) + 1 /\ Len(log[x]) \in Nat
              /\ log'[x][Len(log[x]) + 1] = out
              /\ \A i \in 1 .. Len(log[x]) : log'[x][i] = log[x][i]
          BY <2>4, <4>1
        <4>3. PICK m \in Nat : m = Len(log[x])
          BY <4>2
        <4>4. ASSUME NEW i \in 1 .. m + 1, log'[x][i] = y
              PROVE  (\E k \in 1 .. m : log[x][k] = y) \/ y = out
          <5>1. i \in 1 .. m \/ i = m + 1
            OBVIOUS
          <5>2. CASE i \in 1 .. m
            BY <4>2, <4>3, <4>4, <5>2, Zenon
          <5>3. CASE i = m + 1
            BY <4>2, <4>3, <4>4, <5>3, Zenon
          <5>4. QED
            BY <5>1, <5>2, <5>3
        <4>5. ASSUME NEW i \in 1 .. m, log[x][i] = y
              PROVE  i \in 1 .. m + 1 /\ log'[x][i] = y
          BY <4>2, <4>3, <4>5
        <4>6. m + 1 \in 1 .. m + 1
          OBVIOUS
        <4>7. QED
          BY <3>2, <4>2, <4>3, <4>4, <4>5, <4>6, Zenon
      <3>3. QED
        BY <3>1, <3>2
    <2>6. QED
      BY <1>3, <2>1, <2>2, <2>3, <2>5
  <1>5. NewlyTold({Completion(op, out)})
    BY <1>4, Zenon DEF NewlyTold
  <1>6. \A x \in Issuable : Len(log'[x]) = IF x = op THEN Len(log[x]) + 1 ELSE Len(log[x])
    <2>1. SUFFICES ASSUME NEW x \in Issuable
                   PROVE  Len(log'[x]) = IF x = op THEN Len(log[x]) + 1 ELSE Len(log[x])
      OBVIOUS
    <2>2. CASE x = op
      <3>1. log'[x] = Append(log[x], out) /\ log[x] \in Seq(Outcomes)
        BY <1>1, <1>2, <2>2
      <3>2. QED
        BY <2>2, <3>1
    <2>3. CASE x # op
      BY <1>2, <2>3
    <2>4. QED
      BY <2>2, <2>3
  <1>7. QED
    BY <1>3, <1>5, <1>6, Zenon

\* Taking on a list tells everything on it.
LEMMA OweTold ==
    ASSUME TypeOK, TypeOK', NEW N \in SUBSET Completions, Promised' = Promised \cup N,
           UNCHANGED log
    PROVE  NewlyTold(N)
  <1>t. ToldByLogOrDebt /\ ToldByLogOrDebt'
    BY ToldMeans, PTL
  <1>1. ASSUME NEW x \in Issuable, NEW y \in Outcomes
        PROVE  Told(x, y)' <=> Told(x, y) \/ Completion(x, y) \in N
    <2>1. Told(x, y) <=> \/ \E i \in 1 .. Len(log[x]) : log[x][i] = y
                         \/ \E z \in Promised : z.op = x /\ z.out = y
      BY <1>t DEF ToldByLogOrDebt
    <2>2. Told(x, y)' <=> \/ \E i \in 1 .. Len(log'[x]) : log'[x][i] = y
                          \/ \E z \in Promised' : z.op = x /\ z.out = y
      BY <1>t DEF ToldByLogOrDebt
    <2>3. Completion(x, y) \in N <=> \E z \in N : z.op = x /\ z.out = y
      BY CompletionFields
    <2>4. QED
      BY <2>1, <2>2, <2>3
  <1>2. QED
    BY <1>1 DEF NewlyTold

-----------------------------------------------------------------------------
\* The issued and the waiting operations, by kind.
StartedSends == {op \in Issuable : op.kind = "send" /\ Started(op)}
WaitingSends == {op \in Issuable : op.kind = "send" /\ Waiting(op)}
StartedReceives == {op \in Issuable : op.kind = "receive" /\ Started(op)}
WaitingReceives == {op \in Issuable : op.kind = "receive" /\ Waiting(op)}

\* A step issues the sends S, the sends WM stop waiting and the sends WP
\* begin to; the same for receives.
SendMove(S, WM, WP) ==
    /\ SendWaitInv'
    /\ StartedSends' = StartedSends \cup S /\ S \cap StartedSends = {}
    /\ WaitingSends' = (WaitingSends \ WM) \cup WP /\ WM \subseteq WaitingSends
ReceiveMove(S, WM, WP) ==
    /\ ReceiveWaitInv'
    /\ StartedReceives' = StartedReceives \cup S /\ S \cap StartedReceives = {}
    /\ WaitingReceives' = (WaitingReceives \ WM) \cup WP /\ WM \subseteq WaitingReceives

\* Operations differ when their kinds, ends or numbers do.
LEMMA OpEqual ==
    \A e, n, f, k :
        /\ SendOp(e, n) = SendOp(f, k) <=> e = f /\ n = k
        /\ ReceiveOp(e, n) = ReceiveOp(f, k) <=> e = f /\ n = k
        /\ SendOp(e, n) # ReceiveOp(f, k)
  BY OpFields

\* The sends of an end, as numbers.
SendWaits(e, n) == pending_send[e] = n \/ n \in blocked_senders[e]
SendsSeen ==
    /\ \A op : op \in StartedSends <=>
         \E e \in Ends : \E n \in Nat : op = SendOp(e, n) /\ 1 <= n /\ n <= sends[e]
    /\ \A op : op \in WaitingSends <=>
         \E e \in Ends : \E n \in Nat : op = SendOp(e, n) /\ 1 <= n /\ SendWaits(e, n)

\* Which sends are started and which wait, read off the numbers.
LEMMA SendView == TypeOK /\ SendWaitInv => SendsSeen
  <1> SUFFICES ASSUME TypeOK, SendWaitInv PROVE SendsSeen
    OBVIOUS
  <1>1. ASSUME NEW op, op \in StartedSends \/ op \in WaitingSends
        PROVE  op.end \in Ends /\ op.n \in Nat /\ op = SendOp(op.end, op.n) /\ 1 <= op.n
    BY <1>1, IssuableOps DEF StartedSends, WaitingSends
  <1>2. ASSUME NEW e \in Ends, NEW n \in Nat, 1 <= n, n <= SendBudget[e]
        PROVE  SendOp(e, n) \in Issuable /\ SendOp(e, n).kind = "send"
    BY <1>2, IssuableOps, OpFields
  <1>3. ASSUME NEW e \in Ends
        PROVE  /\ sends[e] \in Nat /\ pending_send[e] \in Nat /\ SendBudget[e] \in Nat
               /\ blocked_senders[e] \subseteq Nat
    BY BudgetAssumption DEF TypeOK
  <1>4. ASSUME NEW e \in Ends, NEW n \in Nat
        PROVE  /\ Started(SendOp(e, n)) <=> n <= sends[e]
               /\ Waiting(SendOp(e, n)) <=> SendWaits(e, n)
    BY OpFields DEF Started, Waiting, SendWaits
  <1>5. ASSUME NEW op
        PROVE  op \in StartedSends <=>
                \E e \in Ends : \E n \in Nat : op = SendOp(e, n) /\ 1 <= n /\ n <= sends[e]
    <2>1. ASSUME op \in StartedSends
          PROVE  \E e \in Ends : \E n \in Nat : op = SendOp(e, n) /\ 1 <= n /\ n <= sends[e]
      <3>1. op.end \in Ends /\ op.n \in Nat /\ op = SendOp(op.end, op.n) /\ 1 <= op.n
        BY <1>1, <2>1
      <3>2. Started(SendOp(op.end, op.n))
        BY <2>1, <3>1 DEF StartedSends
      <3>3. op.n <= sends[op.end]
        BY <1>4, <3>1, <3>2
      <3>4. QED
        BY <3>1, <3>3
    <2>2. ASSUME NEW e \in Ends, NEW n \in Nat, op = SendOp(e, n), 1 <= n, n <= sends[e]
          PROVE  op \in StartedSends
      <3>1. n <= SendBudget[e]
        BY <1>3, <2>2 DEF SendWaitInv
      <3>2. QED
        BY <1>2, <1>4, <2>2, <3>1 DEF StartedSends
    <2>3. QED
      BY <2>1, <2>2
  <1>6. ASSUME NEW op
        PROVE  op \in WaitingSends <=>
                \E e \in Ends : \E n \in Nat : op = SendOp(e, n) /\ 1 <= n /\ SendWaits(e, n)
    <2>1. ASSUME op \in WaitingSends
          PROVE  \E e \in Ends : \E n \in Nat : op = SendOp(e, n) /\ 1 <= n /\ SendWaits(e, n)
      <3>1. op.end \in Ends /\ op.n \in Nat /\ op = SendOp(op.end, op.n) /\ 1 <= op.n
        BY <1>1, <2>1
      <3>2. Waiting(SendOp(op.end, op.n))
        BY <2>1, <3>1 DEF WaitingSends
      <3>3. SendWaits(op.end, op.n)
        BY <1>4, <3>1, <3>2
      <3>4. QED
        BY <3>1, <3>3
    <2>2. ASSUME NEW e \in Ends, NEW n \in Nat, op = SendOp(e, n), 1 <= n, SendWaits(e, n)
          PROVE  op \in WaitingSends
      <3>1. n <= sends[e] /\ sends[e] <= SendBudget[e]
        BY <2>2 DEF SendWaitInv, SendWaits
      <3>2. n <= SendBudget[e]
        BY <1>3, <3>1
      <3>3. QED
        BY <1>2, <1>4, <2>2, <3>2 DEF WaitingSends
    <2>3. QED
      BY <2>1, <2>2
  <1>7. QED
    BY <1>5, <1>6 DEF SendsSeen

\* How the numbers of an end move is how its operations do.
LEMMA SendMoves ==
    ASSUME TypeOK, TypeOK', SendWaitInv, SendWaitInv', NEW S, NEW WM, NEW WP,
           \A x \in S \cup WM \cup WP : \E e \in Ends : \E n \in Nat : x = SendOp(e, n) /\ 1 <= n,
           \A e \in Ends : \A n \in Nat :
               1 <= n => /\ n <= sends'[e] <=> n <= sends[e] \/ SendOp(e, n) \in S
                         /\ SendOp(e, n) \in S => ~(n <= sends[e])
                         /\ SendWaits(e, n)' <=>
                              (SendWaits(e, n) /\ SendOp(e, n) \notin WM) \/ SendOp(e, n) \in WP
                         /\ SendOp(e, n) \in WM => SendWaits(e, n)
    PROVE  SendMove(S, WM, WP)
  <1>1. SendsSeen /\ SendsSeen'
    BY SendView, PTL
  <1>2. \A op : op \in StartedSends' <=>
          \E e \in Ends : \E n \in Nat : op = SendOp(e, n) /\ 1 <= n /\ n <= sends'[e]
    BY <1>1 DEF SendsSeen
  <1>3. \A op : op \in WaitingSends' <=>
          \E e \in Ends : \E n \in Nat : op = SendOp(e, n) /\ 1 <= n /\ SendWaits(e, n)'
    BY <1>1, Zenon DEF SendsSeen
  <1>4. ASSUME NEW op PROVE op \in StartedSends' <=> op \in StartedSends \/ op \in S
    <2>1. CASE \E e \in Ends : \E n \in Nat : op = SendOp(e, n) /\ 1 <= n
      <3>1. PICK e \in Ends, n \in Nat : op = SendOp(e, n) /\ 1 <= n
        BY <2>1
      <3>2. op \in StartedSends <=> n <= sends[e]
        BY <1>1, <3>1, OpEqual DEF SendsSeen
      <3>3. op \in StartedSends' <=> n <= sends'[e]
        BY <1>2, <3>1, OpEqual
      <3>4. QED
        BY <3>1, <3>2, <3>3
    <2>2. CASE ~(\E e \in Ends : \E n \in Nat : op = SendOp(e, n) /\ 1 <= n)
      BY <1>1, <1>2, <2>2, Zenon DEF SendsSeen
    <2>3. QED
      BY <2>1, <2>2
  <1>5. ASSUME NEW op \in S PROVE op \notin StartedSends
    <2>1. PICK e \in Ends, n \in Nat : op = SendOp(e, n) /\ 1 <= n
      OBVIOUS
    <2>2. op \in StartedSends <=> n <= sends[e]
      BY <1>1, <2>1, OpEqual DEF SendsSeen
    <2>3. QED
      BY <2>1, <2>2
  <1>6. ASSUME NEW op
        PROVE  op \in WaitingSends' <=> (op \in WaitingSends /\ op \notin WM) \/ op \in WP
    <2>1. CASE \E e \in Ends : \E n \in Nat : op = SendOp(e, n) /\ 1 <= n
      <3>1. PICK e \in Ends, n \in Nat : op = SendOp(e, n) /\ 1 <= n
        BY <2>1
      <3>2. op \in WaitingSends <=> SendWaits(e, n)
        BY <1>1, <3>1, OpEqual DEF SendsSeen
      <3>3. op \in WaitingSends' <=> SendWaits(e, n)'
        BY <1>3, <3>1, OpEqual
      <3>4. SendWaits(e, n)' <=> (SendWaits(e, n) /\ op \notin WM) \/ op \in WP
        BY <3>1
      <3>5. QED
        BY <3>2, <3>3, <3>4
    <2>2. CASE ~(\E e \in Ends : \E n \in Nat : op = SendOp(e, n) /\ 1 <= n)
      BY <1>1, <1>3, <2>2, Zenon DEF SendsSeen
    <2>3. QED
      BY <2>1, <2>2
  <1>7. ASSUME NEW op \in WM PROVE op \in WaitingSends
    <2>1. PICK e \in Ends, n \in Nat : op = SendOp(e, n) /\ 1 <= n
      OBVIOUS
    <2>2. op \in WaitingSends <=> SendWaits(e, n)
      BY <1>1, <2>1, OpEqual DEF SendsSeen
    <2>3. QED
      BY <2>1, <2>2
  <1>8. QED
    BY <1>4, <1>5, <1>6, <1>7 DEF SendMove

\* The receives of an end, as numbers.
ReceiveWaits(e, n) == pending_receive[e] = n \/ \E r \in blocked_receivers[e] : r.n = n
ReceivesSeen ==
    /\ \A op : op \in StartedReceives <=>
         \E e \in Ends : \E n \in Nat : op = ReceiveOp(e, n) /\ 1 <= n /\ n <= receives[e]
    /\ \A op : op \in WaitingReceives <=>
         \E e \in Ends : \E n \in Nat : op = ReceiveOp(e, n) /\ 1 <= n /\ ReceiveWaits(e, n)

\* Which receives are started and which wait, read off the numbers.
LEMMA ReceiveView == TypeOK /\ ReceiveWaitInv => ReceivesSeen
  <1> SUFFICES ASSUME TypeOK, ReceiveWaitInv PROVE ReceivesSeen
    OBVIOUS
  <1>1. ASSUME NEW op, op \in StartedReceives \/ op \in WaitingReceives
        PROVE  op.end \in Ends /\ op.n \in Nat /\ op = ReceiveOp(op.end, op.n) /\ 1 <= op.n
    BY <1>1, IssuableOps DEF StartedReceives, WaitingReceives
  <1>2. ASSUME NEW e \in Ends, NEW n \in Nat, 1 <= n, n <= ReceiveBudget[e]
        PROVE  ReceiveOp(e, n) \in Issuable /\ ReceiveOp(e, n).kind = "receive"
    BY <1>2, IssuableOps, OpFields
  <1>3. ASSUME NEW e \in Ends
        PROVE  /\ receives[e] \in Nat /\ pending_receive[e] \in Nat /\ ReceiveBudget[e] \in Nat
               /\ \A r \in blocked_receivers[e] : r.n \in Nat
    BY BudgetAssumption DEF TypeOK
  <1>4. ASSUME NEW e \in Ends, NEW n \in Nat
        PROVE  /\ Started(ReceiveOp(e, n)) <=> n <= receives[e]
               /\ Waiting(ReceiveOp(e, n)) <=> ReceiveWaits(e, n)
    BY OpFields DEF Started, Waiting, ReceiveWaits
  <1>5. ASSUME NEW op
        PROVE  op \in StartedReceives <=>
                \E e \in Ends : \E n \in Nat : op = ReceiveOp(e, n) /\ 1 <= n /\ n <= receives[e]
    <2>1. ASSUME op \in StartedReceives
          PROVE  \E e \in Ends : \E n \in Nat : op = ReceiveOp(e, n) /\ 1 <= n /\ n <= receives[e]
      <3>1. op.end \in Ends /\ op.n \in Nat /\ op = ReceiveOp(op.end, op.n) /\ 1 <= op.n
        BY <1>1, <2>1
      <3>2. Started(ReceiveOp(op.end, op.n))
        BY <2>1, <3>1 DEF StartedReceives
      <3>3. op.n <= receives[op.end]
        BY <1>4, <3>1, <3>2
      <3>4. QED
        BY <3>1, <3>3
    <2>2. ASSUME NEW e \in Ends, NEW n \in Nat, op = ReceiveOp(e, n), 1 <= n, n <= receives[e]
          PROVE  op \in StartedReceives
      <3>1. n <= ReceiveBudget[e]
        BY <1>3, <2>2 DEF ReceiveWaitInv
      <3>2. QED
        BY <1>2, <1>4, <2>2, <3>1 DEF StartedReceives
    <2>3. QED
      BY <2>1, <2>2
  <1>6. ASSUME NEW op
        PROVE  op \in WaitingReceives <=>
                \E e \in Ends : \E n \in Nat : op = ReceiveOp(e, n) /\ 1 <= n /\ ReceiveWaits(e, n)
    <2>1. ASSUME op \in WaitingReceives
          PROVE  \E e \in Ends : \E n \in Nat : op = ReceiveOp(e, n) /\ 1 <= n /\ ReceiveWaits(e, n)
      <3>1. op.end \in Ends /\ op.n \in Nat /\ op = ReceiveOp(op.end, op.n) /\ 1 <= op.n
        BY <1>1, <2>1
      <3>2. Waiting(ReceiveOp(op.end, op.n))
        BY <2>1, <3>1 DEF WaitingReceives
      <3>3. ReceiveWaits(op.end, op.n)
        BY <1>4, <3>1, <3>2
      <3>4. QED
        BY <3>1, <3>3
    <2>2. ASSUME NEW e \in Ends, NEW n \in Nat, op = ReceiveOp(e, n), 1 <= n, ReceiveWaits(e, n)
          PROVE  op \in WaitingReceives
      <3>1. n <= receives[e] /\ receives[e] <= ReceiveBudget[e]
        BY <2>2 DEF ReceiveWaitInv, ReceiveWaits
      <3>2. n <= ReceiveBudget[e]
        BY <1>3, <3>1
      <3>3. QED
        BY <1>2, <1>4, <2>2, <3>2 DEF WaitingReceives
    <2>3. QED
      BY <2>1, <2>2
  <1>7. QED
    BY <1>5, <1>6 DEF ReceivesSeen

\* How the numbers of an end move is how its operations do.
LEMMA ReceiveMoves ==
    ASSUME TypeOK, TypeOK', ReceiveWaitInv, ReceiveWaitInv', NEW S, NEW WM, NEW WP,
           \A x \in S \cup WM \cup WP : \E e \in Ends : \E n \in Nat : x = ReceiveOp(e, n) /\ 1 <= n,
           \A e \in Ends : \A n \in Nat :
               1 <= n => /\ n <= receives'[e] <=> n <= receives[e] \/ ReceiveOp(e, n) \in S
                         /\ ReceiveOp(e, n) \in S => ~(n <= receives[e])
                         /\ ReceiveWaits(e, n)' <=>
                              (ReceiveWaits(e, n) /\ ReceiveOp(e, n) \notin WM) \/ ReceiveOp(e, n) \in WP
                         /\ ReceiveOp(e, n) \in WM => ReceiveWaits(e, n)
    PROVE  ReceiveMove(S, WM, WP)
  <1>1. ReceivesSeen /\ ReceivesSeen'
    BY ReceiveView, PTL
  <1>2. \A op : op \in StartedReceives' <=>
          \E e \in Ends : \E n \in Nat : op = ReceiveOp(e, n) /\ 1 <= n /\ n <= receives'[e]
    BY <1>1 DEF ReceivesSeen
  <1>3. \A op : op \in WaitingReceives' <=>
          \E e \in Ends : \E n \in Nat : op = ReceiveOp(e, n) /\ 1 <= n /\ ReceiveWaits(e, n)'
    BY <1>1, Zenon DEF ReceivesSeen
  <1>4. ASSUME NEW op PROVE op \in StartedReceives' <=> op \in StartedReceives \/ op \in S
    <2>1. CASE \E e \in Ends : \E n \in Nat : op = ReceiveOp(e, n) /\ 1 <= n
      <3>1. PICK e \in Ends, n \in Nat : op = ReceiveOp(e, n) /\ 1 <= n
        BY <2>1
      <3>2. op \in StartedReceives <=> n <= receives[e]
        BY <1>1, <3>1, OpEqual DEF ReceivesSeen
      <3>3. op \in StartedReceives' <=> n <= receives'[e]
        BY <1>2, <3>1, OpEqual
      <3>4. QED
        BY <3>1, <3>2, <3>3
    <2>2. CASE ~(\E e \in Ends : \E n \in Nat : op = ReceiveOp(e, n) /\ 1 <= n)
      BY <1>1, <1>2, <2>2, Zenon DEF ReceivesSeen
    <2>3. QED
      BY <2>1, <2>2
  <1>5. ASSUME NEW op \in S PROVE op \notin StartedReceives
    <2>1. PICK e \in Ends, n \in Nat : op = ReceiveOp(e, n) /\ 1 <= n
      OBVIOUS
    <2>2. op \in StartedReceives <=> n <= receives[e]
      BY <1>1, <2>1, OpEqual DEF ReceivesSeen
    <2>3. QED
      BY <2>1, <2>2
  <1>6. ASSUME NEW op
        PROVE  op \in WaitingReceives' <=> (op \in WaitingReceives /\ op \notin WM) \/ op \in WP
    <2>1. CASE \E e \in Ends : \E n \in Nat : op = ReceiveOp(e, n) /\ 1 <= n
      <3>1. PICK e \in Ends, n \in Nat : op = ReceiveOp(e, n) /\ 1 <= n
        BY <2>1
      <3>2. op \in WaitingReceives <=> ReceiveWaits(e, n)
        BY <1>1, <3>1, OpEqual DEF ReceivesSeen
      <3>3. op \in WaitingReceives' <=> ReceiveWaits(e, n)'
        BY <1>3, <3>1, OpEqual
      <3>4. ReceiveWaits(e, n)' <=> (ReceiveWaits(e, n) /\ op \notin WM) \/ op \in WP
        BY <3>1
      <3>5. QED
        BY <3>2, <3>3, <3>4
    <2>2. CASE ~(\E e \in Ends : \E n \in Nat : op = ReceiveOp(e, n) /\ 1 <= n)
      BY <1>1, <1>3, <2>2, Zenon DEF ReceivesSeen
    <2>3. QED
      BY <2>1, <2>2
  <1>7. ASSUME NEW op \in WM PROVE op \in WaitingReceives
    <2>1. PICK e \in Ends, n \in Nat : op = ReceiveOp(e, n) /\ 1 <= n
      OBVIOUS
    <2>2. op \in WaitingReceives <=> ReceiveWaits(e, n)
      BY <1>1, <2>1, OpEqual DEF ReceivesSeen
    <2>3. QED
      BY <2>1, <2>2
  <1>8. QED
    BY <1>4, <1>5, <1>6, <1>7 DEF ReceiveMove

-----------------------------------------------------------------------------
\* The steps of the sending side: nothing, a call issued and settled at once,
\* issued and blocked, issued and parked, a blocked one released, a parked
\* one taken, and both ends' parked ones taken by a close.
LEMMA SendQuiet ==
    ASSUME TypeOK, TypeOK', SendWaitInv, UNCHANGED <<sends, pending_send, blocked_senders>>
    PROVE  SendMove({}, {}, {})
  <1>1. SendWaitInv'
    BY DEF SendWaitInv
  <1>2. \A e \in Ends : \A n \in Nat : SendWaits(e, n)' <=> SendWaits(e, n)
    BY DEF SendWaits
  <1>3. QED
    BY <1>1, <1>2, SendMoves

\* A call that is issued has the next number, within its budget.
LEMMA SendNumbers ==
    ASSUME TypeOK, SendWaitInv, NEW e \in Ends, IssueSend(e)
    PROVE  /\ \A x \in Ends : /\ sends[x] \in Nat /\ pending_send[x] \in Nat
                              /\ SendBudget[x] \in Nat /\ blocked_senders[x] \subseteq Nat
                              /\ sends'[x] = IF x = e THEN sends[e] + 1 ELSE sends[x]
           /\ sends[e] < SendBudget[e]
           /\ SendOp(e, sends[e] + 1) \in Issuable
  <1>1. \A x \in Ends : /\ sends[x] \in Nat /\ pending_send[x] \in Nat
                        /\ SendBudget[x] \in Nat /\ blocked_senders[x] \subseteq Nat
                        /\ sends'[x] = IF x = e THEN sends[e] + 1 ELSE sends[x]
    BY BudgetAssumption DEF TypeOK, IssueSend
  <1>2. sends[e] < SendBudget[e]
    BY DEF IssueSend
  <1>3. SendOp(e, sends[e] + 1) \in Issuable
    BY <1>1, <1>2, IssuableOps
  <1>4. QED
    BY <1>1, <1>2, <1>3

\* A send is issued and does not wait.
LEMMA SendIssued ==
    ASSUME TypeOK, TypeOK', SendWaitInv, NEW e \in Ends, IssueSend(e),
           UNCHANGED <<pending_send, blocked_senders>>
    PROVE  SendMove({SendOp(e, sends[e] + 1)}, {}, {})
  <1> DEFINE m == sends[e] + 1
  <1>0. /\ \A x \in Ends : /\ sends[x] \in Nat /\ pending_send[x] \in Nat
                           /\ SendBudget[x] \in Nat /\ blocked_senders[x] \subseteq Nat
                           /\ sends'[x] = IF x = e THEN m ELSE sends[x]
        /\ sends[e] < SendBudget[e] /\ m \in Nat /\ 1 <= m
    BY SendNumbers
  <1>1. SendWaitInv'
    BY <1>0 DEF SendWaitInv
  <1>2. \A x \in Ends : \A n \in Nat :
           /\ n <= sends'[x] <=> n <= sends[x] \/ (x = e /\ n = m)
           /\ x = e /\ n = m => ~(n <= sends[x])
    BY <1>0
  <1>3. \A x \in Ends : \A n \in Nat : SendWaits(x, n)' <=> SendWaits(x, n)
    BY DEF SendWaits
  <1>4. \A x \in Ends : \A n \in Nat : SendOp(x, n) \in {SendOp(e, m)} <=> x = e /\ n = m
    BY OpEqual
  <1> HIDE DEF m
  <1>5. SendMove({SendOp(e, m)}, {}, {})
    BY <1>0, <1>1, <1>2, <1>3, <1>4, SendMoves
  <1>6. QED
    BY <1>5 DEF m

\* A send is issued and waits inside Send.
LEMMA SendBlocked ==
    ASSUME TypeOK, TypeOK', SendWaitInv, NEW e \in Ends, IssueSend(e), UNCHANGED pending_send,
           blocked_senders' = [blocked_senders EXCEPT ![e] = @ \cup {sends[e] + 1}]
    PROVE  SendMove({SendOp(e, sends[e] + 1)}, {}, {SendOp(e, sends[e] + 1)})
  <1> DEFINE m == sends[e] + 1
  <1>0. /\ \A x \in Ends : /\ sends[x] \in Nat /\ pending_send[x] \in Nat
                           /\ SendBudget[x] \in Nat /\ blocked_senders[x] \subseteq Nat
                           /\ sends'[x] = IF x = e THEN m ELSE sends[x]
        /\ sends[e] < SendBudget[e] /\ m \in Nat /\ 1 <= m
    BY SendNumbers
  <1>b. \A x \in Ends : \A n : n \in blocked_senders'[x] <=> n \in blocked_senders[x] \/ (x = e /\ n = m)
    BY DEF TypeOK
  <1>1. SendWaitInv'
    <2>1. \A x \in Ends : pending_send'[x] = pending_send[x] /\ pending_send[x] <= sends[x]
      BY DEF SendWaitInv
    <2>2. \A x \in Ends : pending_send'[x] <= sends'[x] /\ sends'[x] <= SendBudget[x]
      BY <1>0, <2>1 DEF SendWaitInv
    <2>3. ASSUME NEW x \in Ends, NEW k \in blocked_senders'[x]
          PROVE  k <= sends'[x] /\ k # pending_send'[x]
      <3>1. CASE k \in blocked_senders[x]
        BY <1>0, <2>1, <3>1 DEF SendWaitInv
      <3>2. CASE x = e /\ k = m
        BY <1>0, <2>1, <3>2
      <3>3. QED
        BY <1>b, <2>3, <3>1, <3>2
    <2>4. QED
      BY <2>2, <2>3 DEF SendWaitInv
  <1>2. \A x \in Ends : \A n \in Nat :
           /\ n <= sends'[x] <=> n <= sends[x] \/ (x = e /\ n = m)
           /\ x = e /\ n = m => ~(n <= sends[x])
    BY <1>0
  <1>3. \A x \in Ends : \A n \in Nat : SendWaits(x, n)' <=> SendWaits(x, n) \/ (x = e /\ n = m)
    BY <1>b DEF SendWaits
  <1>4. \A x \in Ends : \A n \in Nat : SendOp(x, n) \in {SendOp(e, m)} <=> x = e /\ n = m
    BY OpEqual
  <1> HIDE DEF m
  <1>5. SendMove({SendOp(e, m)}, {}, {SendOp(e, m)})
    BY <1>0, <1>1, <1>2, <1>3, <1>4, SendMoves
  <1>6. QED
    BY <1>5 DEF m

\* A send is issued and takes its end's slot.
LEMMA SendParked ==
    ASSUME TypeOK, TypeOK', SendWaitInv, NEW e \in Ends, IssueSend(e), pending_send[e] = None,
           pending_send' = [pending_send EXCEPT ![e] = sends[e] + 1], UNCHANGED blocked_senders
    PROVE  SendMove({SendOp(e, sends[e] + 1)}, {}, {SendOp(e, sends[e] + 1)})
  <1> DEFINE m == sends[e] + 1
  <1>0. /\ \A x \in Ends : /\ sends[x] \in Nat /\ pending_send[x] \in Nat
                           /\ SendBudget[x] \in Nat /\ blocked_senders[x] \subseteq Nat
                           /\ sends'[x] = IF x = e THEN m ELSE sends[x]
        /\ sends[e] < SendBudget[e] /\ m \in Nat /\ 1 <= m
    BY SendNumbers
  <1>p. \A x \in Ends : pending_send'[x] = IF x = e THEN m ELSE pending_send[x]
    BY DEF TypeOK
  <1>1. SendWaitInv'
    <2>1. \A x \in Ends : /\ pending_send[x] <= sends[x] /\ sends[x] <= SendBudget[x]
                          /\ \A k \in blocked_senders[x] : k <= sends[x] /\ k # pending_send[x]
      BY DEF SendWaitInv
    <2>2. \A x \in Ends : pending_send'[x] <= sends'[x] /\ sends'[x] <= SendBudget[x]
      BY <1>0, <1>p, <2>1
    <2>3. \A x \in Ends : \A k \in blocked_senders[x] : k <= sends'[x] /\ k # pending_send'[x]
      BY <1>0, <1>p, <2>1
    <2>4. QED
      BY <2>2, <2>3 DEF SendWaitInv
  <1>2. \A x \in Ends : \A n \in Nat :
           /\ n <= sends'[x] <=> n <= sends[x] \/ (x = e /\ n = m)
           /\ x = e /\ n = m => ~(n <= sends[x])
    BY <1>0
  <1>3. \A x \in Ends : \A n \in Nat :
           1 <= n => (SendWaits(x, n)' <=> SendWaits(x, n) \/ (x = e /\ n = m))
    BY <1>p DEF SendWaits, None
  <1>4. \A x \in Ends : \A n \in Nat : SendOp(x, n) \in {SendOp(e, m)} <=> x = e /\ n = m
    BY OpEqual
  <1> HIDE DEF m
  <1>5. SendMove({SendOp(e, m)}, {}, {SendOp(e, m)})
    BY <1>0, <1>1, <1>2, <1>3, <1>4, SendMoves
  <1>6. QED
    BY <1>5 DEF m

\* A blocked send stops waiting.
LEMMA SendUnblocked ==
    ASSUME TypeOK, TypeOK', SendWaitInv, NEW e \in Ends, NEW m \in blocked_senders[e],
           UNCHANGED <<sends, pending_send>>,
           blocked_senders' = [blocked_senders EXCEPT ![e] = @ \ {m}]
    PROVE  SendMove({}, {SendOp(e, m)}, {}) /\ SendOp(e, m) \in Issuable
  <1>0. m \in Nat /\ 1 <= m /\ m # pending_send[e]
    BY SMTT(30) DEF TypeOK, SendWaitInv
  <1>b. \A x \in Ends : \A n : n \in blocked_senders'[x] <=> n \in blocked_senders[x] /\ ~(x = e /\ n = m)
    BY DEF TypeOK
  <1>1. SendWaitInv'
    BY <1>b DEF SendWaitInv
  <1>3. \A x \in Ends : \A n \in Nat : /\ SendWaits(x, n)' <=> SendWaits(x, n) /\ ~(x = e /\ n = m)
                                       /\ x = e /\ n = m => SendWaits(x, n)
    BY <1>0, <1>b DEF SendWaits
  <1>4. \A x \in Ends : \A n \in Nat : SendOp(x, n) \in {SendOp(e, m)} <=> x = e /\ n = m
    BY OpEqual
  <1>5. SendMove({}, {SendOp(e, m)}, {})
    BY <1>0, <1>1, <1>3, <1>4, SendMoves
  <1>6. QED
    BY <1>5 DEF SendMove, WaitingSends

\* A parked send leaves its slot.
LEMMA SendTaken ==
    ASSUME TypeOK, TypeOK', SendWaitInv, NEW e \in Ends, pending_send[e] # None,
           UNCHANGED <<sends, blocked_senders>>,
           pending_send' = [pending_send EXCEPT ![e] = None]
    PROVE  /\ SendMove({}, {SendOp(e, pending_send[e])}, {})
           /\ SendOp(e, pending_send[e]) \in Issuable
  <1> DEFINE m == pending_send[e]
  <1>0. m \in Nat /\ 1 <= m /\ m \notin blocked_senders[e]
    BY DEF TypeOK, SendWaitInv, None
  <1>n. \A x \in Ends : sends[x] \in Nat /\ \A n \in blocked_senders[x] : n # None
    BY DEF TypeOK, None
  <1>b. \A x \in Ends : pending_send'[x] = IF x = e THEN None ELSE pending_send[x]
    BY DEF TypeOK
  <1>1. SendWaitInv'
    BY <1>b, <1>n DEF SendWaitInv, None
  <1>3. \A x \in Ends : \A n \in Nat :
          1 <= n => /\ SendWaits(x, n)' <=> SendWaits(x, n) /\ ~(x = e /\ n = m)
                    /\ x = e /\ n = m => SendWaits(x, n)
    BY <1>0, <1>b DEF SendWaits, None
  <1>4. \A x \in Ends : \A n \in Nat : SendOp(x, n) \in {SendOp(e, m)} <=> x = e /\ n = m
    BY OpEqual
  <1> HIDE DEF m
  <1>5. SendMove({}, {SendOp(e, m)}, {})
    BY <1>0, <1>1, <1>3, <1>4, SendMoves
  <1>6. SendOp(e, m) \in Issuable
    BY <1>5 DEF SendMove, WaitingSends
  <1>7. QED
    BY <1>5, <1>6 DEF m

ParkedSends == {SendOp(e, pending_send[e]) : e \in {x \in Ends : pending_send[x] # None}}

\* A close empties both ends' send slots.
LEMMA SendsEnded ==
    ASSUME TypeOK, TypeOK', SendWaitInv, UNCHANGED <<sends, blocked_senders>>,
           pending_send' = [x \in Ends |-> None]
    PROVE  SendMove({}, ParkedSends, {}) /\ ParkedSends \subseteq Issuable
  <1>0. \A x \in Ends : /\ sends[x] \in Nat /\ pending_send[x] \in Nat
                        /\ \A n \in blocked_senders[x] : n # None /\ n # pending_send[x]
    BY DEF TypeOK, None, SendWaitInv
  <1>1. SendWaitInv'
    BY <1>0 DEF SendWaitInv, None
  <1>2. ASSUME NEW x \in Ends, NEW n \in Nat, 1 <= n
        PROVE  SendOp(x, n) \in ParkedSends <=> n = pending_send[x]
    BY <1>2, OpEqual DEF ParkedSends, None
  <1>3. \A x \in Ends : \A n \in Nat :
          1 <= n => /\ SendWaits(x, n)' <=> SendWaits(x, n) /\ n # pending_send[x]
                    /\ n = pending_send[x] => SendWaits(x, n)
    BY <1>0 DEF SendWaits, None
  <1>4. \A op \in ParkedSends : \E e \in Ends : \E n \in Nat : op = SendOp(e, n) /\ 1 <= n
    BY <1>0 DEF ParkedSends, None
  <1> HIDE DEF ParkedSends
  <1>5. SendMove({}, ParkedSends, {})
    BY <1>1, <1>2, <1>3, <1>4, SendMoves
  <1>6. QED
    BY <1>5 DEF SendMove, WaitingSends

\* The same steps of the receiving side.
LEMMA ReceiveQuiet ==
    ASSUME TypeOK, TypeOK', ReceiveWaitInv, UNCHANGED <<receives, pending_receive, blocked_receivers>>
    PROVE  ReceiveMove({}, {}, {})
  <1>1. ReceiveWaitInv'
    BY DEF ReceiveWaitInv
  <1>2. \A e \in Ends : \A n \in Nat : ReceiveWaits(e, n)' <=> ReceiveWaits(e, n)
    BY DEF ReceiveWaits
  <1>3. QED
    BY <1>1, <1>2, ReceiveMoves

\* A call that is issued has the next number, within its budget.
LEMMA ReceiveNumbers ==
    ASSUME TypeOK, ReceiveWaitInv, NEW e \in Ends, IssueReceive(e)
    PROVE  /\ \A x \in Ends : /\ receives[x] \in Nat /\ pending_receive[x] \in Nat
                              /\ ReceiveBudget[x] \in Nat /\ \A r \in blocked_receivers[x] : r.n \in Nat
                              /\ receives'[x] = IF x = e THEN receives[e] + 1 ELSE receives[x]
           /\ receives[e] < ReceiveBudget[e]
           /\ ReceiveOp(e, receives[e] + 1) \in Issuable
  <1>1. \A x \in Ends : /\ receives[x] \in Nat /\ pending_receive[x] \in Nat
                        /\ ReceiveBudget[x] \in Nat /\ \A r \in blocked_receivers[x] : r.n \in Nat
                        /\ receives'[x] = IF x = e THEN receives[e] + 1 ELSE receives[x]
    <2>1. \A x \in Ends : \A r \in blocked_receivers[x] : r.n \in Nat
      BY DEF TypeOK
    <2>2. \A x \in Ends : /\ receives[x] \in Nat /\ pending_receive[x] \in Nat
                          /\ ReceiveBudget[x] \in Nat
      BY BudgetAssumption DEF TypeOK
    <2>3. \A x \in Ends : receives'[x] = IF x = e THEN receives[e] + 1 ELSE receives[x]
      BY DEF TypeOK, IssueReceive
    <2>4. QED
      BY <2>1, <2>2, <2>3
  <1>2. receives[e] < ReceiveBudget[e]
    BY DEF IssueReceive
  <1>3. ReceiveOp(e, receives[e] + 1) \in Issuable
    BY <1>1, <1>2, IssuableOps
  <1>4. QED
    BY <1>1, <1>2, <1>3

\* A receive is issued and does not wait.
LEMMA ReceiveIssued ==
    ASSUME TypeOK, TypeOK', ReceiveWaitInv, NEW e \in Ends, IssueReceive(e),
           UNCHANGED <<pending_receive, blocked_receivers>>
    PROVE  ReceiveMove({ReceiveOp(e, receives[e] + 1)}, {}, {})
  <1> DEFINE m == receives[e] + 1
  <1>0. /\ \A x \in Ends : /\ receives[x] \in Nat /\ pending_receive[x] \in Nat
                           /\ ReceiveBudget[x] \in Nat /\ \A r \in blocked_receivers[x] : r.n \in Nat
                           /\ receives'[x] = IF x = e THEN m ELSE receives[x]
        /\ receives[e] < ReceiveBudget[e] /\ m \in Nat /\ 1 <= m
    BY ReceiveNumbers
  <1>1. ReceiveWaitInv'
    BY <1>0 DEF ReceiveWaitInv
  <1>2. \A x \in Ends : \A n \in Nat :
           /\ n <= receives'[x] <=> n <= receives[x] \/ (x = e /\ n = m)
           /\ x = e /\ n = m => ~(n <= receives[x])
    BY <1>0
  <1>3. \A x \in Ends : \A n \in Nat : ReceiveWaits(x, n)' <=> ReceiveWaits(x, n)
    BY DEF ReceiveWaits
  <1>4. \A x \in Ends : \A n \in Nat : ReceiveOp(x, n) \in {ReceiveOp(e, m)} <=> x = e /\ n = m
    BY OpEqual
  <1> HIDE DEF m
  <1>5. ReceiveMove({ReceiveOp(e, m)}, {}, {})
    BY <1>0, <1>1, <1>2, <1>3, <1>4, ReceiveMoves
  <1>6. QED
    BY <1>5 DEF m

\* A receive is issued and waits inside ReceiveWithin.
LEMMA ReceiveBlocked ==
    ASSUME TypeOK, TypeOK', ReceiveWaitInv, NEW e \in Ends, IssueReceive(e), UNCHANGED pending_receive,
           NEW timed \in BOOLEAN,
           blocked_receivers' = [blocked_receivers EXCEPT ![e] =
                                   @ \cup {[n |-> receives[e] + 1, timed |-> timed]}]
    PROVE  ReceiveMove({ReceiveOp(e, receives[e] + 1)}, {}, {ReceiveOp(e, receives[e] + 1)})
  <1> DEFINE m == receives[e] + 1
             q == [n |-> m, timed |-> timed]
  <1>0. /\ \A x \in Ends : /\ receives[x] \in Nat /\ pending_receive[x] \in Nat
                           /\ ReceiveBudget[x] \in Nat /\ \A r \in blocked_receivers[x] : r.n \in Nat
                           /\ receives'[x] = IF x = e THEN m ELSE receives[x]
        /\ receives[e] < ReceiveBudget[e] /\ m \in Nat /\ 1 <= m
    BY ReceiveNumbers
  <1>b. q.n = m /\ \A x \in Ends : \A r : r \in blocked_receivers'[x]
                                      <=> r \in blocked_receivers[x] \/ (x = e /\ r = q)
    BY DEF TypeOK
  <1> HIDE DEF q
  <1>1. ReceiveWaitInv'
    <2>1. \A x \in Ends : pending_receive'[x] = pending_receive[x] /\ pending_receive[x] <= receives[x]
      BY DEF ReceiveWaitInv
    <2>2. \A x \in Ends : pending_receive'[x] <= receives'[x] /\ receives'[x] <= ReceiveBudget[x]
      BY <1>0, <2>1 DEF ReceiveWaitInv
    <2>3. ASSUME NEW x \in Ends, NEW r \in blocked_receivers'[x]
          PROVE  r.n <= receives'[x] /\ r.n # pending_receive'[x]
      <3>1. CASE r \in blocked_receivers[x]
        BY <1>0, <2>1, <3>1 DEF ReceiveWaitInv
      <3>2. CASE x = e /\ r = q
        BY <1>0, <1>b, <2>1, <3>2
      <3>3. QED
        BY <1>b, <2>3, <3>1, <3>2
    <2>4. ASSUME NEW x \in Ends, NEW r \in blocked_receivers'[x], NEW s \in blocked_receivers'[x],
                 r.n = s.n
          PROVE  r = s
      <3>1. \A y \in blocked_receivers[x] : y.n <= receives[x] /\ y.n \in Nat
        BY <1>0 DEF ReceiveWaitInv
      <3>2. CASE r \in blocked_receivers[x] /\ s \in blocked_receivers[x]
        BY <2>4, <3>2 DEF ReceiveWaitInv
      <3>3. CASE x = e /\ r = q /\ s \in blocked_receivers[x]
        BY <1>0, <1>b, <2>4, <3>1, <3>3
      <3>4. CASE x = e /\ s = q /\ r \in blocked_receivers[x]
        BY <1>0, <1>b, <2>4, <3>1, <3>4
      <3>5. QED
        BY <1>b, <2>4, <3>2, <3>3, <3>4
    <2>5. QED
      BY <2>2, <2>3, <2>4 DEF ReceiveWaitInv
  <1>2. \A x \in Ends : \A n \in Nat :
           /\ n <= receives'[x] <=> n <= receives[x] \/ (x = e /\ n = m)
           /\ x = e /\ n = m => ~(n <= receives[x])
    BY <1>0
  <1>3. \A x \in Ends : \A n \in Nat : ReceiveWaits(x, n)' <=> ReceiveWaits(x, n) \/ (x = e /\ n = m)
    BY <1>b DEF ReceiveWaits
  <1>4. \A x \in Ends : \A n \in Nat : ReceiveOp(x, n) \in {ReceiveOp(e, m)} <=> x = e /\ n = m
    BY OpEqual
  <1> HIDE DEF m
  <1>5. ReceiveMove({ReceiveOp(e, m)}, {}, {ReceiveOp(e, m)})
    BY <1>0, <1>1, <1>2, <1>3, <1>4, ReceiveMoves
  <1>6. QED
    BY <1>5 DEF m

\* A receive is issued and takes its end's slot.
LEMMA ReceiveParked ==
    ASSUME TypeOK, TypeOK', ReceiveWaitInv, NEW e \in Ends, IssueReceive(e), pending_receive[e] = None,
           pending_receive' = [pending_receive EXCEPT ![e] = receives[e] + 1], UNCHANGED blocked_receivers
    PROVE  ReceiveMove({ReceiveOp(e, receives[e] + 1)}, {}, {ReceiveOp(e, receives[e] + 1)})
  <1> DEFINE m == receives[e] + 1
  <1>0. /\ \A x \in Ends : /\ receives[x] \in Nat /\ pending_receive[x] \in Nat
                           /\ ReceiveBudget[x] \in Nat /\ \A r \in blocked_receivers[x] : r.n \in Nat
                           /\ receives'[x] = IF x = e THEN m ELSE receives[x]
        /\ receives[e] < ReceiveBudget[e] /\ m \in Nat /\ 1 <= m
    BY ReceiveNumbers
  <1>p. \A x \in Ends : pending_receive'[x] = IF x = e THEN m ELSE pending_receive[x]
    BY DEF TypeOK
  <1>1. ReceiveWaitInv'
    <2>1. \A x \in Ends : /\ pending_receive[x] <= receives[x] /\ receives[x] <= ReceiveBudget[x]
                          /\ \A r \in blocked_receivers[x] : r.n <= receives[x] /\ r.n # pending_receive[x]
      BY DEF ReceiveWaitInv
    <2>2. \A x \in Ends : pending_receive'[x] <= receives'[x] /\ receives'[x] <= ReceiveBudget[x]
      BY <1>0, <1>p, <2>1
    <2>3. \A x \in Ends : \A r \in blocked_receivers[x] : r.n <= receives'[x] /\ r.n # pending_receive'[x]
      BY <1>0, <1>p, <2>1
    <2>4. QED
      BY <2>2, <2>3 DEF ReceiveWaitInv
  <1>2. \A x \in Ends : \A n \in Nat :
           /\ n <= receives'[x] <=> n <= receives[x] \/ (x = e /\ n = m)
           /\ x = e /\ n = m => ~(n <= receives[x])
    BY <1>0
  <1>3. \A x \in Ends : \A n \in Nat :
           1 <= n => (ReceiveWaits(x, n)' <=> ReceiveWaits(x, n) \/ (x = e /\ n = m))
    BY <1>p DEF ReceiveWaits, None
  <1>4. \A x \in Ends : \A n \in Nat : ReceiveOp(x, n) \in {ReceiveOp(e, m)} <=> x = e /\ n = m
    BY OpEqual
  <1> HIDE DEF m
  <1>5. ReceiveMove({ReceiveOp(e, m)}, {}, {ReceiveOp(e, m)})
    BY <1>0, <1>1, <1>2, <1>3, <1>4, ReceiveMoves
  <1>6. QED
    BY <1>5 DEF m

\* A blocked receive stops waiting.
LEMMA ReceiveUnblocked ==
    ASSUME TypeOK, TypeOK', ReceiveWaitInv, NEW e \in Ends, NEW q \in blocked_receivers[e],
           UNCHANGED <<receives, pending_receive>>,
           blocked_receivers' = [blocked_receivers EXCEPT ![e] = @ \ {q}]
    PROVE  ReceiveMove({}, {ReceiveOp(e, q.n)}, {}) /\ ReceiveOp(e, q.n) \in Issuable
  <1> DEFINE m == q.n
  <1>0. m \in Nat /\ 1 <= m /\ m # pending_receive[e] /\ \A r \in blocked_receivers[e] : r.n = m => r = q
    BY DEF TypeOK, ReceiveWaitInv
  <1>b. \A x \in Ends : \A r : r \in blocked_receivers'[x] <=> r \in blocked_receivers[x] /\ ~(x = e /\ r = q)
    BY DEF TypeOK
  <1>1. ReceiveWaitInv'
    BY <1>b DEF ReceiveWaitInv
  <1>3. \A x \in Ends : \A n \in Nat : /\ ReceiveWaits(x, n)' <=> ReceiveWaits(x, n) /\ ~(x = e /\ n = m)
                                       /\ x = e /\ n = m => ReceiveWaits(x, n)
    BY <1>0, <1>b DEF ReceiveWaits
  <1>4. \A x \in Ends : \A n \in Nat : ReceiveOp(x, n) \in {ReceiveOp(e, m)} <=> x = e /\ n = m
    BY OpEqual
  <1> HIDE DEF m
  <1>5. ReceiveMove({}, {ReceiveOp(e, m)}, {})
    BY <1>0, <1>1, <1>3, <1>4, ReceiveMoves
  <1>6. QED
    BY <1>5 DEF ReceiveMove, WaitingReceives, m

\* A parked receive leaves its slot.
LEMMA ReceiveTaken ==
    ASSUME TypeOK, TypeOK', ReceiveWaitInv, NEW e \in Ends, pending_receive[e] # None,
           UNCHANGED <<receives, blocked_receivers>>,
           pending_receive' = [pending_receive EXCEPT ![e] = None]
    PROVE  /\ ReceiveMove({}, {ReceiveOp(e, pending_receive[e])}, {})
           /\ ReceiveOp(e, pending_receive[e]) \in Issuable
  <1> DEFINE m == pending_receive[e]
  <1>0. m \in Nat /\ 1 <= m /\ \A r \in blocked_receivers[e] : r.n # m
    BY DEF TypeOK, ReceiveWaitInv, None
  <1>n. \A x \in Ends : receives[x] \in Nat /\ \A r \in blocked_receivers[x] : r.n # None
    BY DEF TypeOK, None
  <1>b. \A x \in Ends : pending_receive'[x] = IF x = e THEN None ELSE pending_receive[x]
    BY DEF TypeOK
  <1>1. ReceiveWaitInv'
    BY <1>b, <1>n DEF ReceiveWaitInv, None
  <1>3. \A x \in Ends : \A n \in Nat :
          1 <= n => /\ ReceiveWaits(x, n)' <=> ReceiveWaits(x, n) /\ ~(x = e /\ n = m)
                    /\ x = e /\ n = m => ReceiveWaits(x, n)
    BY <1>0, <1>b DEF ReceiveWaits, None
  <1>4. \A x \in Ends : \A n \in Nat : ReceiveOp(x, n) \in {ReceiveOp(e, m)} <=> x = e /\ n = m
    BY OpEqual
  <1> HIDE DEF m
  <1>5. ReceiveMove({}, {ReceiveOp(e, m)}, {})
    BY <1>0, <1>1, <1>3, <1>4, ReceiveMoves
  <1>6. ReceiveOp(e, m) \in Issuable
    BY <1>5 DEF ReceiveMove, WaitingReceives
  <1>7. QED
    BY <1>5, <1>6 DEF m

ParkedReceives == {ReceiveOp(e, pending_receive[e]) : e \in {x \in Ends : pending_receive[x] # None}}

\* A close empties both ends' receive slots.
LEMMA ReceivesEnded ==
    ASSUME TypeOK, TypeOK', ReceiveWaitInv, UNCHANGED <<receives, blocked_receivers>>,
           pending_receive' = [x \in Ends |-> None]
    PROVE  ReceiveMove({}, ParkedReceives, {}) /\ ParkedReceives \subseteq Issuable
  <1>0. \A x \in Ends : /\ receives[x] \in Nat /\ pending_receive[x] \in Nat
                        /\ \A r \in blocked_receivers[x] : r.n # None /\ r.n # pending_receive[x]
    BY DEF TypeOK, None, ReceiveWaitInv
  <1>1. ReceiveWaitInv'
    BY <1>0 DEF ReceiveWaitInv, None
  <1>2. ASSUME NEW x \in Ends, NEW n \in Nat, 1 <= n
        PROVE  ReceiveOp(x, n) \in ParkedReceives <=> n = pending_receive[x]
    BY <1>2, OpEqual DEF ParkedReceives, None
  <1>3. \A x \in Ends : \A n \in Nat :
          1 <= n => /\ ReceiveWaits(x, n)' <=> ReceiveWaits(x, n) /\ n # pending_receive[x]
                    /\ n = pending_receive[x] => ReceiveWaits(x, n)
    BY <1>0 DEF ReceiveWaits, None
  <1>4. \A op \in ParkedReceives : \E e \in Ends : \E n \in Nat : op = ReceiveOp(e, n) /\ 1 <= n
    BY <1>0 DEF ParkedReceives, None
  <1> HIDE DEF ParkedReceives
  <1>5. ReceiveMove({}, ParkedReceives, {})
    BY <1>1, <1>2, <1>3, <1>4, ReceiveMoves
  <1>6. QED
    BY <1>5 DEF ReceiveMove, WaitingReceives

-----------------------------------------------------------------------------
\* A step completes the operations of N: each is reported or newly owed, and
\* no other is.
OpsOf(N) == {x.op : x \in N}

Tells(N) ==
    /\ NewlyTold(N)
    /\ DebtInv'
    /\ N \subseteq Completions /\ OpsOf(N) \subseteq Issuable
    /\ \A op \in Issuable :
         \/ op \notin OpsOf(N) /\ (Owing(op)' <=> Owing(op)) /\ Len(log'[op]) = Len(log[op])
         \/ op \in OpsOf(N) /\ Owing(op)' /\ Len(log'[op]) = Len(log[op])
         \/ op \in OpsOf(N) /\ (Owing(op)' <=> Owing(op)) /\ Len(log'[op]) = Len(log[op]) + 1

\* A step that touches neither the debts nor the log tells nothing.
LEMMA TellsNothing ==
    ASSUME TypeOK, TypeOK', DebtInv, UNCHANGED <<owed, log>>
    PROVE  Tells({})
  <1>1. Promised' = Promised
    BY DEF Promised, Entries
  <1>2. NewlyTold({})
    BY <1>1, OweTold
  <1>3. DebtInv'
    BY <1>1 DEF DebtInv
  <1>4. OpsOf({}) = {}
    BY DEF OpsOf
  <1>5. QED
    BY <1>1, <1>2, <1>3, <1>4 DEF Tells, Owing

\* A call that returns, or whose callback runs inline, tells its outcome.
LEMMA TellsReport ==
    ASSUME TypeOK, TypeOK', DebtInv, NEW op \in Issuable, NEW out \in Outcomes,
           Report(op, out), UNCHANGED owed
    PROVE  Tells({Completion(op, out)})
  <1>1. /\ NewlyTold({Completion(op, out)}) /\ Promised' = Promised
        /\ \A x \in Issuable : Len(log'[x]) = IF x = op THEN Len(log[x]) + 1 ELSE Len(log[x])
    BY ReportTold
  <1>2. DebtInv'
    BY <1>1 DEF DebtInv
  <1>3. OpsOf({Completion(op, out)}) = {op}
    BY CompletionFields DEF OpsOf
  <1>4. {Completion(op, out)} \subseteq Completions
    BY IssuableOps DEF Completion, Completions
  <1>5. \A x \in Issuable : Owing(x)' <=> Owing(x)
    BY <1>1 DEF Owing
  <1>6. \A x \in Issuable :
         \/ x \notin {op} /\ (Owing(x)' <=> Owing(x)) /\ Len(log'[x]) = Len(log[x])
         \/ x \in {op} /\ (Owing(x)' <=> Owing(x)) /\ Len(log'[x]) = Len(log[x]) + 1
    BY <1>1, <1>5
  <1>7. QED
    BY <1>1, <1>2, <1>3, <1>4, <1>6 DEF Tells

\* A list taken on tells each operation on it, once.
LEMMA TellsDebt ==
    ASSUME TypeOK, TypeOK', DebtInv, NEW b, NEW todo \in Seq(Completions), UNCHANGED log,
           owed' = owed \cup {[locked |-> b, todo |-> todo]}, OncePerOp(todo),
           \A x \in Entries(todo) : x.op \in Issuable /\ ~Owing(x.op)
    PROVE  Tells(Entries(todo))
  <1>1. Promised' = Promised \cup Entries(todo) /\ DebtInv'
    BY DebtAdded DEF TypeOK, Debts
  <1>2. Entries(todo) \in SUBSET Completions
    BY DEF Entries
  <1>3. NewlyTold(Entries(todo))
    BY <1>1, <1>2, OweTold
  <1>4. \A op : Owing(op)' <=> Owing(op) \/ op \in OpsOf(Entries(todo))
    BY <1>1 DEF Owing, OpsOf
  <1>5. OpsOf(Entries(todo)) \subseteq Issuable
    BY DEF OpsOf
  <1>6. QED
    BY <1>1, <1>2, <1>3, <1>4, <1>5 DEF Tells

\* A thread that leaves its critical section owing completions.
LEMMA TellsOwe ==
    ASSUME TypeOK, TypeOK', DebtInv, NEW todo \in Seq(Completions), UNCHANGED log,
           Owe(todo), OncePerOp(todo),
           \A x \in Entries(todo) : x.op \in Issuable /\ ~Owing(x.op)
    PROVE  Tells(Entries(todo))
  <1>1. CASE todo = <<>>
    <2>1. owed' = owed /\ Entries(todo) = {}
      BY <1>1, EntriesOf DEF Owe
    <2>2. QED
      BY <2>1, TellsNothing
  <1>2. CASE todo # <<>>
    <2>1. owed' = owed \cup {[locked |-> FALSE, todo |-> todo]}
      BY <1>2, Zenon DEF Owe
    <2>2. QED
      BY <2>1, TellsDebt
  <1>3. QED
    BY <1>1, <1>2

\* A thread that refuses under the mutex owes that one completion.
LEMMA TellsRefuse ==
    ASSUME TypeOK, TypeOK', DebtInv, NEW op \in Issuable, NEW out \in Outcomes, UNCHANGED log,
           RefuseLocked(op, out), ~Owing(op)
    PROVE  Tells({Completion(op, out)})
  <1> DEFINE todo == <<Completion(op, out)>>
  <1>1. Completion(op, out) \in Completions
    BY IssuableOps DEF Completion, Completions
  <1>2. todo \in Seq(Completions) /\ Entries(todo) = {Completion(op, out)} /\ Len(todo) = 1
    BY <1>1, EntriesOf
  <1>3. OncePerOp(todo)
    BY <1>2 DEF OncePerOp
  <1>4. owed' = owed \cup {[locked |-> TRUE, todo |-> todo]}
    BY Zenon DEF RefuseLocked
  <1>5. \A x \in Entries(todo) : x.op \in Issuable /\ ~Owing(x.op)
    BY <1>2, CompletionFields
  <1> HIDE DEF todo
  <1>6. QED
    BY <1>2, <1>3, <1>4, <1>5, TellsDebt

\* Two operations completed by one critical section.
LEMMA TellsTwo ==
    ASSUME TypeOK, TypeOK', DebtInv, NEW a \in Issuable, NEW b \in Issuable, a # b,
           NEW x \in Outcomes, NEW y \in Outcomes, UNCHANGED log,
           Owe(<<Completion(a, x), Completion(b, y)>>), ~Owing(a), ~Owing(b)
    PROVE  Tells({Completion(a, x), Completion(b, y)})
  <1> DEFINE todo == <<Completion(a, x), Completion(b, y)>>
  <1>1. Completion(a, x) \in Completions /\ Completion(b, y) \in Completions
    BY IssuableOps DEF Completion, Completions
  <1>2. /\ todo \in Seq(Completions) /\ Entries(todo) = {Completion(a, x), Completion(b, y)}
        /\ Len(todo) = 2 /\ todo[1].op = a /\ todo[2].op = b
    BY <1>1, EntriesOf, CompletionFields
  <1>4. \A z \in Entries(todo) : z.op \in Issuable /\ ~Owing(z.op)
    BY <1>2, CompletionFields
  <1>5. Owe(todo)
    OBVIOUS
  <1> HIDE DEF todo
  <1>6. OncePerOp(todo)
    BY <1>2 DEF OncePerOp
  <1>7. QED
    BY <1>2, <1>4, <1>5, <1>6, TellsOwe

-----------------------------------------------------------------------------
\* An operation that has not been issued, or still waits, is owed nothing.
LEMMA Unowed ==
    ASSUME OnceInv, NEW op \in Issuable,
           op \notin StartedSends \cup StartedReceives \/ op \in WaitingSends \cup WaitingReceives
    PROVE  ~Owing(op)
  <1>1. Settled(Started(op), Waiting(op), Owing(op), Len(log[op]))
    BY DEF OnceInv
  <1>2. op.kind = "send" \/ op.kind = "receive"
    BY IssuableOps
  <1>3. ~Started(op) \/ Waiting(op)
    BY <1>2 DEF StartedSends, StartedReceives, WaitingSends, WaitingReceives
  <1>4. QED
    BY <1>1, <1>3 DEF Settled

\* A step that completes exactly the operations it issues or releases, but
\* for those it leaves waiting, keeps every operation in one place.
LEMMA Balance ==
    ASSUME TypeOK, TypeOK', OnceInv, NEW S1, NEW M1, NEW P1, NEW S2, NEW M2, NEW P2, NEW N,
           SendMove(S1, M1, P1), ReceiveMove(S2, M2, P2), Tells(N),
           S1 \cup S2 \cup M1 \cup M2 = P1 \cup P2 \cup OpsOf(N),
           (P1 \cup P2) \cap OpsOf(N) = {}
    PROVE  CompletionInv'
  <1>1. ASSUME NEW op \in Issuable
        PROVE  Settled(Started(op), Waiting(op), Owing(op), Len(log[op]))'
    <2>1. Settled(Started(op), Waiting(op), Owing(op), Len(log[op]))
      BY DEF OnceInv
    <2>2. op.kind = "send" \/ op.kind = "receive"
      BY IssuableOps
    <2>3. /\ Started(op) <=> op \in StartedSends \/ op \in StartedReceives
          /\ Waiting(op) <=> op \in WaitingSends \/ op \in WaitingReceives
      BY <2>2 DEF StartedSends, StartedReceives, WaitingSends, WaitingReceives
    <2>4. /\ Started(op)' <=> op \in StartedSends' \/ op \in StartedReceives'
          /\ Waiting(op)' <=> op \in WaitingSends' \/ op \in WaitingReceives'
      BY <2>2 DEF StartedSends, StartedReceives, WaitingSends, WaitingReceives
    <2>5. /\ Started(op)' <=> Started(op) \/ op \in S1 \cup S2
          /\ op \in S1 \cup S2 => ~Started(op)
      <3>1. op \in S1 => op \notin StartedReceives
        BY DEF SendMove, StartedSends, StartedReceives
      <3>2. op \in S2 => op \notin StartedSends
        BY DEF ReceiveMove, StartedSends, StartedReceives
      <3>3. QED
        BY <2>3, <2>4, <3>1, <3>2 DEF SendMove, ReceiveMove
    <2>6. /\ Waiting(op)' <=> (Waiting(op) /\ op \notin M1 \cup M2) \/ op \in P1 \cup P2
          /\ op \in M1 \cup M2 => Waiting(op)
      <3>1. op \in M1 => op \notin WaitingReceives
        BY DEF SendMove, WaitingSends, WaitingReceives
      <3>2. op \in M2 => op \notin WaitingSends
        BY DEF ReceiveMove, WaitingSends, WaitingReceives
      <3>3. QED
        BY <2>3, <2>4, <3>1, <3>2 DEF SendMove, ReceiveMove
    <2>7. PICK l \in Nat : l = Len(log[op])
      BY DEF TypeOK
    <2>8. \/ op \notin OpsOf(N) /\ (Owing(op)' <=> Owing(op)) /\ Len(log'[op]) = l
          \/ op \in OpsOf(N) /\ Owing(op)' /\ Len(log'[op]) = l
          \/ op \in OpsOf(N) /\ (Owing(op)' <=> Owing(op)) /\ Len(log'[op]) = l + 1
      BY <2>7 DEF Tells
    <2>9. /\ op \in S1 \cup S2 \/ op \in M1 \cup M2 <=> op \in P1 \cup P2 \/ op \in OpsOf(N)
          /\ ~(op \in P1 \cup P2 /\ op \in OpsOf(N))
      OBVIOUS
    <2>10. Settled(Started(op), Waiting(op), Owing(op), l)
      BY <2>1, <2>7
    <2>11. Settled(Started(op)', Waiting(op)', Owing(op)', Len(log'[op]))
      <3>1. CASE op \in OpsOf(N)
        <4>1. ~Owing(op) /\ l = 0 /\ Started(op)' /\ ~Waiting(op)'
          BY <2>5, <2>6, <2>9, <2>10, <3>1 DEF Settled
        <4>2. QED
          BY <2>8, <3>1, <4>1 DEF Settled
      <3>2. CASE op \notin OpsOf(N)
        <4>1. (Owing(op)' <=> Owing(op)) /\ Len(log'[op]) = l
          BY <2>8, <3>2
        <4>2. CASE op \in P1 \cup P2
          BY <2>5, <2>6, <2>9, <2>10, <3>2, <4>1, <4>2 DEF Settled
        <4>3. CASE op \notin P1 \cup P2
          BY <2>5, <2>6, <2>9, <2>10, <3>2, <4>1, <4>3 DEF Settled
        <4>4. QED
          BY <4>2, <4>3
      <3>3. QED
        BY <3>1, <3>2
    <2>12. QED
      BY <2>11 DEF Settled
  <1>2. OnceInv'
    BY <1>1 DEF OnceInv
  <1>3. QED
    BY <1>2 DEF CompletionInv, SendMove, ReceiveMove, Tells

-----------------------------------------------------------------------------
\* The outcomes whose truth depends on the session: K are the ones a step
\* gives.
KeyOutcomes == {"ok", "end", "timeout"}
KeyTold(K) ==
    \A op \in Issuable : \A out \in KeyOutcomes :
        Told(op, out)' <=> Told(op, out) \/ Completion(op, out) \in K

\* What a step must do for the outcomes it gives, and for those given before.
Truthful(K) ==
    /\ \A e \in Ends : \A m \in 1 .. SendBudget[e] :
         Accepted(e, m)' <=> Accepted(e, m) \/ Completion(SendOp(e, m), "ok") \in K
    /\ \A e \in Ends : \A n \in 1 .. ReceiveBudget[e] :
         Completion(ReceiveOp(e, n), "end") \in K => closed' /\ queues'[Peer(e)] = <<>>
    /\ \A e \in Ends : closed /\ queues[Peer(e)] = <<>> => closed' /\ queues'[Peer(e)] = <<>>
    /\ bounded \subseteq bounded'
    /\ \A op \in Issuable : Completion(op, "timeout") \in K => op \in bounded'

\* What is told stays true when whatever is newly told is true.
LEMMA TruthStep ==
    ASSUME TruthInv, NEW K, KeyTold(K), Truthful(K)
    PROVE  TruthInv'
  <1>1. \A e \in Ends : SendBudget[e] \in Nat /\ ReceiveBudget[e] \in Nat
    BY BudgetAssumption
  <1>2. ASSUME NEW e \in Ends, NEW m \in 1 .. SendBudget[e]
        PROVE  Told(SendOp(e, m), "ok")' <=> Accepted(e, m)'
    <2>1. SendOp(e, m) \in Issuable
      BY <1>1, IssuableOps
    <2>2. Told(SendOp(e, m), "ok") <=> Accepted(e, m)
      BY DEF TruthInv
    <2>3. Told(SendOp(e, m), "ok")' <=>
            Told(SendOp(e, m), "ok") \/ Completion(SendOp(e, m), "ok") \in K
      BY <2>1 DEF KeyTold, KeyOutcomes
    <2>4. QED
      BY <2>2, <2>3 DEF Truthful
  <1>3. ASSUME NEW e \in Ends, NEW n \in 1 .. ReceiveBudget[e], Told(ReceiveOp(e, n), "end")'
        PROVE  closed' /\ queues'[Peer(e)] = <<>>
    <2>1. ReceiveOp(e, n) \in Issuable
      BY <1>1, IssuableOps
    <2>2. Told(ReceiveOp(e, n), "end") \/ Completion(ReceiveOp(e, n), "end") \in K
      BY <1>3, <2>1 DEF KeyTold, KeyOutcomes
    <2>3. Told(ReceiveOp(e, n), "end") => closed /\ queues[Peer(e)] = <<>>
      BY DEF TruthInv
    <2>4. QED
      BY <2>2, <2>3 DEF Truthful
  <1>4. ASSUME NEW op \in Issuable, Told(op, "timeout")'
        PROVE  op \in bounded'
    <2>1. Told(op, "timeout") \/ Completion(op, "timeout") \in K
      BY <1>4 DEF KeyTold, KeyOutcomes
    <2>2. Told(op, "timeout") => op \in bounded
      BY DEF TruthInv
    <2>3. QED
      BY <2>1, <2>2 DEF Truthful
  <1>5. QED
    BY <1>2, <1>3, <1>4 DEF TruthInv

\* Outcomes that no property depends on may be left out of what is told.
LEMMA KeyOnly ==
    ASSUME NEW N, NewlyTold(N), NEW K,
           \A op, out : out \in KeyOutcomes => (Completion(op, out) \in N <=> Completion(op, out) \in K)
    PROVE  KeyTold(K)
  BY DEF NewlyTold, KeyTold, KeyOutcomes, Outcomes

\* A send is settled with its outcome, alone or together with the parked
\* receive that was handed its message.
SendSettles(s, out) ==
    \/ ReceiveMove({}, {}, {}) /\ Tells({Completion(s, out)})
    \/ \E r \in WaitingReceives :
         /\ ReceiveMove({}, {r}, {})
         /\ Tells({Completion(r, "message"), Completion(s, out)})

\* A receive is settled with a message, alone or together with the parked
\* send that took the slot it freed.
ReceiveTakes(r, S) ==
    \/ S = {} /\ SendMove({}, {}, {}) /\ Tells({Completion(r, "message")})
    \/ \E s \in WaitingSends :
         /\ S = {s}
         /\ SendMove({}, {s}, {})
         /\ Tells({Completion(s, "ok"), Completion(r, "message")})

\* HandOver settles the send it carries, and the receive it completes.
LEMMA HandOverSettles ==
    ASSUME TypeOK, TypeOK', CompletionInv, NEW e \in Ends, NEW m \in Messages,
           SendOp(e, m) \in Issuable, ~Owing(SendOp(e, m)), HandOver(e, m),
           UNCHANGED <<receives, blocked_receivers>>
    PROVE  SendSettles(SendOp(e, m), "ok")
  <1> DEFINE p == Peer(e)
             r == ReceiveOp(p, pending_receive[p])
             s == SendOp(e, m)
  <1>0. p \in Ends /\ ReceiveWaitInv /\ DebtInv /\ OnceInv
    BY PeerEnds DEF CompletionInv
  <1>1. CASE pending_receive[p] # None
    <2>1. /\ pending_receive' = [pending_receive EXCEPT ![p] = None]
          /\ Owe(<<Completion(r, "message"), Completion(s, "ok")>>) /\ UNCHANGED log
      BY <1>1, Zenon DEF HandOver
    <2>2. ReceiveMove({}, {r}, {}) /\ r \in Issuable
      BY <1>0, <1>1, <2>1, ReceiveTaken
    <2>3. r \in WaitingReceives
      BY <2>2 DEF ReceiveMove
    <2>4. ~Owing(r) /\ r # s
      BY <1>0, <2>2, <2>3, Unowed, OpEqual
    <2> HIDE DEF r, s, p
    <2>5. Tells({Completion(r, "message"), Completion(s, "ok")})
      <3>1. s \in Issuable /\ ~Owing(s)
        BY DEF s
      <3>2. QED
        BY <1>0, <2>1, <2>2, <2>4, <3>1, TellsTwo DEF Outcomes
    <2>6. QED
      BY <2>2, <2>3, <2>5 DEF SendSettles, s
  <1>2. CASE pending_receive[p] = None
    <2>1. Report(s, "ok") /\ UNCHANGED <<pending_receive, owed>>
      BY <1>2, Zenon DEF HandOver
    <2>2. ReceiveMove({}, {}, {})
      BY <1>0, <2>1, ReceiveQuiet
    <2>3. Tells({Completion(s, "ok")})
      BY <1>0, <2>1, TellsReport DEF Outcomes
    <2>4. QED
      BY <2>2, <2>3 DEF SendSettles
  <1>3. QED
    BY <1>1, <1>2

\* TakeFront settles the receive it feeds, and the send it absorbs.
LEMMA TakeFrontSettles ==
    ASSUME TypeOK, TypeOK', CompletionInv, NEW e \in Ends, NEW n \in Nat,
           ReceiveOp(e, n) \in Issuable, ~Owing(ReceiveOp(e, n)), TakeFront(e, n),
           UNCHANGED <<sends, blocked_senders>>
    PROVE  LET p == Peer(e)
               absorb == pending_send[p] # None /\ Len(Tail(queues[p])) < Depth
           IN  ReceiveTakes(ReceiveOp(e, n), IF absorb THEN {SendOp(p, pending_send[p])} ELSE {})
  <1> DEFINE p == Peer(e)
             absorb == pending_send[p] # None /\ Len(Tail(queues[p])) < Depth
             r == ReceiveOp(e, n)
             s == SendOp(p, pending_send[p])
  <1>0. p \in Ends /\ SendWaitInv /\ DebtInv /\ OnceInv
    BY PeerEnds DEF CompletionInv
  <1>1. CASE absorb
    <2>1. /\ pending_send' = [pending_send EXCEPT ![p] = None]
          /\ Owe(<<Completion(s, "ok"), Completion(r, "message")>>) /\ UNCHANGED log
      BY <1>1, Zenon DEF TakeFront
    <2>2. SendMove({}, {s}, {}) /\ s \in Issuable
      BY <1>0, <1>1, <2>1, SendTaken
    <2>3. s \in WaitingSends
      BY <2>2 DEF SendMove
    <2>4. ~Owing(s) /\ r # s
      BY <1>0, <2>2, <2>3, Unowed, OpEqual
    <2>r. r \in Issuable /\ ~Owing(r)
      OBVIOUS
    <2> HIDE DEF r, s, p
    <2>5. Tells({Completion(s, "ok"), Completion(r, "message")})
      BY <1>0, <2>1, <2>2, <2>4, <2>r, TellsTwo DEF Outcomes
    <2>6. ReceiveTakes(r, {s})
      BY <2>2, <2>3, <2>5 DEF ReceiveTakes
    <2>7. QED
      BY <1>1, <2>6, Zenon DEF r, s, p
  <1>2. CASE ~absorb
    <2>1. Report(r, "message") /\ UNCHANGED <<pending_send, owed>>
      BY <1>2, Zenon DEF TakeFront
    <2>2. SendMove({}, {}, {})
      BY <1>0, <2>1, SendQuiet
    <2>3. Tells({Completion(r, "message")})
      BY <1>0, <2>1, TellsReport DEF Outcomes
    <2>4. ReceiveTakes(r, {})
      BY <2>2, <2>3 DEF ReceiveTakes
    <2>5. QED
      BY <1>2, <2>4, Zenon
  <1>3. QED
    BY <1>1, <1>2

\* A send that is issued or released, and settled, keeps the account.
LEMMA SettledSend ==
    ASSUME TypeOK, TypeOK', CompletionInv, NEW s, NEW out,
           SendMove({s}, {}, {}) \/ SendMove({}, {s}, {}), SendSettles(s, out)
    PROVE  CompletionInv' /\ KeyTold({Completion(s, out)})
  <1>0. OnceInv
    BY DEF CompletionInv
  <1>1. CASE ReceiveMove({}, {}, {}) /\ Tells({Completion(s, out)})
    <2>1. OpsOf({Completion(s, out)}) = {s}
      BY CompletionFields DEF OpsOf
    <2>2. CompletionInv'
      <3>1. CASE SendMove({s}, {}, {})
        BY <1>0, <1>1, <2>1, <3>1, Balance
      <3>2. CASE SendMove({}, {s}, {})
        BY <1>0, <1>1, <2>1, <3>2, Balance
      <3>3. QED
        BY <3>1, <3>2
    <2>3. KeyTold({Completion(s, out)})
      BY <1>1, KeyOnly DEF Tells
    <2>4. QED
      BY <2>2, <2>3
  <1>2. ASSUME NEW r \in WaitingReceives, ReceiveMove({}, {r}, {}),
               Tells({Completion(r, "message"), Completion(s, out)})
        PROVE  CompletionInv' /\ KeyTold({Completion(s, out)})
    <2>1. OpsOf({Completion(r, "message"), Completion(s, out)}) = {r, s}
      BY CompletionFields DEF OpsOf
    <2>2. CompletionInv'
      <3>1. CASE SendMove({s}, {}, {})
        BY <1>0, <1>2, <2>1, <3>1, Balance
      <3>2. CASE SendMove({}, {s}, {})
        BY <1>0, <1>2, <2>1, <3>2, Balance
      <3>3. QED
        BY <3>1, <3>2
    <2>3. \A op, o : o \in KeyOutcomes =>
             (Completion(op, o) \in {Completion(r, "message"), Completion(s, out)}
                <=> Completion(op, o) \in {Completion(s, out)})
      BY CompletionFields DEF KeyOutcomes
    <2>4. KeyTold({Completion(s, out)})
      BY <1>2, <2>3, KeyOnly DEF Tells
    <2>5. QED
      BY <2>2, <2>4
  <1>3. QED
    BY <1>1, <1>2 DEF SendSettles

\* The same for a receive that takes a message.
LEMMA SettledReceive ==
    ASSUME TypeOK, TypeOK', CompletionInv, NEW r, NEW S,
           ReceiveMove({r}, {}, {}) \/ ReceiveMove({}, {r}, {}), ReceiveTakes(r, S)
    PROVE  CompletionInv' /\ KeyTold({Completion(s, "ok") : s \in S})
  <1>0. OnceInv
    BY DEF CompletionInv
  <1>1. CASE S = {} /\ SendMove({}, {}, {}) /\ Tells({Completion(r, "message")})
    <2>1. OpsOf({Completion(r, "message")}) = {r}
      BY CompletionFields DEF OpsOf
    <2>2. CompletionInv'
      <3>1. CASE ReceiveMove({r}, {}, {})
        BY <1>0, <1>1, <2>1, <3>1, Balance
      <3>2. CASE ReceiveMove({}, {r}, {})
        BY <1>0, <1>1, <2>1, <3>2, Balance
      <3>3. QED
        BY <3>1, <3>2
    <2>3. \A op, o : o \in KeyOutcomes =>
             (Completion(op, o) \in {Completion(r, "message")} <=> Completion(op, o) \in {})
      BY CompletionFields DEF KeyOutcomes
    <2>4. KeyTold({})
      BY <1>1, <2>3, KeyOnly DEF Tells
    <2>5. {Completion(s, "ok") : s \in S} = {}
      BY <1>1
    <2>6. QED
      BY <2>2, <2>4, <2>5
  <1>2. ASSUME NEW s \in WaitingSends, S = {s}, SendMove({}, {s}, {}),
               Tells({Completion(s, "ok"), Completion(r, "message")})
        PROVE  CompletionInv' /\ KeyTold({Completion(x, "ok") : x \in S})
    <2>1. OpsOf({Completion(s, "ok"), Completion(r, "message")}) = {r, s}
      BY CompletionFields DEF OpsOf
    <2>2. CompletionInv'
      <3>1. CASE ReceiveMove({r}, {}, {})
        BY <1>0, <1>2, <2>1, <3>1, Balance
      <3>2. CASE ReceiveMove({}, {r}, {})
        BY <1>0, <1>2, <2>1, <3>2, Balance
      <3>3. QED
        BY <3>1, <3>2
    <2>3. \A op, o : o \in KeyOutcomes =>
             (Completion(op, o) \in {Completion(s, "ok"), Completion(r, "message")}
                <=> Completion(op, o) \in {Completion(s, "ok")})
      BY CompletionFields DEF KeyOutcomes
    <2>4. KeyTold({Completion(s, "ok")})
      BY <1>2, <2>3, KeyOnly DEF Tells
    <2>5. {Completion(x, "ok") : x \in S} = {Completion(s, "ok")}
      BY <1>2
    <2>6. QED
      BY <2>2, <2>4, <2>5
  <1>3. QED
    BY <1>1, <1>2 DEF ReceiveTakes

\* One more message is accepted.
LEMMA AcceptedAppend ==
    ASSUME TypeOK, NEW e \in Ends, NEW m \in Messages,
           committed' = [committed EXCEPT ![e] = Append(@, m)]
    PROVE  \A x \in Ends : \A k : Accepted(x, k)' <=> Accepted(x, k) \/ (x = e /\ k = m)
  <1> SUFFICES ASSUME NEW x \in Ends, NEW k
               PROVE  Accepted(x, k)' <=> Accepted(x, k) \/ (x = e /\ k = m)
    OBVIOUS
  <1>1. committed[x] \in Seq(Messages)
    BY DEF TypeOK, Messages
  <1>2. CASE x = e
    <2>1. committed'[x] = Append(committed[x], m)
      BY <1>2 DEF TypeOK
    <2>2. /\ Len(committed'[x]) = Len(committed[x]) + 1 /\ Len(committed[x]) \in Nat
          /\ committed'[x][Len(committed[x]) + 1] = m
          /\ \A i \in 1 .. Len(committed[x]) : committed'[x][i] = committed[x][i]
      BY <1>1, <2>1
    <2>3. QED
      BY <1>2, <2>2 DEF Accepted
  <1>3. CASE x # e
    <2>1. committed'[x] = committed[x]
      BY <1>3 DEF TypeOK
    <2>2. QED
      BY <1>3, <2>1 DEF Accepted
  <1>4. QED
    BY <1>2, <1>3

\* A message handed over is accepted, and its send told so.
LEMMA HandOverTruthful ==
    ASSUME TypeOK, NEW e \in Ends, NEW m \in Messages, HandOver(e, m), ~closed,
           bounded \subseteq bounded'
    PROVE  Truthful({Completion(SendOp(e, m), "ok")})
  <1>1. committed' = [committed EXCEPT ![e] = Append(@, m)]
    BY Zenon DEF HandOver
  <1>2. \A x \in Ends : \A k : Accepted(x, k)' <=> Accepted(x, k) \/ (x = e /\ k = m)
    BY <1>1, AcceptedAppend
  <1>3. \A x \in Ends : \A k : /\ Completion(SendOp(x, k), "ok") \in {Completion(SendOp(e, m), "ok")}
                                    <=> x = e /\ k = m
                               /\ Completion(ReceiveOp(x, k), "end") \notin {Completion(SendOp(e, m), "ok")}
    BY CompletionFields, OpEqual
  <1>4. \A op : Completion(op, "timeout") \notin {Completion(SendOp(e, m), "ok")}
    BY CompletionFields
  <1>5. QED
    BY <1>2, <1>3, <1>4 DEF Truthful

\* A message taken accepts the parked send that takes its slot, and nothing
\* is accepted after the close.
LEMMA TakeFrontTruthful ==
    ASSUME Inv, NEW e \in Ends, NEW n \in Nat, queues[Peer(e)] # <<>>, TakeFront(e, n),
           UNCHANGED closed, bounded \subseteq bounded', NEW S,
           LET p == Peer(e)
               absorb == pending_send[p] # None /\ Len(Tail(queues[p])) < Depth
           IN  S = IF absorb THEN {SendOp(p, pending_send[p])} ELSE {}
    PROVE  Truthful({Completion(s, "ok") : s \in S})
  <1> DEFINE p == Peer(e)
             absorb == pending_send[p] # None /\ Len(Tail(queues[p])) < Depth
             K == {Completion(s, "ok") : s \in S}
  <1>0. p \in Ends /\ TypeOK /\ (pending_send[p] # None => ~closed)
    BY PeerEnds DEF Inv, ParkedSlots
  <1>1. /\ \A op : Completion(op, "timeout") \notin K /\ Completion(op, "end") \notin K
        /\ \A op : Completion(op, "ok") \in K <=> op \in S
    BY CompletionFields
  <1>2. CASE absorb
    <2>1. /\ committed' = [committed EXCEPT ![p] = Append(@, pending_send[p])]
          /\ pending_send[p] \in Messages /\ ~closed /\ S = {SendOp(p, pending_send[p])}
      <3>1. committed' = [committed EXCEPT ![p] = Append(@, pending_send[p])]
        BY <1>2, Zenon DEF TakeFront
      <3>2. pending_send[p] \in Messages
        BY <1>0, <1>2 DEF TypeOK, Messages, None
      <3>3. QED
        BY <1>0, <1>2, <3>1, <3>2
    <2>2. \A x \in Ends : \A k : Accepted(x, k)' <=> Accepted(x, k) \/ (x = p /\ k = pending_send[p])
      BY <1>0, <2>1, AcceptedAppend
    <2>3. \A x \in Ends : \A k : SendOp(x, k) \in S <=> x = p /\ k = pending_send[p]
      BY <2>1, OpEqual, SMTT(30)
    <2> HIDE DEF K
    <2>4. QED
      BY <1>1, <2>1, <2>2, <2>3 DEF Truthful, K
  <1>3. CASE ~absorb
    <2>1. /\ queues' = [queues EXCEPT ![p] = Tail(queues[p])] /\ committed' = committed /\ S = {}
      BY <1>3, Zenon DEF TakeFront
    <2>2. \A x \in Ends : \A k : Accepted(x, k)' <=> Accepted(x, k)
      BY <2>1 DEF Accepted
    <2>3. \A x \in Ends : queues[Peer(x)] = <<>> => queues'[Peer(x)] = <<>>
      BY <1>0, <2>1, PeerEnds DEF TypeOK
    <2> HIDE DEF K
    <2>4. QED
      BY <1>1, <2>1, <2>2, <2>3 DEF Truthful, K
  <1>4. QED
    BY <1>2, <1>3

\* Outcomes given without a message moving.
LEMMA QuietTruthful ==
    ASSUME UNCHANGED <<committed, queues>>, closed => closed', bounded \subseteq bounded', NEW K,
           \A op : Completion(op, "ok") \notin K,
           \A e \in Ends : \A n \in 1 .. ReceiveBudget[e] :
              Completion(ReceiveOp(e, n), "end") \in K => closed' /\ queues[Peer(e)] = <<>>,
           \A op \in Issuable : Completion(op, "timeout") \in K => op \in bounded'
    PROVE  Truthful(K)
  BY DEF Truthful, Accepted

-----------------------------------------------------------------------------
\* A receive settled on its own, and an operation left waiting.
LEMMA ReceiveAlone ==
    ASSUME TypeOK, TypeOK', CompletionInv, NEW r, NEW out, SendMove({}, {}, {}),
           ReceiveMove({r}, {}, {}) \/ ReceiveMove({}, {r}, {}), Tells({Completion(r, out)})
    PROVE  CompletionInv' /\ KeyTold({Completion(r, out)})
  <1>0. OnceInv
    BY DEF CompletionInv
  <1>1. OpsOf({Completion(r, out)}) = {r}
    BY CompletionFields DEF OpsOf
  <1>2. CASE ReceiveMove({r}, {}, {})
    BY <1>0, <1>1, <1>2, Balance, KeyOnly DEF Tells
  <1>3. CASE ReceiveMove({}, {r}, {})
    BY <1>0, <1>1, <1>3, Balance, KeyOnly DEF Tells
  <1>4. QED
    BY <1>2, <1>3

\* A step that only starts operations which wait settles nothing.
LEMMA LeftWaiting ==
    ASSUME TypeOK, TypeOK', CompletionInv, NEW S, NEW R,
           SendMove(S, {}, S), ReceiveMove(R, {}, R), Tells({})
    PROVE  CompletionInv' /\ KeyTold({})
  <1>0. OnceInv
    BY DEF CompletionInv
  <1>1. OpsOf({}) = {}
    BY DEF OpsOf
  <1>2. CompletionInv'
    BY <1>0, <1>1, Balance
  <1>3. QED
    BY <1>2, KeyOnly DEF Tells

\* Send's critical section gives its send an outcome that is true.
LEMMA FinishSendSettles ==
    ASSUME Inv, TypeOK', CompletionInv, TruthInv, NEW e \in Ends, NEW m \in Messages,
           SendOp(e, m) \in Issuable, ~Owing(SendOp(e, m)), FinishSend(e, m),
           SendMove({SendOp(e, m)}, {}, {}) \/ SendMove({}, {SendOp(e, m)}, {}),
           UNCHANGED <<receives, blocked_receivers, closed, bounded>>
    PROVE  CompletionInv' /\ TruthInv'
  <1> DEFINE s == SendOp(e, m)
  <1>0. TypeOK /\ DebtInv /\ ReceiveWaitInv
    BY DEF Inv, CompletionInv
  <1>1. CASE closed
    <2>1. Report(s, "transport") /\ UNCHANGED <<queues, pending_receive, committed, owed>>
      BY <1>1, Zenon DEF FinishSend
    <2>2. ReceiveMove({}, {}, {})
      BY <1>0, <2>1, ReceiveQuiet
    <2>3. Tells({Completion(s, "transport")})
      BY <1>0, <2>1, TellsReport DEF Outcomes
    <2>4. SendSettles(s, "transport")
      BY <2>2, <2>3 DEF SendSettles
    <2>5. CompletionInv' /\ KeyTold({Completion(s, "transport")})
      BY <1>0, <2>4, SettledSend
    <2>6. \A op : /\ Completion(op, "ok") \notin {Completion(s, "transport")}
                  /\ Completion(op, "end") \notin {Completion(s, "transport")}
                  /\ Completion(op, "timeout") \notin {Completion(s, "transport")}
      BY CompletionFields
    <2>7. Truthful({Completion(s, "transport")})
      BY <2>1, <2>6, QuietTruthful
    <2>8. QED
      BY <2>5, <2>7, TruthStep
  <1>2. CASE ~closed
    <2>1. HandOver(e, m)
      BY <1>2, Zenon DEF FinishSend
    <2>2. SendSettles(s, "ok")
      BY <1>0, <2>1, HandOverSettles
    <2>3. CompletionInv' /\ KeyTold({Completion(s, "ok")})
      BY <1>0, <2>2, SettledSend
    <2>4. Truthful({Completion(s, "ok")})
      BY <1>0, <1>2, <2>1, HandOverTruthful
    <2>5. QED
      BY <2>3, <2>4, TruthStep
  <1>3. QED
    BY <1>1, <1>2

\* A message taken from the queue completes the receive truthfully.
LEMMA TakeSettles ==
    ASSUME Inv, TypeOK', CompletionInv, TruthInv, NEW e \in Ends, NEW n \in Nat,
           ReceiveOp(e, n) \in Issuable, ~Owing(ReceiveOp(e, n)),
           queues[Peer(e)] # <<>>, TakeFront(e, n),
           ReceiveMove({ReceiveOp(e, n)}, {}, {}) \/ ReceiveMove({}, {ReceiveOp(e, n)}, {}),
           UNCHANGED <<sends, blocked_senders, closed>>, bounded \subseteq bounded'
    PROVE  CompletionInv' /\ TruthInv'
  <1> DEFINE p == Peer(e)
             absorb == pending_send[p] # None /\ Len(Tail(queues[p])) < Depth
             T == IF absorb THEN {SendOp(p, pending_send[p])} ELSE {}
             r == ReceiveOp(e, n)
  <1>0. TypeOK
    BY DEF Inv
  <1>1. ReceiveTakes(r, T)
    BY <1>0, TakeFrontSettles
  <1>2. PICK S : S = T
    OBVIOUS
  <1>3. CompletionInv' /\ KeyTold({Completion(s, "ok") : s \in S})
    <2> HIDE DEF T
    <2>1. ReceiveTakes(r, S)
      BY <1>1, <1>2
    <2>2. QED
      BY <1>0, <2>1, SettledReceive
  <1>4. Truthful({Completion(s, "ok") : s \in S})
    BY <1>2, TakeFrontTruthful
  <1>5. QED
    BY <1>3, <1>4, TruthStep

\* Receive's critical section: the end after a close, or a message.
LEMMA FinishReceiveSettles ==
    ASSUME Inv, TypeOK', CompletionInv, TruthInv, NEW e \in Ends, NEW n \in Nat,
           ReceiveOp(e, n) \in Issuable, ~Owing(ReceiveOp(e, n)), FinishReceive(e, n), Arrived(e),
           ReceiveMove({ReceiveOp(e, n)}, {}, {}) \/ ReceiveMove({}, {ReceiveOp(e, n)}, {}),
           UNCHANGED <<sends, blocked_senders, closed>>, bounded \subseteq bounded'
    PROVE  CompletionInv' /\ TruthInv'
  <1> DEFINE r == ReceiveOp(e, n)
  <1>0. TypeOK /\ DebtInv /\ SendWaitInv
    BY DEF Inv, CompletionInv
  <1>1. CASE queues[Peer(e)] = <<>>
    <2>1. /\ Report(r, "end") /\ closed
          /\ UNCHANGED <<queues, pending_send, committed, owed>>
      BY <1>1, Zenon DEF FinishReceive, Arrived
    <2>2. SendMove({}, {}, {})
      BY <1>0, <2>1, SendQuiet
    <2>3. Tells({Completion(r, "end")})
      BY <1>0, <2>1, TellsReport DEF Outcomes
    <2>4. CompletionInv' /\ KeyTold({Completion(r, "end")})
      BY <1>0, <2>2, <2>3, ReceiveAlone
    <2>5. /\ \A op : /\ Completion(op, "ok") \notin {Completion(r, "end")}
                     /\ Completion(op, "timeout") \notin {Completion(r, "end")}
          /\ \A x, k : Completion(ReceiveOp(x, k), "end") \in {Completion(r, "end")} => x = e
      BY CompletionFields, OpEqual
    <2>6. Truthful({Completion(r, "end")})
      BY <1>1, <2>1, <2>5, QuietTruthful
    <2>7. QED
      BY <2>4, <2>6, TruthStep
  <1>2. CASE queues[Peer(e)] # <<>>
    <2>1. TakeFront(e, n)
      BY <1>2, Zenon DEF FinishReceive
    <2>2. QED
      BY <1>2, <2>1, TakeSettles
  <1>3. QED
    BY <1>1, <1>2

\* Nothing that matters is told and no message moves.
LEMMA QuietTold ==
    ASSUME TruthInv, KeyTold({}), UNCHANGED <<committed, queues>>, closed => closed',
           bounded \subseteq bounded'
    PROVE  TruthInv'
  <1>1. Truthful({})
    BY QuietTruthful
  <1>2. QED
    BY <1>1, TruthStep

\* Lists one after the other.
LEMMA ConcatOnce ==
    ASSUME NEW a \in Seq(Completions), NEW b \in Seq(Completions), OncePerOp(a), OncePerOp(b),
           \A x \in Entries(a), y \in Entries(b) : x.op # y.op
    PROVE  /\ a \o b \in Seq(Completions) /\ OncePerOp(a \o b)
           /\ Entries(a \o b) = Entries(a) \cup Entries(b)
  <1> DEFINE q == a \o b
  <1>1. /\ q \in Seq(Completions) /\ Len(q) = Len(a) + Len(b) /\ Len(a) \in Nat /\ Len(b) \in Nat
        /\ \A i \in 1 .. Len(a) : q[i] = a[i]
        /\ \A i \in 1 .. Len(b) : q[Len(a) + i] = b[i]
    OBVIOUS
  <1> HIDE DEF q
  <1>2. \A i \in 1 .. Len(q) :
          \/ i \in 1 .. Len(a) /\ q[i] = a[i]
          \/ i - Len(a) \in 1 .. Len(b) /\ q[i] = b[i - Len(a)]
    <2> SUFFICES ASSUME NEW i \in 1 .. Len(q)
                 PROVE  \/ i \in 1 .. Len(a) /\ q[i] = a[i]
                        \/ i - Len(a) \in 1 .. Len(b) /\ q[i] = b[i - Len(a)]
      OBVIOUS
    <2>1. CASE i <= Len(a)
      BY <1>1, <2>1
    <2>2. CASE ~(i <= Len(a))
      <3>1. i - Len(a) \in 1 .. Len(b) /\ Len(a) + (i - Len(a)) = i
        BY <1>1, <2>2
      <3>2. QED
        BY <1>1, <3>1
    <2>3. QED
      BY <2>1, <2>2
  <1>3. Entries(q) = Entries(a) \cup Entries(b)
    <2>1. Entries(q) \subseteq Entries(a) \cup Entries(b)
      BY <1>2 DEF Entries
    <2>2. Entries(a) \subseteq Entries(q)
      <3>1. \A i \in 1 .. Len(a) : i \in 1 .. Len(q)
        BY <1>1
      <3>2. QED
        BY <1>1, <3>1 DEF Entries
    <2>3. Entries(b) \subseteq Entries(q)
      <3>1. \A i \in 1 .. Len(b) : Len(a) + i \in 1 .. Len(q)
        BY <1>1
      <3>2. QED
        BY <1>1, <3>1 DEF Entries
    <2>4. QED
      BY <2>1, <2>2, <2>3
  <1>4. OncePerOp(q)
    <2> SUFFICES ASSUME NEW i \in 1 .. Len(q), NEW j \in 1 .. Len(q), q[i].op = q[j].op
                 PROVE  i = j
      BY DEF OncePerOp
    <2>1. CASE i \in 1 .. Len(a) /\ q[i] = a[i] /\ j \in 1 .. Len(a) /\ q[j] = a[j]
      BY <2>1 DEF OncePerOp
    <2>2. CASE /\ i - Len(a) \in 1 .. Len(b) /\ q[i] = b[i - Len(a)]
               /\ j - Len(a) \in 1 .. Len(b) /\ q[j] = b[j - Len(a)]
      <3>1. i - Len(a) = j - Len(a)
        BY <2>2 DEF OncePerOp
      <3>2. QED
        BY <1>1, <3>1
    <2>3. CASE \/ i \in 1 .. Len(a) /\ q[i] = a[i] /\ j - Len(a) \in 1 .. Len(b) /\ q[j] = b[j - Len(a)]
               \/ j \in 1 .. Len(a) /\ q[j] = a[j] /\ i - Len(a) \in 1 .. Len(b) /\ q[i] = b[i - Len(a)]
      BY <2>3 DEF Entries
    <2>4. QED
      BY <1>2, <2>1, <2>2, <2>3
  <1>5. QED
    BY <1>1, <1>3, <1>4 DEF q

\* A parked operation's completion is one entry, an empty slot's none.
LEMMA ParkedEntry ==
    ASSUME NEW op, NEW out
    PROVE  /\ OncePerOp(Parked(op, out))
           /\ Entries(Parked(op, out)) = IF op.n = None THEN {} ELSE {Completion(op, out)}
  <1>1. CASE op.n = None
    <2>1. Parked(op, out) = <<>>
      BY <1>1 DEF Parked
    <2>2. QED
      BY <1>1, <2>1, EntriesOf DEF OncePerOp
  <1>2. CASE op.n # None
    <2>1. Parked(op, out) = <<Completion(op, out)>>
      BY <1>2 DEF Parked
    <2>2. QED
      BY <1>2, <2>1, EntriesOf DEF OncePerOp
  <1>3. QED
    BY <1>1, <1>2

\* What a close completes: every parked operation, each once.
LEMMA TerminalEntries ==
    ASSUME TypeOK, NEW e \in Ends
    PROVE  /\ TerminalWaiters(e) \in Seq(Completions) /\ OncePerOp(TerminalWaiters(e))
           /\ \A x : x \in Entries(TerminalWaiters(e)) <=>
                \/ pending_send[e] # None /\ x = Completion(SendOp(e, pending_send[e]), "transport")
                \/ pending_receive[e] # None /\ x = Completion(ReceiveOp(e, pending_receive[e]), "end")
  <1> DEFINE s == SendOp(e, pending_send[e])
             r == ReceiveOp(e, pending_receive[e])
             a == Parked(s, "transport")
             b == Parked(r, "end")
  <1>1. a \in Seq(Completions) /\ b \in Seq(Completions)
    BY CompletionType DEF TypeOK, Outcomes
  <1>2. s.n = pending_send[e] /\ r.n = pending_receive[e] /\ s # r
    BY OpFields, OpEqual
  <1> HIDE DEF s, r
  <1>3. /\ OncePerOp(a) /\ Entries(a) = IF s.n = None THEN {} ELSE {Completion(s, "transport")}
        /\ OncePerOp(b) /\ Entries(b) = IF r.n = None THEN {} ELSE {Completion(r, "end")}
    BY ParkedEntry
  <1>4. \A x \in Entries(a), y \in Entries(b) : x.op # y.op
    BY <1>2, <1>3, CompletionFields
  <1>5. TerminalWaiters(e) = a \o b
    BY DEF TerminalWaiters, s, r
  <1> HIDE DEF a, b
  <1>6. /\ a \o b \in Seq(Completions) /\ OncePerOp(a \o b)
        /\ Entries(a \o b) = Entries(a) \cup Entries(b)
    BY <1>1, <1>3, <1>4, ConcatOnce
  <1>7. \A x : x \in Entries(a \o b) <=>
                \/ pending_send[e] # None /\ x = Completion(s, "transport")
                \/ pending_receive[e] # None /\ x = Completion(r, "end")
    BY <1>2, <1>3, <1>6
  <1>8. QED
    BY <1>5, <1>6, <1>7 DEF s, r

\* Close or Kick: every parked operation of both ends is settled, and a
\* receive is told the end only when nothing is left for it.
LEMMA EndSettles ==
    ASSUME Inv, TypeOK', CompletionInv, TruthInv, NEW e \in Ends, NEW why \in CloseReasons, End(e, why)
    PROVE  CompletionInv' /\ TruthInv'
  <1> DEFINE a == TerminalWaiters(0)
             b == TerminalWaiters(1)
             N == Entries(a \o b)
  <1>0. TypeOK /\ DebtInv /\ OnceInv /\ SendWaitInv /\ ReceiveWaitInv /\ 0 \in Ends /\ 1 \in Ends
    BY DEF Inv, CompletionInv, Ends
  <1>1. /\ Owe(a \o b) /\ closed' = TRUE
        /\ pending_send' = [x \in Ends |-> None] /\ pending_receive' = [x \in Ends |-> None]
        /\ UNCHANGED <<queues, blocked_receivers, blocked_senders, sends, receives, bounded, committed, log>>
    BY Zenon DEF End
  <1>2. SendMove({}, ParkedSends, {}) /\ ParkedSends \subseteq Issuable
    BY <1>0, <1>1, SendsEnded
  <1>3. ReceiveMove({}, ParkedReceives, {}) /\ ParkedReceives \subseteq Issuable
    BY <1>0, <1>1, ReceivesEnded
  <1>4. \A x \in Ends :
          /\ TerminalWaiters(x) \in Seq(Completions) /\ OncePerOp(TerminalWaiters(x))
          /\ \A y : y \in Entries(TerminalWaiters(x)) <=>
                \/ pending_send[x] # None /\ y = Completion(SendOp(x, pending_send[x]), "transport")
                \/ pending_receive[x] # None /\ y = Completion(ReceiveOp(x, pending_receive[x]), "end")
    BY <1>0, TerminalEntries
  <1>5. \A x \in Entries(a), y \in Entries(b) : x.op # y.op
    BY <1>0, <1>4, CompletionFields, OpEqual
  <1>6. a \o b \in Seq(Completions) /\ OncePerOp(a \o b) /\ N = Entries(a) \cup Entries(b)
    BY <1>0, <1>4, <1>5, ConcatOnce
  <1>7. \A y : y \in N <=> \E x \in Ends :
                \/ pending_send[x] # None /\ y = Completion(SendOp(x, pending_send[x]), "transport")
                \/ pending_receive[x] # None /\ y = Completion(ReceiveOp(x, pending_receive[x]), "end")
    BY <1>4, <1>6 DEF Ends
  <1>8. \A y \in N : y.op \in ParkedSends \/ y.op \in ParkedReceives
    BY <1>7, CompletionFields DEF ParkedSends, ParkedReceives
  <1>9. \A y \in N : y.op \in Issuable /\ ~Owing(y.op)
    <2>1. \A op \in ParkedSends \cup ParkedReceives : op \in Issuable /\ op \in WaitingSends \cup WaitingReceives
      BY <1>2, <1>3 DEF SendMove, ReceiveMove
    <2>2. QED
      BY <1>0, <1>8, <2>1, Unowed
  <1> HIDE DEF N
  <1>10. Tells(N)
    BY <1>0, <1>1, <1>6, <1>9, TellsOwe DEF N
  <1>11. OpsOf(N) = ParkedSends \cup ParkedReceives
    <2>1. \A op \in ParkedSends \cup ParkedReceives : \E y \in N : y.op = op
      BY <1>7, CompletionFields DEF ParkedSends, ParkedReceives
    <2>2. QED
      BY <1>8, <2>1 DEF OpsOf
  <1>12. CompletionInv'
    BY <1>0, <1>2, <1>3, <1>10, <1>11, Balance
  <1>13. KeyTold(N)
    BY <1>10, KeyOnly DEF Tells
  <1>14. \A op : Completion(op, "ok") \notin N /\ Completion(op, "timeout") \notin N
    BY <1>7, CompletionFields
  <1>15. ASSUME NEW x \in Ends, NEW n, Completion(ReceiveOp(x, n), "end") \in N
         PROVE  queues[Peer(x)] = <<>>
    <2>1. pending_receive[x] # None
      BY <1>7, <1>15, CompletionFields, OpEqual
    <2>2. QED
      BY <2>1 DEF Inv, ParkedSlots
  <1>16. Truthful(N)
    BY <1>1, <1>14, <1>15, QuietTruthful
  <1>17. QED
    BY <1>12, <1>13, <1>16, TruthStep

\* A thread runs the completion it owes: the debt becomes a report.
LEMMA FireSettles ==
    ASSUME Inv, TypeOK', CompletionInv, TruthInv, Fire
    PROVE  CompletionInv' /\ TruthInv'
  <1>0. TypeOK /\ DebtInv /\ OnceInv /\ SendWaitInv /\ ReceiveWaitInv /\ owed \in SUBSET Debts
    BY DEF Inv, CompletionInv, TypeOK, Debts
  <1>1. PICK c \in owed :
          /\ log' = [log EXCEPT ![Head(c.todo).op] = Append(@, Head(c.todo).out)]
          /\ owed' = (owed \ {c}) \cup Shortened(c)
          /\ UNCHANGED <<sends, receives, bounded, committed, queues, closed, pending_send,
                         pending_receive, blocked_senders, blocked_receivers>>
    BY Zenon DEF Fire, Shortened, state
  <1>2. PICK h : h = Head(c.todo)
    OBVIOUS
  <1>3. /\ DebtInv' /\ h \in Promised /\ h \in Completions
        /\ Promised' = Promised \ {h} /\ \A x \in Promised' : x.op # h.op
    BY <1>0, <1>1, <1>2, DebtPaid
  <1>4. h.op \in Issuable /\ h.out \in Outcomes
    BY <1>0, <1>3, CompletionFields DEF DebtInv
  <1>5. \A op \in Issuable : log'[op] = IF op = h.op THEN Append(log[op], h.out) ELSE log[op]
    BY <1>0, <1>1, <1>2 DEF TypeOK
  <1>6. \A op \in Issuable : log[op] \in Seq(Outcomes)
    BY <1>0 DEF TypeOK
  <1>7. ASSUME NEW op \in Issuable, op # h.op
        PROVE  (Owing(op)' <=> Owing(op)) /\ log'[op] = log[op]
    BY <1>3, <1>5, <1>7 DEF Owing
  <1>8. Owing(h.op) /\ ~Owing(h.op)'
    BY <1>3 DEF Owing
  <1>9. /\ \A op \in Issuable : Started(op)' <=> Started(op)
        /\ \A op \in Issuable : Waiting(op)' <=> Waiting(op)
    BY <1>1 DEF Started, Waiting
  <1>10. OnceInv'
    <2> SUFFICES ASSUME NEW op \in Issuable
                 PROVE  Settled(Started(op)', Waiting(op)', Owing(op)', Len(log'[op]))
      BY DEF OnceInv, Settled
    <2>1. Settled(Started(op), Waiting(op), Owing(op), Len(log[op]))
      BY <1>0 DEF OnceInv
    <2>2. CASE op # h.op
      BY <1>7, <1>9, <2>1, <2>2 DEF Settled
    <2>3. CASE op = h.op
      <3>1. Started(op) /\ ~Waiting(op) /\ Len(log[op]) = 0
        BY <1>8, <2>1, <2>3 DEF Settled
      <3>2. Len(log'[op]) = 1
        <4>1. log'[op] = Append(log[op], h.out) /\ log[op] \in Seq(Outcomes)
          BY <1>5, <1>6, <2>3
        <4>2. QED
          BY <3>1, <4>1
      <3>3. QED
        BY <1>8, <1>9, <2>3, <3>1, <3>2 DEF Settled
    <2>4. QED
      BY <2>2, <2>3
  <1>11. KeyTold({})
    <2>1. ToldByLogOrDebt /\ ToldByLogOrDebt'
      BY <1>0, ToldMeans, PTL
    <2> SUFFICES ASSUME NEW op \in Issuable, NEW out \in KeyOutcomes
                 PROVE  Told(op, out)' <=> Told(op, out)
      BY DEF KeyTold
    <2>2. out \in Outcomes
      BY DEF KeyOutcomes, Outcomes
    <2>3. Told(op, out) <=> \/ \E i \in 1 .. Len(log[op]) : log[op][i] = out
                            \/ \E x \in Promised : x.op = op /\ x.out = out
      BY <2>1, <2>2 DEF ToldByLogOrDebt
    <2>4. Told(op, out)' <=> \/ \E i \in 1 .. Len(log'[op]) : log'[op][i] = out
                             \/ \E x \in Promised' : x.op = op /\ x.out = out
      BY <2>1, <2>2 DEF ToldByLogOrDebt
    <2>5. CASE op # h.op
      <3>1. log'[op] = log[op]
        BY <1>7, <2>5
      <3>2. (\E x \in Promised' : x.op = op /\ x.out = out)
              <=> (\E x \in Promised : x.op = op /\ x.out = out)
        BY <1>3, <2>5
      <3>3. QED
        BY <2>3, <2>4, <3>1, <3>2
    <2>6. CASE op = h.op
      <3>1. Settled(Started(op), Waiting(op), Owing(op), Len(log[op]))
        BY <1>0 DEF OnceInv
      <3>2. log[op] = <<>>
        BY <1>6, <1>8, <2>6, <3>1 DEF Settled
      <3>3. log'[op] = <<h.out>>
        <4>1. log'[op] = Append(log[op], h.out)
          BY <1>5, <2>6, Zenon
        <4>2. PICK o \in Outcomes : o = h.out
          BY <1>4
        <4>3. Append(<<>>, o) = <<o>>
          OBVIOUS
        <4>4. QED
          BY <3>2, <4>1, <4>2, <4>3, Zenon
      <3>4. Told(op, out)' <=> h.out = out
        <4>1. (\E i \in 1 .. Len(log'[op]) : log'[op][i] = out) <=> h.out = out
          BY <3>3
        <4>2. ~ \E x \in Promised' : x.op = op /\ x.out = out
          BY <1>3, <2>6
        <4>3. QED
          BY <2>4, <4>1, <4>2
      <3>5. \A x \in Promised : x.op = op => x = h
        BY <1>3, <2>6
      <3>6. Told(op, out) <=> h.out = out
        BY <1>3, <2>3, <2>6, <3>2, <3>5
      <3>7. QED
        BY <3>4, <3>6
    <2>7. QED
      BY <2>5, <2>6
  <1>12. SendWaitInv' /\ ReceiveWaitInv'
    BY <1>0, <1>1 DEF SendWaitInv, ReceiveWaitInv
  <1>13. CompletionInv'
    BY <1>3, <1>10, <1>12 DEF CompletionInv
  <1>14. TruthInv'
    BY <1>1, <1>11, QuietTold
  <1>15. QED
    BY <1>13, <1>14

\* A deadline, or a watchdog that could not be spawned, settles the park it
\* was armed for and no other.
LEMMA DeadlineSettles ==
    ASSUME Inv, TypeOK', CompletionInv, TruthInv, DeadlineInv, ArmFails \/ WatchdogWakes
    PROVE  CompletionInv' /\ TruthInv'
  <1>0. TypeOK /\ DebtInv /\ OnceInv /\ SendWaitInv /\ ReceiveWaitInv
    BY DEF Inv, CompletionInv
  <1>1. PICK w \in arming \cup watchdogs, out \in {"transport", "timeout"} :
          /\ IF StillParked(w) THEN TakeParked(w, out) ELSE UNCHANGED <<pending_receive, owed>>
          /\ UNCHANGED <<queues, pending_send, blocked_receivers, blocked_senders, closed, sends,
                         receives, bounded, committed, log>>
    BY Zenon DEF ArmFails, WatchdogWakes
  <1>2. SendMove({}, {}, {})
    BY <1>0, <1>1, SendQuiet
  <1>3. CASE ~StillParked(w)
    <2>1. UNCHANGED <<pending_receive, owed>>
      BY <1>1, <1>3, Zenon
    <2>2. ReceiveMove({}, {}, {})
      BY <1>0, <1>1, <2>1, ReceiveQuiet
    <2>3. Tells({})
      BY <1>0, <1>1, <2>1, TellsNothing
    <2>4. CompletionInv' /\ KeyTold({})
      BY <1>0, <1>2, <2>2, <2>3, LeftWaiting
    <2>5. QED
      BY <1>1, <2>4, QuietTold
  <1>4. CASE StillParked(w)
    <2> DEFINE e == w.end
               r == ReceiveOp(e, pending_receive[e])
    <2>1. /\ pending_receive' = [pending_receive EXCEPT ![e] = None]
          /\ Owe(<<Completion(r, out)>>) /\ pending_receive[e] # None
      BY <1>1, <1>4, Zenon DEF TakeParked, StillParked
    <2>2. e \in Ends
      BY <1>0 DEF TypeOK
    <2>3. ReceiveMove({}, {r}, {}) /\ r \in Issuable
      BY <1>0, <1>1, <2>1, <2>2, ReceiveTaken
    <2>4. ~Owing(r)
      BY <1>0, <2>3, Unowed DEF ReceiveMove
    <2>5. r \in bounded
      BY <1>4 DEF DeadlineInv
    <2> HIDE DEF r
    <2>6. Tells({Completion(r, out)})
      <3> DEFINE todo == <<Completion(r, out)>>
      <3>1. Completion(r, out) \in Completions
        BY <2>3, IssuableOps DEF Completion, Completions, Outcomes
      <3>2. todo \in Seq(Completions) /\ Entries(todo) = {Completion(r, out)} /\ Len(todo) = 1
        BY <3>1, EntriesOf
      <3>3. OncePerOp(todo)
        BY <3>2 DEF OncePerOp
      <3>4. \A x \in Entries(todo) : x.op \in Issuable /\ ~Owing(x.op)
        BY <2>3, <2>4, <3>2, CompletionFields
      <3> HIDE DEF todo
      <3>5. QED
        BY <1>0, <1>1, <2>1, <3>2, <3>3, <3>4, TellsOwe DEF todo
    <2>7. CompletionInv' /\ KeyTold({Completion(r, out)})
      BY <1>0, <1>2, <2>3, <2>6, ReceiveAlone
    <2>8. /\ \A op : Completion(op, "ok") \notin {Completion(r, out)}
          /\ \A op : Completion(op, "end") \notin {Completion(r, out)}
          /\ \A op : Completion(op, "timeout") \in {Completion(r, out)} => op = r
      BY CompletionFields
    <2>9. Truthful({Completion(r, out)})
      BY <1>1, <2>5, <2>8, QuietTruthful
    <2>10. QED
      BY <2>7, <2>9, TruthStep
  <1>5. QED
    BY <1>3, <1>4

-----------------------------------------------------------------------------
\* A call that is just being issued is numbered past every earlier one, so
\* nobody owes its completion yet.
LEMMA FreshSend ==
    ASSUME TypeOK, CompletionInv, NEW e \in Ends, IssueSend(e)
    PROVE  /\ SendOp(e, sends[e] + 1) \in Issuable /\ sends[e] + 1 \in Messages
           /\ ~Owing(SendOp(e, sends[e] + 1))
  <1> DEFINE s == SendOp(e, sends[e] + 1)
  <1>0. SendWaitInv /\ OnceInv
    BY DEF CompletionInv
  <1>1. sends[e] \in Nat /\ s \in Issuable
    BY <1>0, SendNumbers
  <1>2. s.kind = "send" /\ s.end = e /\ s.n = sends[e] + 1
    BY OpFields
  <1>3. ~Started(s)
    BY <1>1, <1>2 DEF Started
  <1>4. s \notin StartedSends \cup StartedReceives
    BY <1>3 DEF StartedSends, StartedReceives
  <1>5. QED
    BY <1>0, <1>1, <1>4, Unowed DEF Messages

\* The same for a receive.
LEMMA FreshReceive ==
    ASSUME TypeOK, CompletionInv, NEW e \in Ends, IssueReceive(e)
    PROVE  /\ ReceiveOp(e, receives[e] + 1) \in Issuable /\ receives[e] + 1 \in Nat
           /\ ~Owing(ReceiveOp(e, receives[e] + 1))
  <1> DEFINE r == ReceiveOp(e, receives[e] + 1)
  <1>0. ReceiveWaitInv /\ OnceInv
    BY DEF CompletionInv
  <1>1. receives[e] \in Nat /\ r \in Issuable
    BY <1>0, ReceiveNumbers
  <1>2. r.kind = "receive" /\ r.end = e /\ r.n = receives[e] + 1
    BY OpFields
  <1>3. ~Started(r)
    BY <1>1, <1>2 DEF Started
  <1>4. r \notin StartedSends \cup StartedReceives
    BY <1>3 DEF StartedSends, StartedReceives
  <1>5. QED
    BY <1>0, <1>1, <1>4, Unowed

\* The blocking Send settles its message, or leaves it waiting.
LEMMA SendStep ==
    ASSUME Inv, TypeOK', CompletionInv, TruthInv, NEW e \in Ends, Send(e)
    PROVE  CompletionInv' /\ TruthInv'
  <1>0. TypeOK /\ SendWaitInv /\ ReceiveWaitInv /\ DebtInv
    BY DEF Inv, CompletionInv
  <1>1. PICK m : m = sends[e] + 1
    OBVIOUS
  <1>2. /\ IssueSend(e)
        /\ IF CanSend(e)
           THEN FinishSend(e, m) /\ UNCHANGED blocked_senders
           ELSE /\ blocked_senders' = [blocked_senders EXCEPT ![e] = @ \cup {m}]
                /\ UNCHANGED <<queues, pending_receive, committed, delivered, owed, log>>
        /\ UNCHANGED <<pending_send, blocked_receivers, closed, receives, bounded>>
    BY <1>1, Zenon DEF Send
  <1>3. SendOp(e, m) \in Issuable /\ m \in Messages /\ ~Owing(SendOp(e, m))
    BY <1>0, <1>1, <1>2, FreshSend
  <1>4. CASE CanSend(e)
    <2>1. FinishSend(e, m) /\ UNCHANGED blocked_senders
      BY <1>2, <1>4, Zenon
    <2>2. SendMove({SendOp(e, m)}, {}, {})
      BY <1>0, <1>1, <1>2, <2>1, SendIssued
    <2>3. QED
      BY <1>2, <1>3, <2>1, <2>2, FinishSendSettles
  <1>5. CASE ~CanSend(e)
    <2>1. /\ blocked_senders' = [blocked_senders EXCEPT ![e] = @ \cup {m}]
          /\ UNCHANGED <<queues, pending_receive, committed, owed, log>>
      BY <1>2, <1>5, Zenon
    <2>2. SendMove({SendOp(e, m)}, {}, {SendOp(e, m)})
      BY <1>0, <1>1, <1>2, <2>1, SendBlocked
    <2>3. ReceiveMove({}, {}, {})
      BY <1>0, <1>2, <2>1, ReceiveQuiet
    <2>4. Tells({})
      BY <1>0, <2>1, TellsNothing
    <2>5. CompletionInv' /\ KeyTold({})
      BY <1>0, <2>2, <2>3, <2>4, LeftWaiting
    <2>6. QED
      BY <1>2, <2>1, <2>5, QuietTold
  <1>6. QED
    BY <1>4, <1>5

\* A notified sender settles the message it waited with.
LEMMA SendWakesStep ==
    ASSUME Inv, TypeOK', CompletionInv, TruthInv, NEW e \in Ends, SendWakes(e)
    PROVE  CompletionInv' /\ TruthInv'
  <1>0. TypeOK /\ SendWaitInv /\ OnceInv
    BY DEF Inv, CompletionInv
  <1>1. PICK m \in blocked_senders[e] :
          /\ blocked_senders' = [blocked_senders EXCEPT ![e] = @ \ {m}]
          /\ FinishSend(e, m)
          /\ UNCHANGED <<pending_send, blocked_receivers, closed, sends, receives, bounded>>
    BY Zenon DEF SendWakes
  <1>2. SendMove({}, {SendOp(e, m)}, {}) /\ SendOp(e, m) \in Issuable
    BY <1>0, <1>1, SendUnblocked
  <1>3. SendOp(e, m) \in WaitingSends
    BY <1>2 DEF SendMove
  <1>4. ~Owing(SendOp(e, m))
    BY <1>0, <1>2, <1>3, Unowed
  <1>5. m \in Messages
    BY <1>0 DEF TypeOK, Messages
  <1>6. QED
    BY <1>1, <1>2, <1>4, <1>5, FinishSendSettles

\* A send told nothing but a refusal is told the truth.
LEMMA RefusalTruthful ==
    ASSUME UNCHANGED <<committed, queues>>, closed => closed', bounded \subseteq bounded', NEW op,
           NEW out, out \notin KeyOutcomes
    PROVE  Truthful({Completion(op, out)})
  <1>1. \A x : \A o \in KeyOutcomes : Completion(x, o) \notin {Completion(op, out)}
    BY CompletionFields
  <1>2. QED
    BY <1>1, QuietTruthful DEF KeyOutcomes

\* SendAsync settles its message, parks it, or owes the caller a refusal.
LEMMA SendAsyncStep ==
    ASSUME Inv, TypeOK', CompletionInv, TruthInv, NEW e \in Ends, SendAsync(e)
    PROVE  CompletionInv' /\ TruthInv'
  <1>0. TypeOK /\ SendWaitInv /\ ReceiveWaitInv /\ DebtInv
    BY DEF Inv, CompletionInv
  <1>1. PICK m : m = sends[e] + 1
    OBVIOUS
  <1> DEFINE s == SendOp(e, m)
  <1>2. IssueSend(e) /\ UNCHANGED <<blocked_receivers, blocked_senders, closed, receives, bounded>>
    BY Zenon DEF SendAsync
  <1>3. s \in Issuable /\ m \in Messages /\ ~Owing(s)
    BY <1>0, <1>1, <1>2, FreshSend
  <1>4. \/ \E out \in {"transport", "validation"} :
             /\ RefuseLocked(s, out)
             /\ UNCHANGED <<queues, pending_receive, pending_send, committed, log>>
        \/ /\ ~SendOutstanding(e)
           /\ pending_send' = [pending_send EXCEPT ![e] = m]
           /\ UNCHANGED <<queues, pending_receive, committed, owed, log>>
        \/ ~closed /\ HandOver(e, m) /\ UNCHANGED pending_send
    BY <1>1, Zenon DEF SendAsync
  <1>5. CASE \E out \in {"transport", "validation"} :
               /\ RefuseLocked(s, out)
               /\ UNCHANGED <<queues, pending_receive, pending_send, committed, log>>
    <2>1. PICK out \in {"transport", "validation"} :
            /\ RefuseLocked(s, out)
            /\ UNCHANGED <<queues, pending_receive, pending_send, committed, log>>
      BY <1>5, Zenon
    <2>2. SendMove({s}, {}, {})
      BY <1>0, <1>1, <1>2, <2>1, SendIssued
    <2>3. ReceiveMove({}, {}, {})
      BY <1>0, <1>2, <2>1, ReceiveQuiet
    <2>4. out \in Outcomes /\ out \notin KeyOutcomes
      BY DEF Outcomes, KeyOutcomes
    <2> HIDE DEF s
    <2>5. Tells({Completion(s, out)})
      BY <1>0, <1>3, <2>1, <2>4, TellsRefuse
    <2>6. CompletionInv' /\ KeyTold({Completion(s, out)})
      BY <1>0, <2>2, <2>3, <2>5, SettledSend DEF SendSettles
    <2>7. Truthful({Completion(s, out)})
      BY <1>2, <2>1, <2>4, RefusalTruthful
    <2>8. QED
      BY <2>6, <2>7, TruthStep
  <1>6. CASE /\ ~SendOutstanding(e)
             /\ pending_send' = [pending_send EXCEPT ![e] = m]
             /\ UNCHANGED <<queues, pending_receive, committed, owed, log>>
    <2>1. SendMove({s}, {}, {s})
      BY <1>0, <1>1, <1>2, <1>6, SendParked DEF SendOutstanding
    <2>2. ReceiveMove({}, {}, {})
      BY <1>0, <1>2, <1>6, ReceiveQuiet
    <2>3. Tells({})
      BY <1>0, <1>6, TellsNothing
    <2>4. CompletionInv' /\ KeyTold({})
      BY <1>0, <2>1, <2>2, <2>3, LeftWaiting
    <2>5. QED
      BY <1>2, <1>6, <2>4, QuietTold
  <1>7. CASE ~closed /\ HandOver(e, m) /\ UNCHANGED pending_send
    <2>1. SendMove({s}, {}, {})
      BY <1>0, <1>1, <1>2, <1>7, SendIssued
    <2>2. SendSettles(s, "ok")
      BY <1>0, <1>2, <1>3, <1>7, HandOverSettles
    <2>3. Truthful({Completion(s, "ok")})
      BY <1>0, <1>2, <1>3, <1>7, HandOverTruthful
    <2> HIDE DEF s
    <2>4. CompletionInv' /\ KeyTold({Completion(s, "ok")})
      BY <1>0, <2>1, <2>2, SettledSend
    <2>5. QED
      BY <2>3, <2>4, TruthStep
  <1>8. QED
    BY <1>4, <1>5, <1>6, <1>7

\* The blocking Receive settles itself, or is left waiting.
LEMMA ReceiveStep ==
    ASSUME Inv, TypeOK', CompletionInv, TruthInv, NEW e \in Ends, NEW timed \in BOOLEAN,
           ReceiveWithin(e, timed)
    PROVE  CompletionInv' /\ TruthInv'
  <1>0. TypeOK /\ SendWaitInv /\ ReceiveWaitInv /\ DebtInv
    BY DEF Inv, CompletionInv
  <1>1. PICK n : n = receives[e] + 1
    OBVIOUS
  <1>2. /\ IssueReceive(e)
        /\ bounded \subseteq bounded'
        /\ IF Arrived(e)
           THEN FinishReceive(e, n) /\ UNCHANGED blocked_receivers
           ELSE /\ blocked_receivers' =
                     [blocked_receivers EXCEPT ![e] = @ \cup {[n |-> n, timed |-> timed]}]
                /\ UNCHANGED <<queues, pending_send, committed, delivered, owed, log>>
        /\ UNCHANGED <<pending_receive, blocked_senders, closed, sends>>
    BY <1>1, Zenon DEF ReceiveWithin
  <1>3. ReceiveOp(e, n) \in Issuable /\ n \in Nat /\ ~Owing(ReceiveOp(e, n))
    BY <1>0, <1>1, <1>2, FreshReceive
  <1>4. CASE Arrived(e)
    <2>1. FinishReceive(e, n) /\ UNCHANGED blocked_receivers
      BY <1>2, <1>4, Zenon
    <2>2. ReceiveMove({ReceiveOp(e, n)}, {}, {})
      BY <1>0, <1>1, <1>2, <2>1, ReceiveIssued
    <2>3. QED
      BY <1>2, <1>3, <1>4, <2>1, <2>2, FinishReceiveSettles
  <1>5. CASE ~Arrived(e)
    <2>1. /\ blocked_receivers' =
               [blocked_receivers EXCEPT ![e] = @ \cup {[n |-> n, timed |-> timed]}]
          /\ UNCHANGED <<queues, pending_send, committed, owed, log>>
      BY <1>2, <1>5, Zenon
    <2>2. ReceiveMove({ReceiveOp(e, n)}, {}, {ReceiveOp(e, n)})
      BY <1>0, <1>1, <1>2, <2>1, ReceiveBlocked
    <2>3. SendMove({}, {}, {})
      BY <1>0, <1>2, <2>1, SendQuiet
    <2>4. Tells({})
      BY <1>0, <2>1, TellsNothing
    <2>5. CompletionInv' /\ KeyTold({})
      BY <1>0, <2>2, <2>3, <2>4, LeftWaiting
    <2>6. QED
      BY <1>2, <2>1, <2>5, QuietTold
  <1>6. QED
    BY <1>4, <1>5

\* A notified receiver settles the receive it waited with.
LEMMA ReceiveWakesStep ==
    ASSUME Inv, TypeOK', CompletionInv, TruthInv, NEW e \in Ends, ReceiveWakes(e)
    PROVE  CompletionInv' /\ TruthInv'
  <1>0. TypeOK /\ ReceiveWaitInv /\ OnceInv
    BY DEF Inv, CompletionInv
  <1>1. PICK r \in blocked_receivers[e] :
          /\ Arrived(e)
          /\ blocked_receivers' = [blocked_receivers EXCEPT ![e] = @ \ {r}]
          /\ FinishReceive(e, r.n)
          /\ UNCHANGED <<pending_receive, blocked_senders, closed, sends, receives, bounded>>
    BY Zenon DEF ReceiveWakes
  <1>2. ReceiveMove({}, {ReceiveOp(e, r.n)}, {}) /\ ReceiveOp(e, r.n) \in Issuable
    BY <1>0, <1>1, ReceiveUnblocked
  <1>3. ReceiveOp(e, r.n) \in WaitingReceives
    BY <1>2 DEF ReceiveMove
  <1>4. ~Owing(ReceiveOp(e, r.n))
    BY <1>0, <1>2, <1>3, Unowed
  <1>5. r.n \in Nat
    BY <1>0 DEF TypeOK
  <1>6. QED
    BY <1>1, <1>2, <1>4, <1>5, FinishReceiveSettles

\* A blocked receive that gives up had a deadline.
LEMMA ReceiveTimesOutStep ==
    ASSUME Inv, TypeOK', CompletionInv, TruthInv, DeadlineInv, NEW e \in Ends, ReceiveTimesOut(e)
    PROVE  CompletionInv' /\ TruthInv'
  <1>0. TypeOK /\ SendWaitInv /\ ReceiveWaitInv /\ DebtInv
    BY DEF Inv, CompletionInv
  <1>1. PICK q \in blocked_receivers[e] :
          /\ q.timed
          /\ blocked_receivers' = [blocked_receivers EXCEPT ![e] = @ \ {q}]
          /\ Report(ReceiveOp(e, q.n), "timeout")
          /\ UNCHANGED <<queues, pending_receive, pending_send, blocked_senders, closed, sends,
                         receives, bounded, committed, owed>>
    BY Zenon DEF ReceiveTimesOut
  <1>2. PICK r : r = ReceiveOp(e, q.n)
    OBVIOUS
  <1>3. ReceiveMove({}, {r}, {}) /\ r \in Issuable
    BY <1>0, <1>1, <1>2, ReceiveUnblocked
  <1>4. SendMove({}, {}, {})
    BY <1>0, <1>1, SendQuiet
  <1>5. Tells({Completion(r, "timeout")})
    <2>1. "timeout" \in Outcomes
      BY DEF Outcomes
    <2>2. Report(r, "timeout") /\ UNCHANGED owed
      BY <1>1, <1>2
    <2>3. QED
      BY <1>0, <1>3, <2>1, <2>2, TellsReport
  <1>6. CompletionInv' /\ KeyTold({Completion(r, "timeout")})
    BY <1>0, <1>3, <1>4, <1>5, ReceiveAlone
  <1>7. r \in bounded
    BY <1>1, <1>2 DEF DeadlineInv
  <1>8. /\ \A op : Completion(op, "ok") \notin {Completion(r, "timeout")}
        /\ \A op : Completion(op, "end") \notin {Completion(r, "timeout")}
        /\ \A op : Completion(op, "timeout") \in {Completion(r, "timeout")} => op = r
    BY CompletionFields
  <1>9. Truthful({Completion(r, "timeout")})
    BY <1>1, <1>7, <1>8, QuietTruthful
  <1>10. QED
    BY <1>6, <1>9, TruthStep

\* A receive settled inline, with the end of a drained stream or because its
\* budget is zero, is told the truth.
LEMMA InlineReceive ==
    ASSUME Inv, TypeOK', CompletionInv, TruthInv, NEW e \in Ends, NEW r \in Issuable,
           NEW out \in {"end", "timeout"},
           Report(r, out), ReceiveMove({r}, {}, {}), r.kind = "receive", r.end = e,
           out = "end" => queues[Peer(e)] = <<>> /\ closed,
           out = "timeout" => r \in bounded',
           bounded \subseteq bounded',
           UNCHANGED <<queues, pending_send, committed, owed, closed, sends, blocked_senders>>
    PROVE  CompletionInv' /\ TruthInv'
  <1>0. TypeOK /\ SendWaitInv /\ DebtInv
    BY DEF Inv, CompletionInv
  <1>1. SendMove({}, {}, {})
    BY <1>0, SendQuiet
  <1>2. out \in Outcomes
    BY DEF Outcomes
  <1>3. Tells({Completion(r, out)})
    BY <1>0, <1>2, TellsReport
  <1>4. CompletionInv' /\ KeyTold({Completion(r, out)})
    BY <1>0, <1>1, <1>3, ReceiveAlone
  <1>5. /\ \A op : Completion(op, "ok") \notin {Completion(r, out)}
        /\ \A op : Completion(op, "end") \in {Completion(r, out)} => op = r /\ out = "end"
        /\ \A op : Completion(op, "timeout") \in {Completion(r, out)} => op = r /\ out = "timeout"
    BY CompletionFields
  <1>6. \A x \in Ends : \A n \in 1 .. ReceiveBudget[x] :
           Completion(ReceiveOp(x, n), "end") \in {Completion(r, out)}
             => closed' /\ queues[Peer(x)] = <<>>
    BY <1>5, OpFields
  <1>7. Truthful({Completion(r, out)})
    BY <1>5, <1>6, QuietTruthful
  <1>8. QED
    BY <1>4, <1>7, TruthStep

\* ReceiveAsync settles itself, parks, or owes the caller a refusal.
LEMMA ReceiveAsyncStep ==
    ASSUME Inv, TypeOK', CompletionInv, TruthInv, NEW e \in Ends,
           NEW budget \in {"none", "poll", "timed"}, ReceiveAsyncWithin(e, budget)
    PROVE  CompletionInv' /\ TruthInv'
  <1>0. TypeOK /\ SendWaitInv /\ ReceiveWaitInv /\ DebtInv
    BY DEF Inv, CompletionInv
  <1>1. PICK n : n = receives[e] + 1
    OBVIOUS
  <1>2. PICK r : r = ReceiveOp(e, n)
    OBVIOUS
  <1>3. /\ IssueReceive(e)
        /\ UNCHANGED <<blocked_receivers, blocked_senders, closed, sends>>
        /\ bounded' = IF budget # "none" THEN bounded \cup {r} ELSE bounded
    BY <1>1, <1>2, Zenon DEF ReceiveAsyncWithin
  <1>4. bounded \subseteq bounded' /\ (budget = "poll" => r \in bounded')
    BY <1>3
  <1>5. r \in Issuable /\ n \in Nat /\ ~Owing(r)
    BY <1>0, <1>1, <1>2, <1>3, FreshReceive
  <1>6. \/ /\ RefuseLocked(r, "validation")
           /\ UNCHANGED <<queues, pending_receive, pending_send, committed, log>>
        \/ /\ queues[Peer(e)] # <<>>
           /\ TakeFront(e, n) /\ UNCHANGED pending_receive
        \/ /\ queues[Peer(e)] = <<>> /\ closed
           /\ Report(r, "end")
           /\ UNCHANGED <<queues, pending_receive, pending_send, committed, owed>>
        \/ /\ budget = "poll"
           /\ Report(r, "timeout")
           /\ UNCHANGED <<queues, pending_receive, pending_send, committed, owed>>
        \/ /\ CanPark(e)
           /\ pending_receive' = [pending_receive EXCEPT ![e] = n]
           /\ UNCHANGED <<queues, pending_send, committed, owed, log>>
    BY <1>1, <1>2, Zenon DEF ReceiveAsyncWithin
  <1>7. CASE /\ RefuseLocked(r, "validation")
             /\ UNCHANGED <<queues, pending_receive, pending_send, committed, log>>
    <2>1. ReceiveMove({r}, {}, {})
      BY <1>0, <1>1, <1>2, <1>3, <1>7, ReceiveIssued
    <2>2. SendMove({}, {}, {})
      BY <1>0, <1>3, <1>7, SendQuiet
    <2>3. "validation" \in Outcomes /\ "validation" \notin KeyOutcomes
      BY DEF Outcomes, KeyOutcomes
    <2>4. Tells({Completion(r, "validation")})
      BY <1>0, <1>5, <1>7, <2>3, TellsRefuse
    <2>5. CompletionInv' /\ KeyTold({Completion(r, "validation")})
      BY <1>0, <2>1, <2>2, <2>4, ReceiveAlone
    <2>6. Truthful({Completion(r, "validation")})
      BY <1>3, <1>4, <1>7, <2>3, RefusalTruthful
    <2>7. QED
      BY <2>5, <2>6, TruthStep
  <1>8. CASE queues[Peer(e)] # <<>> /\ TakeFront(e, n) /\ UNCHANGED pending_receive
    <2>1. ReceiveMove({ReceiveOp(e, n)}, {}, {})
      BY <1>0, <1>1, <1>3, <1>8, ReceiveIssued
    <2>2. QED
      BY <1>2, <1>3, <1>4, <1>5, <1>8, <2>1, TakeSettles
  <1>9. ASSUME NEW out \in {"end", "timeout"}, Report(r, out),
               out = "end" => queues[Peer(e)] = <<>> /\ closed,
               out = "timeout" => budget = "poll",
               UNCHANGED <<queues, pending_receive, pending_send, committed, owed>>
        PROVE  CompletionInv' /\ TruthInv'
    <2>1. ReceiveMove({r}, {}, {})
      BY <1>0, <1>1, <1>2, <1>3, <1>9, ReceiveIssued
    <2>2. r.kind = "receive" /\ r.end = e
      BY <1>2, OpFields
    <2>3. QED
      BY <1>3, <1>4, <1>5, <1>9, <2>1, <2>2, InlineReceive
  <1>10. CASE /\ CanPark(e)
              /\ pending_receive' = [pending_receive EXCEPT ![e] = n]
              /\ UNCHANGED <<queues, pending_send, committed, owed, log>>
    <2>1. ReceiveMove({r}, {}, {r})
      BY <1>0, <1>1, <1>2, <1>3, <1>10, ReceiveParked DEF CanPark, ReceiveOutstanding
    <2>2. SendMove({}, {}, {})
      BY <1>0, <1>3, <1>10, SendQuiet
    <2>3. Tells({})
      BY <1>0, <1>10, TellsNothing
    <2>4. CompletionInv' /\ KeyTold({})
      BY <1>0, <2>1, <2>2, <2>3, LeftWaiting
    <2>5. QED
      BY <1>3, <1>4, <1>10, <2>4, QuietTold
  <1>11. QED
    BY <1>6, <1>7, <1>8, <1>9, <1>10

\* A step of the pair settles what it starts and tells the truth.
LEMMA OutcomeStep ==
    ASSUME Inv, CompletionInv, TruthInv, DeadlineInv, [Next]_vars
    PROVE  CompletionInv' /\ TruthInv'
  <1>0. TypeOK /\ TypeOK'
    BY TypeStep DEF Inv
  <1>1. CASE UNCHANGED <<queues, pending_receive, pending_send, blocked_receivers, blocked_senders,
                         closed, owed, sends, receives, bounded, committed, log>>
    <2>1. SendMove({}, {}, {}) /\ ReceiveMove({}, {}, {}) /\ Tells({})
      BY <1>0, <1>1, SendQuiet, ReceiveQuiet, TellsNothing DEF CompletionInv
    <2>2. CompletionInv' /\ KeyTold({})
      BY <1>0, <2>1, LeftWaiting
    <2>3. QED
      BY <1>1, <2>2, QuietTold
  <1>2. CASE ArmReceiveDeadline \/ UNCHANGED vars
    BY <1>1, <1>2, Zenon DEF ArmReceiveDeadline, state, vars
  <1>3. QED
    BY <1>0, <1>2, SendStep, SendWakesStep, SendAsyncStep, ReceiveStep, ReceiveWakesStep,
       ReceiveTimesOutStep, ReceiveAsyncStep, EndSettles, DeadlineSettles, FireSettles, Zenon
       DEF Next

-----------------------------------------------------------------------------
\* A step that parks and arms nothing leaves every deadline where it was.
LEMMA DeadlineQuiet ==
    ASSUME TypeOK, TypeOK', DeadlineInv, bounded \subseteq bounded',
           \A e \in Ends : blocked_receivers'[e] \subseteq blocked_receivers[e],
           arming' \cup watchdogs' \subseteq arming \cup watchdogs,
           UNCHANGED receive_park_generation,
           \A e \in Ends : pending_receive'[e] = pending_receive[e] \/ pending_receive'[e] = None
    PROVE  DeadlineInv'
  <1>1. \A e \in Ends : \A r \in blocked_receivers'[e] : r.timed => ReceiveOp(e, r.n) \in bounded'
    BY DEF DeadlineInv
  <1>2. ASSUME NEW w \in arming' \cup watchdogs'
        PROVE  /\ w.generation <= receive_park_generation'[w.end]
               /\ StillParked(w)' => ReceiveOp(w.end, pending_receive'[w.end]) \in bounded'
    <2>1. w.end \in Ends
      BY <1>2 DEF TypeOK
    <2>2. /\ w.generation <= receive_park_generation[w.end]
          /\ StillParked(w) => ReceiveOp(w.end, pending_receive[w.end]) \in bounded
      BY <1>2 DEF DeadlineInv
    <2>3. StillParked(w)' => StillParked(w) /\ pending_receive'[w.end] = pending_receive[w.end]
      BY <2>1 DEF StillParked
    <2>4. QED
      BY <2>2, <2>3
  <1>3. QED
    BY <1>1, <1>2 DEF DeadlineInv

\* HandOver empties at most the receive slot it fills.
LEMMA HandOverSlot ==
    ASSUME TypeOK, NEW e \in Ends, NEW m, HandOver(e, m)
    PROVE  \A x \in Ends : pending_receive'[x] = pending_receive[x] \/ pending_receive'[x] = None
  <1>1. \/ pending_receive' = [pending_receive EXCEPT ![Peer(e)] = None]
        \/ UNCHANGED pending_receive
    BY Zenon DEF HandOver
  <1>2. QED
    BY <1>1, PeerEnds DEF TypeOK

\* A new park carries a new generation, so no deadline armed before can
\* settle it, and its own deadline is the one its caller asked for.
LEMMA DeadlineStep ==
    ASSUME Inv, DeadlineInv, [Next]_vars
    PROVE  DeadlineInv'
  <1>0. TypeOK /\ TypeOK'
    BY TypeStep DEF Inv
  <1>1. ASSUME NEW e \in Ends, Send(e) \/ SendWakes(e) \/ SendAsync(e) PROVE DeadlineInv'
    <2>1. /\ UNCHANGED <<receive_park_generation, blocked_receivers, arming, watchdogs, bounded>>
          /\ UNCHANGED pending_receive \/ \E m : HandOver(e, m)
      BY <1>1, Zenon DEF Send, SendWakes, SendAsync, FinishSend, threads
    <2>2. \A x \in Ends : pending_receive'[x] = pending_receive[x] \/ pending_receive'[x] = None
      BY <1>0, <2>1, HandOverSlot
    <2>3. QED
      BY <1>0, <2>1, <2>2, DeadlineQuiet
  <1>2. ASSUME NEW e \in Ends, NEW timed \in BOOLEAN, ReceiveWithin(e, timed) PROVE DeadlineInv'
    <2>1. PICK n : n = receives[e] + 1
      OBVIOUS
    <2>2. /\ bounded' = IF timed THEN bounded \cup {ReceiveOp(e, n)} ELSE bounded
          /\ \/ UNCHANGED blocked_receivers
             \/ blocked_receivers' =
                  [blocked_receivers EXCEPT ![e] = @ \cup {[n |-> n, timed |-> timed]}]
          /\ UNCHANGED <<pending_receive, receive_park_generation, arming, watchdogs>>
      BY <1>2, <2>1, Zenon DEF ReceiveWithin, threads
    <2>3. bounded \subseteq bounded' /\ (timed => ReceiveOp(e, n) \in bounded')
      BY <2>2
    <2>4. CASE UNCHANGED blocked_receivers
      BY <1>0, <2>2, <2>3, <2>4, DeadlineQuiet
    <2>5. CASE blocked_receivers' =
                 [blocked_receivers EXCEPT ![e] = @ \cup {[n |-> n, timed |-> timed]}]
      <3>1. \A x \in Ends : \A r \in blocked_receivers'[x] :
               r \in blocked_receivers[x] \/ (x = e /\ r.n = n /\ r.timed = timed)
        BY <1>0, <2>5, SMTT(30) DEF TypeOK
      <3>2. \A x \in Ends : \A r \in blocked_receivers'[x] :
               r.timed => ReceiveOp(x, r.n) \in bounded'
        BY <2>3, <3>1 DEF DeadlineInv
      <3>3. \A w \in arming' \cup watchdogs' :
              /\ w.generation <= receive_park_generation'[w.end]
              /\ StillParked(w)' => ReceiveOp(w.end, pending_receive'[w.end]) \in bounded'
        BY <2>2, <2>3 DEF DeadlineInv, StillParked
      <3>4. QED
        BY <3>2, <3>3 DEF DeadlineInv
    <2>6. QED
      BY <2>2, <2>4, <2>5
  <1>3. ASSUME NEW e \in Ends, ReceiveWakes(e) \/ ReceiveTimesOut(e) PROVE DeadlineInv'
    <2>1. PICK r : blocked_receivers' = [blocked_receivers EXCEPT ![e] = @ \ {r}]
      BY <1>3, Zenon DEF ReceiveWakes, ReceiveTimesOut
    <2>2. UNCHANGED <<pending_receive, receive_park_generation, arming, watchdogs, bounded>>
      BY <1>3, Zenon DEF ReceiveWakes, ReceiveTimesOut, threads
    <2>3. \A x \in Ends : blocked_receivers'[x] \subseteq blocked_receivers[x]
      BY <1>0, <2>1 DEF TypeOK
    <2>4. QED
      BY <1>0, <2>2, <2>3, DeadlineQuiet
  <1>4. ASSUME NEW e \in Ends, NEW budget \in {"none", "poll", "timed"},
               ReceiveAsyncWithin(e, budget)
        PROVE  DeadlineInv'
    <2>1. PICK n : n = receives[e] + 1
      OBVIOUS
    <2>2. PICK g : g = receive_park_generation[e] + 1
      OBVIOUS
    <2>3. /\ UNCHANGED <<blocked_receivers, watchdogs>>
          /\ bounded' = IF budget # "none" THEN bounded \cup {ReceiveOp(e, n)} ELSE bounded
          /\ \/ UNCHANGED <<pending_receive, receive_park_generation, arming>>
             \/ /\ pending_receive' = [pending_receive EXCEPT ![e] = n]
                /\ receive_park_generation' = [receive_park_generation EXCEPT ![e] = g]
                /\ arming' = IF budget = "timed"
                             THEN arming \cup {[end |-> e, generation |-> g]}
                             ELSE arming
      BY <1>4, <2>1, <2>2, Zenon DEF ReceiveAsyncWithin
    <2>4. bounded \subseteq bounded' /\ (budget = "timed" => ReceiveOp(e, n) \in bounded')
      BY <2>3
    <2>5. CASE UNCHANGED <<pending_receive, receive_park_generation, arming>>
      BY <1>0, <2>3, <2>4, <2>5, DeadlineQuiet
    <2>6. CASE /\ pending_receive' = [pending_receive EXCEPT ![e] = n]
               /\ receive_park_generation' = [receive_park_generation EXCEPT ![e] = g]
               /\ arming' = IF budget = "timed"
                            THEN arming \cup {[end |-> e, generation |-> g]}
                            ELSE arming
      <3>1. \A x \in Ends : \A r \in blocked_receivers'[x] :
               r.timed => ReceiveOp(x, r.n) \in bounded'
        BY <2>3, <2>4 DEF DeadlineInv
      <3>2. ASSUME NEW w \in arming' \cup watchdogs'
            PROVE  /\ w.generation <= receive_park_generation'[w.end]
                   /\ StillParked(w)' => ReceiveOp(w.end, pending_receive'[w.end]) \in bounded'
        <4>0. /\ w.end \in Ends /\ w.generation \in Nat
              /\ \A x \in Ends : receive_park_generation[x] \in Nat
              /\ pending_receive'[e] = n /\ receive_park_generation'[e] = g
              /\ \A x \in Ends : x # e => /\ pending_receive'[x] = pending_receive[x]
                                          /\ receive_park_generation'[x] = receive_park_generation[x]
          BY <1>0, <2>6, <3>2 DEF TypeOK
        <4>1. CASE w \in arming \cup watchdogs
          <5>1. /\ w.generation <= receive_park_generation[w.end]
                /\ StillParked(w) => ReceiveOp(w.end, pending_receive[w.end]) \in bounded
            BY <4>1 DEF DeadlineInv
          <5>2. CASE w.end = e
            <6>1. w.generation < g
              BY <2>2, <4>0, <5>1, <5>2
            <6>2. ~StillParked(w)'
              BY <4>0, <5>2, <6>1, <2>2 DEF StillParked
            <6>3. QED
              BY <2>2, <4>0, <5>2, <6>1, <6>2
          <5>3. CASE w.end # e
            BY <2>4, <4>0, <5>1, <5>3 DEF StillParked
          <5>4. QED
            BY <5>2, <5>3
        <4>2. CASE w \notin arming \cup watchdogs
          <5>1. budget = "timed" /\ w = [end |-> e, generation |-> g]
            BY <2>3, <2>6, <3>2, <4>2
          <5>2. w.end = e /\ w.generation = g
            BY <5>1
          <5>3. QED
            BY <2>2, <2>4, <4>0, <5>1, <5>2
        <4>3. QED
          BY <4>1, <4>2
      <3>3. QED
        BY <3>1, <3>2 DEF DeadlineInv
    <2>7. QED
      BY <2>3, <2>5, <2>6
  <1>5. ASSUME NEW e \in Ends, NEW why \in CloseReasons, End(e, why) PROVE DeadlineInv'
    <2>1. /\ UNCHANGED <<receive_park_generation, blocked_receivers, arming, watchdogs, bounded>>
          /\ pending_receive' = [x \in Ends |-> None]
      BY <1>5, Zenon DEF End, threads
    <2>2. QED
      BY <1>0, <2>1, DeadlineQuiet
  <1>6. CASE ArmReceiveDeadline
    <2>1. PICK w \in arming :
            /\ arming' = arming \ {w} /\ watchdogs' = watchdogs \cup {w}
            /\ UNCHANGED <<receive_park_generation, blocked_receivers, pending_receive, bounded>>
      BY <1>6, Zenon DEF ArmReceiveDeadline, state
    <2>2. arming' \cup watchdogs' \subseteq arming \cup watchdogs
      BY <2>1
    <2>3. QED
      BY <1>0, <2>1, <2>2, DeadlineQuiet
  <1>7. CASE ArmFails \/ WatchdogWakes
    <2>1. PICK w \in arming \cup watchdogs :
            /\ \/ arming' = arming \ {w} /\ UNCHANGED watchdogs
               \/ watchdogs' = watchdogs \ {w} /\ UNCHANGED arming
            /\ \/ pending_receive' = [pending_receive EXCEPT ![w.end] = None]
               \/ UNCHANGED pending_receive
            /\ UNCHANGED <<receive_park_generation, blocked_receivers, bounded>>
      BY <1>7, Zenon DEF ArmFails, WatchdogWakes, TakeParked
    <2>2. arming' \cup watchdogs' \subseteq arming \cup watchdogs
      BY <2>1
    <2>3. \A x \in Ends : pending_receive'[x] = pending_receive[x] \/ pending_receive'[x] = None
      BY <1>0, <2>1 DEF TypeOK
    <2>4. QED
      BY <1>0, <2>1, <2>2, <2>3, DeadlineQuiet
  <1>8. CASE Fire \/ UNCHANGED vars
    <2>1. UNCHANGED <<receive_park_generation, blocked_receivers, arming, watchdogs, bounded,
                      pending_receive>>
      BY <1>8, Zenon DEF Fire, state, threads, vars
    <2>2. QED
      BY <1>0, <2>1, DeadlineQuiet
  <1>9. QED
    BY <1>1, <1>2, <1>3, <1>4, <1>5, <1>6, <1>7, <1>8, Zenon DEF Next

-----------------------------------------------------------------------------
\* A message accepted after every accepted one, and before every waiting one.
LEMMA OrderedAccept ==
    ASSUME NEW c \in Seq(Messages), NEW s \in Nat, NEW p \in Nat, NEW B \in SUBSET Messages,
           Ordered(c, s, p, B), NEW t \in Nat, s <= t, NEW m \in Messages, m <= t,
           NEW D \in SUBSET B,
           SenderThreads = 1 => /\ \A i \in 1 .. Len(c) : c[i] < m
                                /\ \A k \in D : m < k
    PROVE  Ordered(Append(c, m), t, None, D)
  <1> DEFINE d == Append(c, m)
  <1>0. /\ Len(c) \in Nat /\ Len(d) = Len(c) + 1 /\ \A i \in 1 .. Len(c) : d[i] = c[i] /\ c[i] \in Nat
        /\ d[Len(c) + 1] = m /\ m \in Nat
    BY DEF Messages
  <1> HIDE DEF d
  <1>1. IsFiniteSet(D)
    BY FS_Subset DEF Ordered
  <1>2. PICK n \in Nat : n = Len(c) /\ Len(d) = n + 1
    BY <1>0
  <1>3. \A i \in 1 .. n + 1 : (i \in 1 .. n /\ d[i] = c[i]) \/ (i = n + 1 /\ d[i] = m)
    BY <1>0, <1>2
  <1>4. \A i \in 1 .. n + 1 : d[i] <= t
    <2>1. \A i \in 1 .. n : c[i] <= s /\ c[i] \in Nat
      BY <1>0, <1>2 DEF Ordered
    <2>2. QED
      BY <1>3, <2>1
  <1>5. ASSUME SenderThreads = 1
        PROVE  /\ \A a, k \in D : a = k
               /\ \A i \in 1 .. n + 1 : \A k \in D : d[i] < k
               /\ \A k \in D : None < k
               /\ \A i, j \in 1 .. n + 1 : i < j => d[i] < d[j]
    <2>1. /\ \A a, k \in B : a = k
          /\ \A i \in 1 .. n : \A k \in B : c[i] < k
          /\ \A i, j \in 1 .. n : i < j => c[i] < c[j]
          /\ \A i \in 1 .. n : c[i] < m
          /\ \A k \in D : m < k
      BY <1>2, <1>5 DEF Ordered
    <2>2. \A k \in D : None < k
      BY DEF None, Messages
    <2>3. \A i \in 1 .. n + 1 : \A k \in D : d[i] < k
      BY <1>3, <2>1
    <2>4. ASSUME NEW i \in 1 .. n + 1, NEW j \in 1 .. n + 1, i < j PROVE d[i] < d[j]
      <3>1. i \in 1 .. n
        BY <2>4
      <3>2. d[i] = c[i]
        BY <1>3, <3>1
      <3>3. CASE j = n + 1
        BY <1>3, <2>1, <3>1, <3>2, <3>3
      <3>4. CASE j \in 1 .. n
        BY <1>3, <2>1, <2>4, <3>1, <3>2, <3>4
      <3>5. QED
        BY <3>3, <3>4
    <2>5. QED
      BY <2>1, <2>2, <2>3, <2>4
  <1>6. QED
    BY <1>1, <1>2, <1>4, <1>5 DEF Ordered, d

\* Calls issued meanwhile, and waiting sends that leave, disturb nothing.
LEMMA OrderedLess ==
    ASSUME NEW c \in Seq(Messages), NEW s \in Nat, NEW p \in Nat, NEW B \in SUBSET Messages,
           Ordered(c, s, p, B), NEW t \in Nat, s <= t, NEW q \in {p, None}, NEW D \in SUBSET B
    PROVE  Ordered(c, t, q, D)
  <1>1. IsFiniteSet(D)
    BY FS_Subset DEF Ordered
  <1>2. \A i \in 1 .. Len(c) : c[i] \in Nat
    BY DEF Messages
  <1>3. \A i \in 1 .. Len(c) : c[i] <= t
    BY <1>2 DEF Ordered
  <1>4. \A k \in D : None < k
    BY DEF None, Messages
  <1>5. QED
    BY <1>1, <1>3, <1>4 DEF Ordered

\* A send that parks comes after everything accepted.
LEMMA OrderedPark ==
    ASSUME NEW c \in Seq(Messages), NEW s \in Nat, NEW p, Ordered(c, s, p, {})
    PROVE  Ordered(c, s + 1, s + 1, {})
  <1>1. \A i \in 1 .. Len(c) : c[i] \in Nat /\ c[i] <= s
    BY DEF Messages, Ordered
  <1>2. QED
    BY <1>1 DEF Ordered

\* A send that blocks comes after everything accepted and after the park.
LEMMA OrderedBlock ==
    ASSUME NEW c \in Seq(Messages), NEW s \in Nat, NEW p \in Nat, p <= s,
           NEW B \in SUBSET Messages, Ordered(c, s, p, B), SenderThreads = 1 => B = {}
    PROVE  Ordered(c, s + 1, p, B \cup {s + 1})
  <1>1. \A i \in 1 .. Len(c) : c[i] \in Nat /\ c[i] <= s
    BY DEF Messages, Ordered
  <1>2. IsFiniteSet(B \cup {s + 1})
    BY FS_AddElement DEF Ordered
  <1>3. QED
    BY <1>1, <1>2 DEF Ordered

\* The senders an end may block are none when its only thread is free.
LEMMA NoneBlocked ==
    ASSUME NEW B, IsFiniteSet(B), Cardinality(B) < SenderThreads, SenderThreads = 1
    PROVE  B = {}
  <1>1. Cardinality(B) \in Nat
    BY FS_CardinalityType
  <1>2. Cardinality(B) = 0
    BY <1>1
  <1>3. QED
    BY <1>2, FS_EmptySet

\* The four pieces an end's order is about, at every end.
OrderView ==
    \A e \in Ends :
        /\ committed[e] \in Seq(Messages) /\ sends[e] \in Nat /\ pending_send[e] \in Nat
        /\ blocked_senders[e] \in SUBSET Messages
\* The pieces an end's order is about have their types.
LEMMA OrderTypes == TypeOK => OrderView
  BY DEF TypeOK, OrderView, Messages

\* HandOver appends its message to what the end had accepted.
LEMMA HandOverAccepts ==
    ASSUME TypeOK, NEW e \in Ends, NEW m, HandOver(e, m)
    PROVE  \A x \in Ends : committed'[x] = IF x = e THEN Append(committed[e], m) ELSE committed[x]
  <1>1. committed' = [committed EXCEPT ![e] = Append(@, m)]
    BY Zenon DEF HandOver
  <1>2. QED
    BY <1>1 DEF TypeOK

\* A taken front lets in the parked send of the other end, or nothing.
LEMMA TakeFrontAccepts ==
    ASSUME TypeOK, NEW e \in Ends, NEW n, TakeFront(e, n)
    PROVE  \/ UNCHANGED <<committed, pending_send>>
           \/ LET p == Peer(e) IN
              /\ pending_send[p] # None
              /\ \A x \in Ends :
                   /\ committed'[x] = IF x = p THEN Append(committed[p], pending_send[p])
                                               ELSE committed[x]
                   /\ pending_send'[x] = IF x = p THEN None ELSE pending_send[x]
  <1>1. \/ UNCHANGED <<committed, pending_send>>
        \/ /\ pending_send[Peer(e)] # None
           /\ committed' = [committed EXCEPT ![Peer(e)] = Append(@, pending_send[Peer(e)])]
           /\ pending_send' = [pending_send EXCEPT ![Peer(e)] = None]
    BY Zenon DEF TakeFront
  <1>2. QED
    BY <1>1, PeerEnds DEF TypeOK

\* A step that accepts nothing and lets nobody wait keeps the order.
LEMMA OrderQuiet ==
    ASSUME TypeOK, TypeOK', OrderInv, UNCHANGED committed,
           \A x \in Ends : /\ sends[x] <= sends'[x]
                           /\ pending_send'[x] = pending_send[x] \/ pending_send'[x] = None
                           /\ blocked_senders'[x] \subseteq blocked_senders[x]
    PROVE  OrderInv'
  <1>1. OrderView /\ OrderView'
    BY OrderTypes, PTL
  <1> SUFFICES ASSUME NEW x \in Ends
               PROVE  Ordered(committed'[x], sends'[x], pending_send'[x], blocked_senders'[x])
    BY DEF OrderInv, Ordered
  <1>2. /\ committed[x] \in Seq(Messages) /\ sends[x] \in Nat /\ pending_send[x] \in Nat
        /\ blocked_senders[x] \in SUBSET Messages /\ sends'[x] \in Nat
        /\ committed'[x] = committed[x]
    BY <1>1 DEF OrderView
  <1>3. Ordered(committed[x], sends[x], pending_send[x], blocked_senders[x])
    BY DEF OrderInv
  <1>4. pending_send'[x] \in {pending_send[x], None} /\ blocked_senders'[x] \in SUBSET blocked_senders[x]
    OBVIOUS
  <1>5. QED
    BY <1>2, <1>3, <1>4, OrderedLess

\* A step that accepts message m from end e keeps the order.
LEMMA OrderAccepts ==
    ASSUME TypeOK, TypeOK', OrderInv, NEW e \in Ends, NEW m \in Messages,
           \A x \in Ends :
              /\ committed'[x] = IF x = e THEN Append(committed[e], m) ELSE committed[x]
              /\ sends[x] <= sends'[x]
              /\ pending_send'[x] = IF x = e THEN None ELSE pending_send[x]
              /\ blocked_senders'[x] \subseteq blocked_senders[x],
           m <= sends'[e],
           SenderThreads = 1 => /\ \A i \in 1 .. Len(committed[e]) : committed[e][i] < m
                                /\ \A k \in blocked_senders'[e] : m < k
    PROVE  OrderInv'
  <1>1. OrderView /\ OrderView'
    BY OrderTypes, PTL
  <1> SUFFICES ASSUME NEW x \in Ends
               PROVE  Ordered(committed'[x], sends'[x], pending_send'[x], blocked_senders'[x])
    BY DEF OrderInv, Ordered
  <1>2. /\ committed[x] \in Seq(Messages) /\ sends[x] \in Nat /\ pending_send[x] \in Nat
        /\ blocked_senders[x] \in SUBSET Messages /\ sends'[x] \in Nat
    BY <1>1 DEF OrderView
  <1>3. Ordered(committed[x], sends[x], pending_send[x], blocked_senders[x])
    BY DEF OrderInv
  <1>4. CASE x = e
    <2>1. Ordered(Append(committed[x], m), sends'[x], None, blocked_senders'[x])
      BY <1>2, <1>3, <1>4, OrderedAccept
    <2>2. QED
      BY <1>4, <2>1
  <1>5. CASE x # e
    <2>1. Ordered(committed[x], sends'[x], pending_send[x], blocked_senders'[x])
      BY <1>2, <1>3, OrderedLess
    <2>2. QED
      BY <1>5, <2>1
  <1>6. QED
    BY <1>4, <1>5

\* Issuing a send moves its end's counter and no other.
LEMMA SendCounted ==
    ASSUME TypeOK, NEW e \in Ends, IssueSend(e)
    PROVE  \A x \in Ends : /\ sends[x] \in Nat /\ sends[x] <= sends'[x]
                           /\ sends'[x] = IF x = e THEN sends[e] + 1 ELSE sends[x]
  <1>1. sends \in [Ends -> Nat] /\ sends' = [sends EXCEPT ![e] = @ + 1]
    BY Zenon DEF IssueSend, TypeOK
  <1>2. \A x \in Ends : sends[x] \in Nat /\ sends'[x] = IF x = e THEN sends[e] + 1 ELSE sends[x]
    BY <1>1
  <1>3. QED
    BY <1>2

\* A message handed over by the call that has just been issued comes after
\* everything accepted, and nobody is left waiting that it could overtake.
LEMMA FreshAccepted ==
    ASSUME Inv, TypeOK', OrderInv, NEW e \in Ends, IssueSend(e), HandOver(e, sends[e] + 1),
           UNCHANGED <<pending_send, blocked_senders>>, pending_send[e] = None,
           SenderThreads = 1 => blocked_senders[e] = {}
    PROVE  OrderInv'
  <1>0. TypeOK /\ OrderView
    BY OrderTypes DEF Inv
  <1>1. PICK m : m = sends[e] + 1
    OBVIOUS
  <1>2. m \in Messages /\ sends[e] \in Nat
    BY <1>0, <1>1 DEF OrderView, Messages
  <1>3. \A x \in Ends : committed'[x] = IF x = e THEN Append(committed[e], m) ELSE committed[x]
    BY <1>0, <1>1, HandOverAccepts
  <1>4. \A x \in Ends : sends[x] <= sends'[x] /\ sends'[e] = m
    BY <1>0, <1>1, SendCounted
  <1>5. \A i \in 1 .. Len(committed[e]) : committed[e][i] < m
    <2>1. \A i \in 1 .. Len(committed[e]) : committed[e][i] <= sends[e] /\ committed[e][i] \in Nat
      BY <1>0 DEF OrderInv, Ordered, OrderView, Messages
    <2>2. QED
      BY <1>1, <1>2, <2>1
  <1>6. \A x \in Ends : /\ pending_send'[x] = IF x = e THEN None ELSE pending_send[x]
                        /\ blocked_senders'[x] \subseteq blocked_senders[x]
    OBVIOUS
  <1>7. m <= sends'[e]
    BY <1>2, <1>4 DEF Messages
  <1>8. SenderThreads = 1 => \A k \in blocked_senders'[e] : m < k
    OBVIOUS
  <1>9. QED
    BY <1>0, <1>2, <1>3, <1>4, <1>5, <1>6, <1>7, <1>8, OrderAccepts

\* A parked send that takes the slot a receive freed was issued after all
\* that is accepted and before whoever blocked behind it.
LEMMA AbsorbedInOrder ==
    ASSUME Inv, TypeOK', CompletionInv, OrderInv, NEW e \in Ends, NEW n, TakeFront(e, n),
           UNCHANGED <<sends, blocked_senders>>
    PROVE  OrderInv'
  <1>0. TypeOK /\ OrderView /\ SendWaitInv
    BY OrderTypes DEF Inv, CompletionInv
  <1>1. PICK p : p = Peer(e) /\ p \in Ends
    BY PeerEnds
  <1>2. \A x \in Ends : sends[x] <= sends'[x] /\ sends'[x] = sends[x]
    BY <1>0 DEF OrderView
  <1>3. CASE UNCHANGED <<committed, pending_send>>
    BY <1>0, <1>2, <1>3, OrderQuiet
  <1>4. CASE /\ pending_send[p] # None
             /\ \A x \in Ends :
                  /\ committed'[x] = IF x = p THEN Append(committed[p], pending_send[p])
                                              ELSE committed[x]
                  /\ pending_send'[x] = IF x = p THEN None ELSE pending_send[x]
    <2>1. PICK m : m = pending_send[p]
      OBVIOUS
    <2>2. m \in Messages /\ m <= sends'[p]
      BY <1>0, <1>1, <1>2, <1>4, <2>1 DEF OrderView, Messages, SendWaitInv, None
    <2>3. SenderThreads = 1 => /\ \A i \in 1 .. Len(committed[p]) : committed[p][i] < m
                               /\ \A k \in blocked_senders'[p] : m < k
      BY <1>1, <1>4, <2>1 DEF OrderInv, Ordered
    <2>4. \A x \in Ends : /\ committed'[x] = IF x = p THEN Append(committed[p], m) ELSE committed[x]
                          /\ pending_send'[x] = IF x = p THEN None ELSE pending_send[x]
      BY <1>4, <2>1
    <2>5. QED
      BY <1>0, <1>1, <1>2, <2>2, <2>3, <2>4, OrderAccepts
  <1>5. QED
    BY <1>0, <1>1, <1>3, <1>4, TakeFrontAccepts

\* The blocking Send keeps the order: with one sender thread it finds nobody
\* blocked before it, and waits while a send is parked.
LEMMA SendOrdered ==
    ASSUME Inv, TypeOK', CompletionInv, OrderInv, NEW e \in Ends, Send(e)
    PROVE  OrderInv'
  <1>0. TypeOK /\ OrderView /\ SendWaitInv
    BY OrderTypes DEF Inv, CompletionInv
  <1>1. PICK m : m = sends[e] + 1
    OBVIOUS
  <1>2. /\ IssueSend(e)
        /\ Cardinality(blocked_senders[e]) < SenderThreads
        /\ IF CanSend(e)
           THEN FinishSend(e, m) /\ UNCHANGED blocked_senders
           ELSE /\ blocked_senders' = [blocked_senders EXCEPT ![e] = @ \cup {m}]
                /\ UNCHANGED committed
        /\ UNCHANGED <<pending_send, closed>>
    BY <1>1, Zenon DEF Send
  <1>3. SenderThreads = 1 => blocked_senders[e] = {}
    BY <1>2, NoneBlocked DEF OrderInv, Ordered
  <1>4. \A x \in Ends : /\ sends[x] \in Nat /\ sends[x] <= sends'[x]
                        /\ sends'[x] = IF x = e THEN m ELSE sends[x]
    BY <1>0, <1>1, <1>2, SendCounted
  <1>5. CASE CanSend(e)
    <2>1. FinishSend(e, m) /\ UNCHANGED blocked_senders
      BY <1>2, <1>5, Zenon
    <2>2. CASE closed
      <3>1. UNCHANGED committed
        BY <2>1, <2>2, Zenon DEF FinishSend
      <3>2. QED
        BY <1>0, <1>2, <1>4, <2>1, <3>1, OrderQuiet
    <2>3. CASE ~closed
      <3>1. HandOver(e, sends[e] + 1) /\ pending_send[e] = None
        BY <1>1, <1>5, <2>1, <2>3, Zenon DEF FinishSend, CanSend
      <3>2. QED
        BY <1>2, <1>3, <2>1, <3>1, FreshAccepted
    <2>4. QED
      BY <2>2, <2>3
  <1>6. CASE ~CanSend(e)
    <2>1. blocked_senders' = [blocked_senders EXCEPT ![e] = @ \cup {m}] /\ UNCHANGED committed
      BY <1>2, <1>6, Zenon
    <2>2. \A x \in Ends :
             blocked_senders'[x] = IF x = e THEN blocked_senders[e] \cup {m} ELSE blocked_senders[x]
      BY <1>0, <2>1 DEF TypeOK
    <2> SUFFICES ASSUME NEW x \in Ends
                 PROVE  Ordered(committed'[x], sends'[x], pending_send'[x], blocked_senders'[x])
      BY DEF OrderInv, Ordered
    <2>3. /\ committed[x] \in Seq(Messages) /\ sends[x] \in Nat /\ pending_send[x] \in Nat
          /\ blocked_senders[x] \in SUBSET Messages /\ pending_send[x] <= sends[x]
      BY <1>0 DEF OrderView, SendWaitInv
    <2>4. Ordered(committed[x], sends[x], pending_send[x], blocked_senders[x])
      BY DEF OrderInv
    <2>5. CASE x = e
      <3>1. Ordered(committed[x], sends[x] + 1, pending_send[x], blocked_senders[x] \cup {sends[x] + 1})
        BY <1>3, <2>3, <2>4, <2>5, OrderedBlock
      <3>2. /\ committed'[x] = committed[x] /\ sends'[x] = sends[x] + 1
            /\ pending_send'[x] = pending_send[x]
            /\ blocked_senders'[x] = blocked_senders[x] \cup {sends[x] + 1}
        BY <1>1, <1>2, <1>4, <2>1, <2>2, <2>5
      <3>3. QED
        BY <3>1, <3>2
    <2>6. CASE x # e
      <3>1. /\ committed'[x] = committed[x] /\ sends'[x] = sends[x]
            /\ pending_send'[x] = pending_send[x] /\ blocked_senders'[x] = blocked_senders[x]
        BY <1>2, <1>4, <2>1, <2>2, <2>6
      <3>2. QED
        BY <2>4, <3>1
    <2>7. QED
      BY <2>5, <2>6
  <1>7. QED
    BY <1>5, <1>6

\* A sender wakes into an order in which it was the next.
LEMMA SendWakesOrdered ==
    ASSUME Inv, TypeOK', CompletionInv, OrderInv, NEW e \in Ends, SendWakes(e)
    PROVE  OrderInv'
  <1>0. TypeOK /\ OrderView /\ SendWaitInv
    BY OrderTypes DEF Inv, CompletionInv
  <1>1. PICK m \in blocked_senders[e] :
          /\ CanSend(e)
          /\ blocked_senders' = [blocked_senders EXCEPT ![e] = @ \ {m}]
          /\ FinishSend(e, m)
          /\ UNCHANGED <<pending_send, closed, sends>>
    BY Zenon DEF SendWakes
  <1>2. \A x \in Ends :
           blocked_senders'[x] = IF x = e THEN blocked_senders[e] \ {m} ELSE blocked_senders[x]
    BY <1>0, <1>1 DEF TypeOK
  <1>3. \A x \in Ends : sends[x] <= sends'[x] /\ sends'[x] = sends[x]
    BY <1>0, <1>1 DEF OrderView
  <1>4. \A x \in Ends : blocked_senders'[x] \subseteq blocked_senders[x]
    BY <1>2
  <1>5. CASE closed
    <2>1. UNCHANGED committed
      BY <1>1, <1>5, Zenon DEF FinishSend
    <2>2. QED
      BY <1>0, <1>1, <1>3, <1>4, <2>1, OrderQuiet
  <1>6. CASE ~closed
    <2>1. HandOver(e, m) /\ pending_send[e] = None
      BY <1>1, <1>6, Zenon DEF FinishSend, CanSend
    <2>2. m \in Messages /\ m <= sends'[e]
      BY <1>0, <1>1, <1>3 DEF OrderView, SendWaitInv
    <2>3. SenderThreads = 1 => /\ \A i \in 1 .. Len(committed[e]) : committed[e][i] < m
                               /\ \A k \in blocked_senders'[e] : m < k
      BY <1>1, <1>2 DEF OrderInv, Ordered
    <2>4. \A x \in Ends : committed'[x] = IF x = e THEN Append(committed[e], m) ELSE committed[x]
      BY <1>0, <2>1, HandOverAccepts
    <2>5. \A x \in Ends : pending_send'[x] = IF x = e THEN None ELSE pending_send[x]
      BY <1>1, <2>1
    <2>6. QED
      BY <1>0, <1>3, <1>4, <2>2, <2>3, <2>4, <2>5, OrderAccepts
  <1>7. QED
    BY <1>5, <1>6

\* SendAsync goes in or parks only when its end has no send waiting.
LEMMA SendAsyncOrdered ==
    ASSUME Inv, TypeOK', CompletionInv, OrderInv, NEW e \in Ends, SendAsync(e)
    PROVE  OrderInv'
  <1>0. TypeOK /\ OrderView
    BY OrderTypes DEF Inv
  <1>1. PICK m : m = sends[e] + 1
    OBVIOUS
  <1>2. IssueSend(e) /\ UNCHANGED blocked_senders
    BY Zenon DEF SendAsync
  <1>3. \/ UNCHANGED <<pending_send, committed>>
        \/ /\ ~SendOutstanding(e)
           /\ pending_send' = [pending_send EXCEPT ![e] = m]
           /\ UNCHANGED committed
        \/ ~SendOutstanding(e) /\ HandOver(e, m) /\ UNCHANGED pending_send
    BY <1>1, Zenon DEF SendAsync
  <1>4. \A x \in Ends : /\ sends[x] \in Nat /\ sends[x] <= sends'[x]
                        /\ sends'[x] = IF x = e THEN m ELSE sends[x]
    BY <1>0, <1>1, <1>2, SendCounted
  <1>5. CASE UNCHANGED <<pending_send, committed>>
    BY <1>0, <1>2, <1>4, <1>5, OrderQuiet
  <1>6. CASE /\ ~SendOutstanding(e)
             /\ pending_send' = [pending_send EXCEPT ![e] = m]
             /\ UNCHANGED committed
    <2>1. \A x \in Ends : pending_send'[x] = IF x = e THEN m ELSE pending_send[x]
      BY <1>0, <1>6 DEF TypeOK
    <2> SUFFICES ASSUME NEW x \in Ends
                 PROVE  Ordered(committed'[x], sends'[x], pending_send'[x], blocked_senders'[x])
      BY DEF OrderInv, Ordered
    <2>2. committed[x] \in Seq(Messages) /\ sends[x] \in Nat
      BY <1>0 DEF OrderView
    <2>3. Ordered(committed[x], sends[x], pending_send[x], blocked_senders[x])
      BY DEF OrderInv
    <2>4. CASE x = e
      <3>1. blocked_senders[x] = {}
        BY <1>6, <2>4 DEF SendOutstanding
      <3>2. Ordered(committed[x], sends[x] + 1, sends[x] + 1, {})
        BY <2>2, <2>3, <3>1, OrderedPark
      <3>3. /\ committed'[x] = committed[x] /\ sends'[x] = sends[x] + 1
            /\ pending_send'[x] = sends[x] + 1 /\ blocked_senders'[x] = {}
        BY <1>1, <1>2, <1>4, <1>6, <2>1, <2>4, <3>1
      <3>4. QED
        BY <3>2, <3>3
    <2>5. CASE x # e
      <3>1. /\ committed'[x] = committed[x] /\ sends'[x] = sends[x]
            /\ pending_send'[x] = pending_send[x] /\ blocked_senders'[x] = blocked_senders[x]
        BY <1>2, <1>4, <1>6, <2>1, <2>5
      <3>2. QED
        BY <2>3, <3>1
    <2>6. QED
      BY <2>4, <2>5
  <1>7. CASE ~SendOutstanding(e) /\ HandOver(e, m) /\ UNCHANGED pending_send
    <2>1. pending_send[e] = None /\ blocked_senders[e] = {}
      BY <1>7 DEF SendOutstanding
    <2>2. HandOver(e, sends[e] + 1)
      BY <1>1, <1>7
    <2>3. QED
      BY <1>2, <1>7, <2>1, <2>2, FreshAccepted
  <1>8. QED
    BY <1>3, <1>5, <1>6, <1>7

\* No step lets a later send overtake an earlier one.
LEMMA OrderStep ==
    ASSUME Inv, CompletionInv, OrderInv, [Next]_vars
    PROVE  OrderInv'
  <1>0. TypeOK /\ TypeOK' /\ OrderView
    BY TypeStep, OrderTypes DEF Inv
  <1>1. ASSUME NEW e \in Ends, \/ \E timed \in BOOLEAN : ReceiveWithin(e, timed)
                               \/ ReceiveWakes(e) \/ ReceiveTimesOut(e)
                               \/ \E budget \in {"none", "poll", "timed"} : ReceiveAsyncWithin(e, budget)
        PROVE  OrderInv'
    <2>1. UNCHANGED <<sends, blocked_senders>>
      BY <1>1, Zenon DEF ReceiveWithin, ReceiveWakes, ReceiveTimesOut, ReceiveAsyncWithin
    <2>2. UNCHANGED <<committed, pending_send>> \/ \E n : TakeFront(e, n)
      BY <1>1, Zenon DEF ReceiveWithin, ReceiveWakes, ReceiveTimesOut, ReceiveAsyncWithin,
                         FinishReceive
    <2>3. CASE UNCHANGED <<committed, pending_send>>
      BY <1>0, <2>1, <2>3, OrderQuiet DEF OrderView
    <2>4. QED
      BY <1>0, <2>1, <2>2, <2>3, AbsorbedInOrder
  <1>2. ASSUME NEW e \in Ends, NEW why \in CloseReasons, End(e, why) PROVE OrderInv'
    <2>1. UNCHANGED <<sends, blocked_senders, committed>> /\ pending_send' = [x \in Ends |-> None]
      BY <1>2, Zenon DEF End
    <2>2. QED
      BY <1>0, <2>1, OrderQuiet DEF OrderView
  <1>3. CASE ArmReceiveDeadline \/ ArmFails \/ WatchdogWakes \/ Fire \/ UNCHANGED vars
    <2>1. UNCHANGED <<sends, blocked_senders, committed, pending_send>>
      BY <1>3, Zenon DEF ArmReceiveDeadline, ArmFails, WatchdogWakes, Fire, state, vars
    <2>2. QED
      BY <1>0, <2>1, OrderQuiet DEF OrderView
  <1>4. QED
    BY <1>0, <1>1, <1>2, <1>3, SendOrdered, SendWakesOrdered, SendAsyncOrdered, Zenon DEF Next

-----------------------------------------------------------------------------
\* Everything the two theorems rest on, on top of the parked-slot discipline
\* and conservation.
OutcomeInv == CompletionInv /\ TruthInv /\ DeadlineInv /\ OrderInv

\* At the start nothing is issued, owed, accepted or told.
LEMMA InitOutcome == ASSUME Init PROVE OutcomeInv
  <1>0. TypeOK /\ ToldByLogOrDebt
    BY InitType, ToldMeans
  <1>1. Promised = {}
    BY DEF Init, Promised
  <1>2. \A op \in Issuable : log[op] = <<>> /\ Len(log[op]) = 0
    BY DEF Init
  <1>3. \A op \in Issuable : ~Owing(op)
    BY <1>1 DEF Owing
  <1>4. \A e \in Ends : /\ sends[e] = 0 /\ receives[e] = 0 /\ pending_send[e] = 0
                        /\ pending_receive[e] = 0 /\ blocked_senders[e] = {}
                        /\ blocked_receivers[e] = {} /\ committed[e] = <<>>
    BY DEF Init, None
  <1>5. \A op \in Issuable : ~Started(op) /\ ~Waiting(op)
    <2> SUFFICES ASSUME NEW op \in Issuable PROVE ~Started(op) /\ ~Waiting(op)
      OBVIOUS
    <2>1. op.end \in Ends /\ op.n \in Nat /\ op.n >= 1
      BY IssuableOps
    <2>2. /\ sends[op.end] = 0 /\ receives[op.end] = 0 /\ pending_send[op.end] = 0
          /\ pending_receive[op.end] = 0 /\ blocked_senders[op.end] = {}
          /\ blocked_receivers[op.end] = {}
      BY <1>4, <2>1
    <2>3. QED
      BY <2>1, <2>2 DEF Started, Waiting
  <1>6. SendWaitInv /\ ReceiveWaitInv
    <2>1. \A e \in Ends : SendBudget[e] \in Nat /\ ReceiveBudget[e] \in Nat
      BY BudgetAssumption
    <2>2. QED
      BY <1>4, <2>1 DEF SendWaitInv, ReceiveWaitInv
  <1>7. DebtInv
    BY <1>1 DEF DebtInv, Init
  <1>8. OnceInv
    BY <1>2, <1>3, <1>5 DEF OnceInv, Settled
  <1>9. ASSUME NEW op \in Issuable, NEW out \in Outcomes PROVE ~Told(op, out)
    <2>1. ~ \E x \in Promised : x.op = op /\ x.out = out
      BY <1>1
    <2>2. ~ \E i \in 1 .. Len(log[op]) : log[op][i] = out
      BY <1>2
    <2>3. QED
      BY <1>0, <2>1, <2>2 DEF ToldByLogOrDebt
  <1>10. TruthInv
    <2>1. "ok" \in Outcomes /\ "end" \in Outcomes /\ "timeout" \in Outcomes
      BY DEF Outcomes
    <2>2. ASSUME NEW e \in Ends, NEW m \in 1 .. SendBudget[e]
          PROVE  Told(SendOp(e, m), "ok") <=> Accepted(e, m)
      <3>1. SendOp(e, m) \in Issuable
        BY BudgetAssumption, IssuableOps
      <3>2. ~Accepted(e, m)
        BY <1>4 DEF Accepted
      <3>3. QED
        BY <1>9, <2>1, <3>1, <3>2
    <2>3. ASSUME NEW e \in Ends, NEW n \in 1 .. ReceiveBudget[e]
          PROVE  ~Told(ReceiveOp(e, n), "end")
      <3>1. ReceiveOp(e, n) \in Issuable
        BY BudgetAssumption, IssuableOps
      <3>2. QED
        BY <1>9, <2>1, <3>1
    <2>4. QED
      BY <1>9, <2>1, <2>2, <2>3 DEF TruthInv
  <1>11. DeadlineInv
    BY <1>4 DEF DeadlineInv, Init
  <1>12. OrderInv
    <2>1. IsFiniteSet({})
      BY FS_EmptySet
    <2>2. QED
      <3> SUFFICES ASSUME NEW e \in Ends
                   PROVE  Ordered(committed[e], sends[e], pending_send[e], blocked_senders[e])
        BY DEF OrderInv
      <3>1. Len(committed[e]) = 0 /\ 1 .. 0 = {} /\ blocked_senders[e] = {}
        BY <1>4
      <3>2. QED
        BY <2>1, <3>1 DEF Ordered
  <1>13. QED
    BY <1>6, <1>7, <1>8, <1>10, <1>11, <1>12 DEF OutcomeInv, CompletionInv

\* Every operation of the pair is accounted for, and told the truth, in every
\* reachable state.
THEOREM OutcomeInvariant == Spec => [](Inv /\ OutcomeInv)
  <1>1. Init => OutcomeInv
    BY InitOutcome
  <1>2. Inv /\ OutcomeInv /\ [Next]_vars => OutcomeInv'
    BY OutcomeStep, DeadlineStep, OrderStep DEF OutcomeInv
  <1>3. QED
    BY <1>1, <1>2, Invariance, PTL DEF Spec

\* Every callback fires exactly once and every blocking call returns once,
\* whichever of the close, a deadline, a failed watchdog, the peer's send or
\* the peer's receive took the operation out of the session.
THEOREM CompletesOnceHolds == Spec => []EachOperationCompletesOnce
  <1>1. Inv /\ OutcomeInv => EachOperationCompletesOnce
    <2> SUFFICES ASSUME Inv, OutcomeInv, NEW op \in Issuable
                 PROVE  (IF Waiting(op) THEN 1 ELSE 0) + Len(log[op]) + Cardinality(OwedPlaces(op))
                          = IF Started(op) THEN 1 ELSE 0
      BY DEF EachOperationCompletesOnce
    <2>1. TypeOK /\ DebtInv /\ OnceInv
      BY DEF Inv, OutcomeInv, CompletionInv
    <2>2. Settled(Started(op), Waiting(op), Owing(op), Len(log[op]))
      BY <2>1 DEF OnceInv
    <2>3. Cardinality(OwedPlaces(op)) = IF Owing(op) THEN 1 ELSE 0
      BY <2>1, OwedOnce
    <2>4. PICK n : n = Len(log[op])
      OBVIOUS
    <2>5. PICK k : k = Cardinality(OwedPlaces(op))
      OBVIOUS
    <2>6. \/ ~Started(op) /\ ~Waiting(op) /\ k = 0 /\ n = 0
          \/ Started(op) /\ Waiting(op) /\ k = 0 /\ n = 0
          \/ Started(op) /\ ~Waiting(op) /\ k = 1 /\ n = 0
          \/ Started(op) /\ ~Waiting(op) /\ k = 0 /\ n = 1
      BY <2>2, <2>3, <2>4, <2>5 DEF Settled
    <2>7. (IF Waiting(op) THEN 1 ELSE 0) + n + k = IF Started(op) THEN 1 ELSE 0
      BY <2>6
    <2>8. QED
      BY <2>4, <2>5, <2>7
  <1>2. QED
    BY <1>1, OutcomeInvariant, PTL

\* What an operation is told is true: a send succeeds exactly when the session
\* accepted its message, the end is reported only to a drained receiver, one
\* sender thread's messages arrive in call order across both send APIs, and
\* only a receive with a deadline times out.
THEOREM OutcomesHonest == Spec => []HonestOutcomes
  <1>1. Inv /\ OutcomeInv => HonestOutcomes
    <2> SUFFICES ASSUME Inv, OutcomeInv PROVE HonestOutcomes
      OBVIOUS
    <2>0. TypeOK /\ TruthInv /\ OrderInv /\ OrderView
      BY OrderTypes DEF Inv, OutcomeInv
    <2>1. \A e \in Ends : DOMAIN committed[e] = 1 .. Len(committed[e])
      BY <2>0 DEF OrderView
    <2>2. SendsReportHonestly
      <3> SUFFICES ASSUME NEW e \in Ends, NEW m \in 1 .. SendBudget[e]
                   PROVE  ("ok" \in Given(SendOp(e, m)))
                            <=> (\E i \in DOMAIN committed[e] : committed[e][i] = m)
        BY DEF SendsReportHonestly
      <3>1. Told(SendOp(e, m), "ok") <=> Accepted(e, m)
        BY <2>0 DEF TruthInv
      <3>2. QED
        BY <2>1, <3>1 DEF Told, Accepted
    <2>3. EndMeansDrained
      <3> SUFFICES ASSUME NEW e \in Ends, NEW n \in 1 .. ReceiveBudget[e],
                          "end" \in Given(ReceiveOp(e, n))
                   PROVE  delivered[e] = committed[Peer(e)]
        BY DEF EndMeansDrained
      <3>1. Told(ReceiveOp(e, n), "end") => queues[Peer(e)] = <<>>
        BY <2>0 DEF TruthInv
      <3>2. queues[Peer(e)] = <<>>
        BY <3>1 DEF Told
      <3>3. delivered[Peer(Peer(e))] \o queues[Peer(e)] = committed[Peer(e)]
        BY PeerEnds DEF Inv, Conservation
      <3>4. delivered[e] \in Seq(Messages)
        BY <2>0 DEF TypeOK, Messages
      <3>5. QED
        BY <3>2, <3>3, <3>4, PeerEnds, ConcatEmptySeq
    <2>4. InCallOrder
      BY <2>0, <2>1 DEF InCallOrder, OrderInv, Ordered
    <2>5. OnlyBoundedReceivesTimeOut
      BY <2>0 DEF OnlyBoundedReceivesTimeOut, TruthInv, Told
    <2>6. QED
      BY <2>2, <2>3, <2>4, <2>5 DEF HonestOutcomes
  <1>2. QED
    BY <1>1, OutcomeInvariant, PTL
=============================================================================
