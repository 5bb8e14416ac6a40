---------------------------- MODULE WsPairProofs ----------------------------
(* Machine-checked proofs about the in-memory pair, for every queue depth,   *)
(* every budget and every number of threads: type correctness, the parked-   *)
(* slot discipline, conservation of messages, and that the pair implements   *)
(* the bounded duplex channel.                                               *)
EXTENDS WsPair, SequenceTheorems, TLAPS

Messages == Nat \ {0}
Debts == [locked : BOOLEAN, todo : Seq(Completions) \ {<<>>}]

-----------------------------------------------------------------------------
\* The two ends are each other's peers.
LEMMA PeerEnds ==
    ASSUME NEW e \in Ends
    PROVE  Peer(e) \in Ends /\ Peer(e) # e /\ Peer(Peer(e)) = e
  BY DEF Ends, Peer

\* A message appended to what waits is appended to the whole history.
LEMMA AppendConcat ==
    ASSUME NEW S, NEW d \in Seq(S), NEW q \in Seq(S), NEW m \in S
    PROVE  d \o Append(q, m) = Append(d \o q, m)
  <1>1. /\ d \o Append(q, m) \in Seq(S) /\ Append(d \o q, m) \in Seq(S)
        /\ Append(q, m) \in Seq(S) /\ d \o q \in Seq(S)
    OBVIOUS
  <1>2. Len(d \o Append(q, m)) = Len(Append(d \o q, m))
    OBVIOUS
  <1>3. \A i \in 1 .. Len(d \o Append(q, m)) :
            (d \o Append(q, m))[i] = Append(d \o q, m)[i]
    OBVIOUS
  <1>4. QED
    BY <1>1, <1>2, <1>3, SeqEqual

\* The same for a direction of the pair, whose messages are send numbers.
LEMMA HistoryAppend ==
    \A d, q \in Seq(Messages) : \A m \in Messages :
        d \o Append(q, m) = Append(d \o q, m)
  BY AppendConcat

\* Taking the front of what waits leaves the whole history as it was.
LEMMA TakeConcat ==
    ASSUME NEW S, NEW d \in Seq(S), NEW q \in Seq(S), q # <<>>
    PROVE  Append(d, Head(q)) \o Tail(q) = d \o q
  <1>1. Head(q) \in S /\ Tail(q) \in Seq(S) /\ Len(q) \in Nat \ {0}
    BY EmptySeq, HeadTailProperties
  <1>2. Append(d, Head(q)) \o Tail(q) \in Seq(S) /\ d \o q \in Seq(S)
    BY <1>1
  <1>3. Len(Append(d, Head(q)) \o Tail(q)) = Len(d \o q)
    BY <1>1
  <1>4. \A i \in 1 .. Len(d \o q) : (Append(d, Head(q)) \o Tail(q))[i] = (d \o q)[i]
    BY <1>1
  <1>5. QED
    BY <1>2, <1>3, <1>4, SeqEqual

\* A message handed over while nothing waits goes to the end of the history.
LEMMA HandConcat ==
    ASSUME NEW S, NEW d \in Seq(S), NEW m \in S
    PROVE  Append(d, m) \o <<>> = Append(d \o <<>>, m)
  BY ConcatEmptySeq, Append(d, m) \in Seq(S)

-----------------------------------------------------------------------------
\* What a thread may owe, and what an operation's completion is.
LEMMA CompletionType ==
    ASSUME NEW e \in Ends, NEW n \in Nat, NEW out \in Outcomes
    PROVE  /\ Completion(SendOp(e, n), out) \in Completions
           /\ Completion(ReceiveOp(e, n), out) \in Completions
           /\ Parked(SendOp(e, n), out) \in Seq(Completions)
           /\ Parked(ReceiveOp(e, n), out) \in Seq(Completions)
  <1>1. /\ Completion(SendOp(e, n), out) \in Completions
        /\ Completion(ReceiveOp(e, n), out) \in Completions
    BY DEF Completion, Completions, SendOp, ReceiveOp, Ops
  <1>2. QED
    BY <1>1 DEF Parked

\* A thread that leaves a critical section owes a non-empty list or nothing.
LEMMA OweType ==
    ASSUME owed \in SUBSET Debts, NEW todo \in Seq(Completions), Owe(todo)
    PROVE  owed' \in SUBSET Debts
  <1>1. CASE todo = <<>>
    BY <1>1 DEF Owe
  <1>2. CASE todo # <<>>
    <2>1. todo \in Seq(Completions) \ {<<>>}
      BY <1>2
    <2>2. [locked |-> FALSE, todo |-> todo] \in Debts
      BY <2>1, Zenon DEF Debts
    <2>3. owed' = owed \cup {[locked |-> FALSE, todo |-> todo]}
      BY <1>2, Zenon DEF Owe
    <2>4. QED
      BY <2>2, <2>3, Zenon
  <1>3. QED
    BY <1>1, <1>2

\* An inline refusal is a debt of one completion.
LEMMA RefuseType ==
    ASSUME owed \in SUBSET Debts, NEW op \in Ops, NEW out \in Outcomes,
           RefuseLocked(op, out)
    PROVE  owed' \in SUBSET Debts
  <1>1. <<Completion(op, out)>> \in Seq(Completions) \ {<<>>}
    BY DEF Completion, Completions
  <1>2. [locked |-> TRUE, todo |-> <<Completion(op, out)>>] \in Debts
    BY <1>1, Zenon DEF Debts
  <1>3. QED
    BY <1>2, Zenon DEF RefuseLocked

\* A reported outcome extends one operation's log.
LEMMA ReportType ==
    ASSUME log \in [Issuable -> Seq(Outcomes)], NEW op, NEW out \in Outcomes,
           Report(op, out)
    PROVE  log' \in [Issuable -> Seq(Outcomes)]
  <1>1. log' = [x \in Issuable |-> IF x = op THEN Append(log[op], out) ELSE log[x]]
    BY Zenon DEF Report
  <1>2. \A x \in Issuable :
            (IF x = op THEN Append(log[op], out) ELSE log[x]) \in Seq(Outcomes)
    OBVIOUS
  <1>3. QED
    BY <1>1, <1>2, Zenon

-----------------------------------------------------------------------------
\* HandOver (a message enters) keeps the types of what it changes.
LEMMA HandOverType ==
    ASSUME TypeOK, NEW e \in Ends, NEW m \in Messages, HandOver(e, m)
    PROVE  /\ queues' \in [Ends -> Seq(Messages)]
           /\ pending_receive' \in [Ends -> Nat]
           /\ owed' \in SUBSET Debts
           /\ committed' \in [Ends -> Seq(Messages)]
           /\ delivered' \in [Ends -> Seq(Messages)]
           /\ log' \in [Issuable -> Seq(Outcomes)]
  <1> DEFINE p == Peer(e)
  <1>0. /\ queues \in [Ends -> Seq(Messages)] /\ pending_receive \in [Ends -> Nat]
        /\ owed \in SUBSET Debts /\ committed \in [Ends -> Seq(Messages)]
        /\ delivered \in [Ends -> Seq(Messages)] /\ log \in [Issuable -> Seq(Outcomes)]
        /\ p \in Ends /\ m \in Nat /\ {"ok", "message"} \subseteq Outcomes
    BY PeerEnds DEF TypeOK, Messages, Debts, Outcomes
  <1>1. committed' = [committed EXCEPT ![e] = Append(@, m)]
    BY Zenon DEF HandOver
  <1>2. committed' \in [Ends -> Seq(Messages)]
    BY <1>0, <1>1
  <1>3. CASE pending_receive[p] # None
    <2>1. /\ delivered' = [delivered EXCEPT ![p] = Append(@, m)]
          /\ pending_receive' = [pending_receive EXCEPT ![p] = None]
          /\ Owe(<<Completion(ReceiveOp(p, pending_receive[p]), "message"),
                   Completion(SendOp(e, m), "ok")>>)
          /\ queues' = queues /\ log' = log
      BY <1>3, Zenon DEF HandOver
    <2>2. <<Completion(ReceiveOp(p, pending_receive[p]), "message"),
            Completion(SendOp(e, m), "ok")>> \in Seq(Completions)
      <3>1. pending_receive[p] \in Nat
        BY <1>0
      <3>2. Completion(ReceiveOp(p, pending_receive[p]), "message") \in Completions
        BY <1>0, <3>1, CompletionType
      <3>3. Completion(SendOp(e, m), "ok") \in Completions
        BY <1>0, CompletionType
      <3>4. QED
        BY <3>2, <3>3
    <2>3. owed' \in SUBSET Debts
      BY <1>0, <2>1, <2>2, OweType
    <2>4. delivered' \in [Ends -> Seq(Messages)] /\ pending_receive' \in [Ends -> Nat]
      BY <1>0, <2>1 DEF None
    <2>5. QED
      BY <1>0, <1>2, <2>1, <2>3, <2>4
  <1>4. CASE pending_receive[p] = None
    <2>1. /\ queues' = [queues EXCEPT ![e] = Append(@, m)]
          /\ Report(SendOp(e, m), "ok")
          /\ delivered' = delivered /\ pending_receive' = pending_receive /\ owed' = owed
      BY <1>4, Zenon DEF HandOver
    <2>2. queues' \in [Ends -> Seq(Messages)]
      BY <1>0, <2>1
    <2>3. log' \in [Issuable -> Seq(Outcomes)]
      BY <1>0, <2>1, ReportType
    <2>4. QED
      BY <1>0, <1>2, <2>1, <2>2, <2>3
  <1>5. QED
    BY <1>3, <1>4

\* TakeFront (a message leaves) keeps the types of what it changes.
LEMMA TakeFrontType ==
    ASSUME TypeOK, NEW e \in Ends, NEW n \in Nat, queues[Peer(e)] # <<>>, TakeFront(e, n)
    PROVE  /\ queues' \in [Ends -> Seq(Messages)]
           /\ pending_send' \in [Ends -> Nat]
           /\ owed' \in SUBSET Debts
           /\ committed' \in [Ends -> Seq(Messages)]
           /\ delivered' \in [Ends -> Seq(Messages)]
           /\ log' \in [Issuable -> Seq(Outcomes)]
  <1> DEFINE p == Peer(e)
             absorb == pending_send[p] # None /\ Len(Tail(queues[p])) < Depth
  <1>0. /\ queues \in [Ends -> Seq(Messages)] /\ pending_send \in [Ends -> Nat]
        /\ owed \in SUBSET Debts /\ committed \in [Ends -> Seq(Messages)]
        /\ delivered \in [Ends -> Seq(Messages)] /\ log \in [Issuable -> Seq(Outcomes)]
        /\ p \in Ends /\ {"ok", "message"} \subseteq Outcomes
    BY PeerEnds DEF TypeOK, Messages, Debts, Outcomes
  <1>1. /\ Head(queues[p]) \in Messages /\ Tail(queues[p]) \in Seq(Messages)
        /\ pending_send[p] \in Nat
    BY <1>0, HeadTailProperties
  <1>2. delivered' = [delivered EXCEPT ![e] = Append(@, Head(queues[p]))]
    BY Zenon DEF TakeFront
  <1>3. delivered' \in [Ends -> Seq(Messages)]
    BY <1>0, <1>1, <1>2
  <1>4. CASE absorb
    <2>1. /\ queues' = [queues EXCEPT ![p] = Append(Tail(queues[p]), pending_send[p])]
          /\ committed' = [committed EXCEPT ![p] = Append(@, pending_send[p])]
          /\ pending_send' = [pending_send EXCEPT ![p] = None]
          /\ Owe(<<Completion(SendOp(p, pending_send[p]), "ok"),
                   Completion(ReceiveOp(e, n), "message")>>)
          /\ log' = log
      BY <1>4, Zenon DEF TakeFront
    <2>2. pending_send[p] \in Messages
      BY <1>1, <1>4 DEF None, Messages
    <2>3. <<Completion(SendOp(p, pending_send[p]), "ok"),
            Completion(ReceiveOp(e, n), "message")>> \in Seq(Completions)
      <3>1. Completion(SendOp(p, pending_send[p]), "ok") \in Completions
        BY <1>0, <1>1, CompletionType
      <3>2. Completion(ReceiveOp(e, n), "message") \in Completions
        BY <1>0, CompletionType
      <3>3. QED
        BY <3>1, <3>2
    <2>4. owed' \in SUBSET Debts
      BY <1>0, <2>1, <2>3, OweType
    <2>5. queues' \in [Ends -> Seq(Messages)] /\ committed' \in [Ends -> Seq(Messages)]
      BY <1>0, <1>1, <2>1, <2>2
    <2>6. pending_send' \in [Ends -> Nat]
      BY <1>0, <2>1 DEF None
    <2>7. QED
      BY <1>0, <1>3, <2>1, <2>4, <2>5, <2>6
  <1>5. CASE ~absorb
    <2>1. /\ queues' = [queues EXCEPT ![p] = Tail(queues[p])]
          /\ Report(ReceiveOp(e, n), "message")
          /\ committed' = committed /\ pending_send' = pending_send /\ owed' = owed
      BY <1>5, Zenon DEF TakeFront
    <2>2. queues' \in [Ends -> Seq(Messages)]
      BY <1>0, <1>1, <2>1
    <2>3. log' \in [Issuable -> Seq(Outcomes)]
      BY <1>0, <2>1, ReportType
    <2>4. QED
      BY <1>0, <1>3, <2>1, <2>2, <2>3
  <1>6. QED
    BY <1>4, <1>5

\* Send's critical section, once its wait is over, keeps the types.
LEMMA FinishSendType ==
    ASSUME TypeOK, NEW e \in Ends, NEW m \in Messages, FinishSend(e, m)
    PROVE  /\ queues' \in [Ends -> Seq(Messages)]
           /\ pending_receive' \in [Ends -> Nat]
           /\ owed' \in SUBSET Debts
           /\ committed' \in [Ends -> Seq(Messages)]
           /\ delivered' \in [Ends -> Seq(Messages)]
           /\ log' \in [Issuable -> Seq(Outcomes)]
  <1>1. CASE closed
    <2>1. /\ Report(SendOp(e, m), "transport")
          /\ UNCHANGED <<queues, pending_receive, committed, delivered, owed>>
      BY <1>1, Zenon DEF FinishSend
    <2>2. log' \in [Issuable -> Seq(Outcomes)]
      BY <2>1, ReportType DEF TypeOK, Outcomes
    <2>3. QED
      BY <2>1, <2>2, Zenon DEF TypeOK, Messages, Debts
  <1>2. CASE ~closed
    BY <1>2, HandOverType DEF FinishSend
  <1>3. QED
    BY <1>1, <1>2

\* Receive's critical section, once its wait is over, keeps the types.
LEMMA FinishReceiveType ==
    ASSUME TypeOK, NEW e \in Ends, NEW n \in Nat, FinishReceive(e, n)
    PROVE  /\ queues' \in [Ends -> Seq(Messages)]
           /\ pending_send' \in [Ends -> Nat]
           /\ owed' \in SUBSET Debts
           /\ committed' \in [Ends -> Seq(Messages)]
           /\ delivered' \in [Ends -> Seq(Messages)]
           /\ log' \in [Issuable -> Seq(Outcomes)]
  <1>1. CASE queues[Peer(e)] = <<>>
    <2>1. /\ Report(ReceiveOp(e, n), "end")
          /\ UNCHANGED <<queues, pending_send, committed, delivered, owed>>
      BY <1>1, Zenon DEF FinishReceive
    <2>2. log' \in [Issuable -> Seq(Outcomes)]
      BY <2>1, ReportType DEF TypeOK, Outcomes
    <2>3. QED
      BY <2>1, <2>2, Zenon DEF TypeOK, Messages, Debts
  <1>2. CASE queues[Peer(e)] # <<>>
    BY <1>2, TakeFrontType DEF FinishReceive
  <1>3. QED
    BY <1>1, <1>2

-----------------------------------------------------------------------------
\* Every step of every thread preserves the types.
LEMMA TypeStep ==
    ASSUME TypeOK, [Next]_vars
    PROVE  TypeOK'
  <1> USE DEF Messages, Debts
  <1>1. ASSUME NEW e \in Ends, Send(e) PROVE TypeOK'
    <2>1. /\ sends' = [sends EXCEPT ![e] = @ + 1]
          /\ UNCHANGED <<pending_send, receive_park_generation, blocked_receivers,
                         closed, peer_close, threads, receives, bounded>>
      BY <1>1, Zenon DEF Send, IssueSend
    <2>2. sends[e] + 1 \in Messages /\ sends' \in [Ends -> Nat]
      BY <2>1 DEF TypeOK
    <2>3. CASE CanSend(e)
      <3>1. FinishSend(e, sends[e] + 1) /\ UNCHANGED blocked_senders
        BY <1>1, <2>3, Zenon DEF Send
      <3>2. QED
        BY <2>1, <2>2, <3>1, FinishSendType, Zenon DEF TypeOK, threads
    <2>4. CASE ~CanSend(e)
      <3>1. /\ blocked_senders' = [blocked_senders EXCEPT ![e] = @ \cup {sends[e] + 1}]
            /\ UNCHANGED <<queues, pending_receive, committed, delivered, owed, log>>
        BY <1>1, <2>4, Zenon DEF Send
      <3>2. blocked_senders' \in [Ends -> SUBSET (Nat \ {0})]
        BY <2>2, <3>1 DEF TypeOK
      <3>3. QED
        BY <2>1, <2>2, <3>1, <3>2, Zenon DEF TypeOK, threads
    <2>5. QED
      BY <2>3, <2>4
  <1>2. ASSUME NEW e \in Ends, SendWakes(e) PROVE TypeOK'
    <2>1. PICK m \in blocked_senders[e] :
            /\ blocked_senders' = [blocked_senders EXCEPT ![e] = @ \ {m}]
            /\ FinishSend(e, m)
            /\ UNCHANGED <<pending_send, receive_park_generation, blocked_receivers,
                           closed, peer_close, threads, sends, receives, bounded>>
      BY <1>2, Zenon DEF SendWakes
    <2>2. m \in Messages /\ blocked_senders' \in [Ends -> SUBSET (Nat \ {0})]
      BY <2>1 DEF TypeOK
    <2>3. QED
      BY <2>1, <2>2, FinishSendType, Zenon DEF TypeOK, threads
  <1>3. ASSUME NEW e \in Ends, SendAsync(e) PROVE TypeOK'
    <2> DEFINE m == sends[e] + 1
    <2>1. /\ sends' = [sends EXCEPT ![e] = @ + 1]
          /\ UNCHANGED <<receive_park_generation, blocked_receivers, blocked_senders,
                         closed, peer_close, threads, receives, bounded>>
      BY <1>3, Zenon DEF SendAsync, IssueSend
    <2>2. m \in Messages /\ sends' \in [Ends -> Nat]
      BY <2>1 DEF TypeOK
    <2>3. ASSUME NEW out \in {"transport", "validation"}, RefuseLocked(SendOp(e, m), out),
                 UNCHANGED <<queues, pending_receive, pending_send, committed, delivered, log>>
          PROVE  TypeOK'
      <3>1. SendOp(e, m) \in Ops /\ out \in Outcomes
        BY <2>2 DEF SendOp, Ops, Outcomes
      <3>2. owed' \in SUBSET Debts
        BY <2>3, <3>1, RefuseType DEF TypeOK
      <3>3. QED
        BY <2>1, <2>2, <2>3, <3>2, Zenon DEF TypeOK, threads
    <2>4. ASSUME pending_send' = [pending_send EXCEPT ![e] = m],
                 UNCHANGED <<queues, pending_receive, committed, delivered, owed, log>>
          PROVE  TypeOK'
      <3>1. pending_send' \in [Ends -> Nat]
        BY <2>2, <2>4 DEF TypeOK
      <3>2. QED
        BY <2>1, <2>2, <2>4, <3>1, Zenon DEF TypeOK, threads
    <2>5. ASSUME HandOver(e, m), UNCHANGED pending_send PROVE TypeOK'
      BY <2>1, <2>2, <2>5, HandOverType, Zenon DEF TypeOK, threads
    <2>6. QED
      BY <1>3, <2>3, <2>4, <2>5, Zenon DEF SendAsync
  <1>4. ASSUME NEW e \in Ends, NEW timed \in BOOLEAN, ReceiveWithin(e, timed)
        PROVE  TypeOK'
    <2> DEFINE n == receives[e] + 1
    <2>1. /\ receives' = [receives EXCEPT ![e] = @ + 1]
          /\ bounded' = IF timed THEN bounded \cup {ReceiveOp(e, n)} ELSE bounded
          /\ UNCHANGED <<pending_receive, receive_park_generation, blocked_senders,
                         closed, peer_close, threads, sends>>
      BY <1>4, Zenon DEF ReceiveWithin, IssueReceive
    <2>2. n \in Nat \ {0} /\ receives' \in [Ends -> Nat]
      BY <2>1 DEF TypeOK
    <2>3. ReceiveOp(e, n) \in Ops
      BY <2>2 DEF ReceiveOp, Ops
    <2>4. bounded' \in SUBSET Ops
      BY <2>1, <2>3, Zenon DEF TypeOK
    <2>5. CASE Arrived(e)
      <3>1. FinishReceive(e, n) /\ UNCHANGED blocked_receivers
        BY <1>4, <2>5, Zenon DEF ReceiveWithin
      <3>2. n \in Nat
        BY <2>2
      <3>3. QED
        BY <2>1, <2>2, <2>4, <3>1, <3>2, FinishReceiveType, Zenon DEF TypeOK, threads
    <2>6. CASE ~Arrived(e)
      <3>1. /\ blocked_receivers' =
                 [blocked_receivers EXCEPT ![e] = @ \cup {[n |-> n, timed |-> timed]}]
            /\ UNCHANGED <<queues, pending_send, committed, delivered, owed, log>>
        BY <1>4, <2>6, Zenon DEF ReceiveWithin
      <3>2. [n |-> n, timed |-> timed] \in [n : Nat \ {0}, timed : BOOLEAN]
        BY <2>2, Zenon
      <3>3. blocked_receivers' \in [Ends -> SUBSET [n : Nat \ {0}, timed : BOOLEAN]]
        BY <3>1, <3>2, Zenon DEF TypeOK
      <3>4. QED
        BY <2>1, <2>2, <2>4, <3>1, <3>3, Zenon DEF TypeOK, threads
    <2>7. QED
      BY <2>5, <2>6
  <1>5. ASSUME NEW e \in Ends, ReceiveWakes(e) PROVE TypeOK'
    <2>1. PICK r \in blocked_receivers[e] :
            /\ blocked_receivers' = [blocked_receivers EXCEPT ![e] = @ \ {r}]
            /\ FinishReceive(e, r.n)
            /\ UNCHANGED <<pending_receive, receive_park_generation, blocked_senders,
                           closed, peer_close, threads, sends, receives, bounded>>
      BY <1>5, Zenon DEF ReceiveWakes
    <2>2. r \in [n : Nat \ {0}, timed : BOOLEAN]
      BY <2>1, Zenon DEF TypeOK
    <2>3. r.n \in Nat
      BY <2>2
    <2>4. blocked_receivers' \in [Ends -> SUBSET [n : Nat \ {0}, timed : BOOLEAN]]
      BY <2>1, Zenon DEF TypeOK
    <2>5. QED
      BY <2>1, <2>3, <2>4, FinishReceiveType, Zenon DEF TypeOK, threads
  <1>6. ASSUME NEW e \in Ends, ReceiveTimesOut(e) PROVE TypeOK'
    <2>1. PICK r \in blocked_receivers[e] :
            /\ blocked_receivers' = [blocked_receivers EXCEPT ![e] = @ \ {r}]
            /\ Report(ReceiveOp(e, r.n), "timeout")
            /\ UNCHANGED <<queues, pending_receive, pending_send,
                           receive_park_generation, blocked_senders, closed, peer_close,
                           threads, sends, receives, bounded, committed, delivered, owed>>
      BY <1>6, Zenon DEF ReceiveTimesOut
    <2>2. blocked_receivers' \in [Ends -> SUBSET [n : Nat \ {0}, timed : BOOLEAN]]
      BY <2>1, Zenon DEF TypeOK
    <2>3. log' \in [Issuable -> Seq(Outcomes)]
      BY <2>1, ReportType DEF TypeOK, Outcomes
    <2>4. QED
      BY <2>1, <2>2, <2>3, Zenon DEF TypeOK, threads
  <1>7. ASSUME NEW e \in Ends, NEW budget \in {"none", "poll", "timed"},
               ReceiveAsyncWithin(e, budget)
        PROVE  TypeOK'
    <2> DEFINE n == receives[e] + 1
               op == ReceiveOp(e, n)
               generation == receive_park_generation[e] + 1
    <2>1. /\ receives' = [receives EXCEPT ![e] = @ + 1]
          /\ bounded' = IF budget # "none" THEN bounded \cup {op} ELSE bounded
          /\ UNCHANGED <<blocked_receivers, blocked_senders, closed, peer_close,
                         watchdogs, sends>>
      BY <1>7, Zenon DEF ReceiveAsyncWithin, IssueReceive
    <2>2. n \in Nat /\ receives' \in [Ends -> Nat] /\ generation \in Nat
      BY <2>1 DEF TypeOK
    <2>3. op \in Ops
      BY <2>2 DEF ReceiveOp, Ops
    <2>4. bounded' \in SUBSET Ops
      BY <2>1, <2>3, Zenon DEF TypeOK
    <2>5. ASSUME RefuseLocked(op, "validation"),
                 UNCHANGED <<queues, pending_receive, pending_send, committed, delivered,
                             receive_park_generation, arming, log>>
          PROVE  TypeOK'
      <3>1. owed' \in SUBSET Debts
        BY <2>3, <2>5, RefuseType DEF TypeOK, Outcomes
      <3>2. QED
        BY <2>1, <2>2, <2>4, <2>5, <3>1, Zenon DEF TypeOK
    <2>6. ASSUME queues[Peer(e)] # <<>>, TakeFront(e, n),
                 UNCHANGED <<pending_receive, receive_park_generation, arming>>
          PROVE  TypeOK'
      BY <2>1, <2>2, <2>4, <2>6, TakeFrontType, Zenon DEF TypeOK
    <2>7. ASSUME NEW out \in {"end", "timeout"}, Report(op, out),
                 UNCHANGED <<queues, pending_receive, pending_send, committed, delivered,
                             receive_park_generation, arming, owed>>
          PROVE  TypeOK'
      <3>1. log' \in [Issuable -> Seq(Outcomes)]
        BY <2>7, ReportType DEF TypeOK, Outcomes
      <3>2. QED
        BY <2>1, <2>2, <2>4, <2>7, <3>1, Zenon DEF TypeOK
    <2>8. ASSUME pending_receive' = [pending_receive EXCEPT ![e] = n],
                 receive_park_generation' =
                   [receive_park_generation EXCEPT ![e] = generation],
                 arming' = IF budget = "timed"
                           THEN arming \cup {[end |-> e, generation |-> generation]}
                           ELSE arming,
                 UNCHANGED <<queues, pending_send, committed, delivered, owed, log>>
          PROVE  TypeOK'
      <3>1. /\ pending_receive' \in [Ends -> Nat]
            /\ receive_park_generation' \in [Ends -> Nat]
        BY <2>2, <2>8 DEF TypeOK
      <3>2. [end |-> e, generation |-> generation] \in [end : Ends, generation : Nat]
        BY <2>2
      <3>3. arming' \in SUBSET [end : Ends, generation : Nat]
        BY <2>8, <3>2, Zenon DEF TypeOK
      <3>4. QED
        BY <2>1, <2>2, <2>4, <2>8, <3>1, <3>3, Zenon DEF TypeOK
    <2>9. QED
      BY <1>7, <2>5, <2>6, <2>7, <2>8, Zenon DEF ReceiveAsyncWithin
  <1>8. ASSUME NEW e \in Ends, NEW why \in CloseReasons, End(e, why) PROVE TypeOK'
    <2>1. /\ peer_close' = PeerClose(e, why) /\ closed' = TRUE
          /\ pending_send' = [x \in Ends |-> None]
          /\ pending_receive' = [x \in Ends |-> None]
          /\ Owe(TerminalWaiters(0) \o TerminalWaiters(1))
          /\ UNCHANGED <<queues, receive_park_generation, blocked_receivers,
                         blocked_senders, threads, sends, receives, bounded, committed,
                         delivered, log>>
      BY <1>8, Zenon DEF End
    <2>2. pending_send' \in [Ends -> Nat] /\ pending_receive' \in [Ends -> Nat]
      BY <2>1 DEF None
    <2>3. peer_close' \in [Ends -> CloseReasons \cup {"none"}]
      <3>1. Peer(e) \in Ends
        BY PeerEnds
      <3>2. QED
        BY <2>1, <3>1, Zenon DEF TypeOK, PeerClose
    <2>4. \A x \in Ends : TerminalWaiters(x) \in Seq(Completions)
      <3>1. SUFFICES ASSUME NEW x \in Ends PROVE TerminalWaiters(x) \in Seq(Completions)
        OBVIOUS
      <3>2. pending_send[x] \in Nat /\ pending_receive[x] \in Nat
        BY DEF TypeOK
      <3>3. /\ Parked(SendOp(x, pending_send[x]), "transport") \in Seq(Completions)
            /\ Parked(ReceiveOp(x, pending_receive[x]), "end") \in Seq(Completions)
        BY <3>2, CompletionType DEF Outcomes
      <3>4. QED
        BY <3>3 DEF TerminalWaiters
    <2>5. TerminalWaiters(0) \o TerminalWaiters(1) \in Seq(Completions)
      BY <2>4 DEF Ends
    <2>6. owed' \in SUBSET Debts
      BY <2>1, <2>5, OweType DEF TypeOK
    <2>7. closed' \in BOOLEAN
      BY <2>1
    <2>8. QED
      BY <2>1, <2>2, <2>3, <2>6, <2>7, Zenon DEF TypeOK, threads
  <1>9. ASSUME NEW w \in [end : Ends, generation : Nat], NEW out \in {"transport", "timeout"},
               IF StillParked(w) THEN TakeParked(w, out)
                                 ELSE UNCHANGED <<pending_receive, owed>>
        PROVE  pending_receive' \in [Ends -> Nat] /\ owed' \in SUBSET Debts
    <2>1. CASE StillParked(w)
      <3>1. /\ pending_receive' = [pending_receive EXCEPT ![w.end] = None]
            /\ Owe(<<Completion(ReceiveOp(w.end, pending_receive[w.end]), out)>>)
        BY <1>9, <2>1, Zenon DEF TakeParked
      <3>2. w.end \in Ends /\ pending_receive[w.end] \in Nat /\ out \in Outcomes
        BY DEF TypeOK, Outcomes
      <3>3. <<Completion(ReceiveOp(w.end, pending_receive[w.end]), out)>> \in Seq(Completions)
        <4>1. Completion(ReceiveOp(w.end, pending_receive[w.end]), out) \in Completions
          BY <3>2, CompletionType, Zenon
        <4>2. QED
          BY <4>1
      <3>4. owed' \in SUBSET Debts
        BY <3>1, <3>3, OweType DEF TypeOK
      <3>5. pending_receive' \in [Ends -> Nat]
        BY <3>1, <3>2 DEF TypeOK, None
      <3>6. QED
        BY <3>4, <3>5
    <2>2. CASE ~StillParked(w)
      BY <1>9, <2>2, Zenon DEF TypeOK
    <2>3. QED
      BY <2>1, <2>2
  <1>10. CASE ArmReceiveDeadline
    BY <1>10, Zenon DEF ArmReceiveDeadline, TypeOK, state
  <1>11. CASE ArmFails
    <2>1. PICK w \in arming :
            /\ arming' = arming \ {w}
            /\ IF StillParked(w) THEN TakeParked(w, "transport")
                                 ELSE UNCHANGED <<pending_receive, owed>>
            /\ UNCHANGED <<queues, pending_send, receive_park_generation,
                           blocked_receivers, blocked_senders, closed, peer_close,
                           watchdogs, sends, receives, bounded, committed, delivered, log>>
      BY <1>11, Zenon DEF ArmFails
    <2>2. w \in [end : Ends, generation : Nat]
      BY Zenon DEF TypeOK
    <2>3. pending_receive' \in [Ends -> Nat] /\ owed' \in SUBSET Debts
      BY <1>9, <2>1, <2>2, Zenon
    <2>4. QED
      BY <2>1, <2>3, Zenon DEF TypeOK
  <1>12. CASE WatchdogWakes
    <2>1. PICK w \in watchdogs :
            /\ watchdogs' = watchdogs \ {w}
            /\ IF StillParked(w) THEN TakeParked(w, "timeout")
                                 ELSE UNCHANGED <<pending_receive, owed>>
            /\ UNCHANGED <<queues, pending_send, receive_park_generation,
                           blocked_receivers, blocked_senders, closed, peer_close,
                           arming, sends, receives, bounded, committed, delivered, log>>
      BY <1>12, Zenon DEF WatchdogWakes
    <2>2. w \in [end : Ends, generation : Nat]
      BY Zenon DEF TypeOK
    <2>3. pending_receive' \in [Ends -> Nat] /\ owed' \in SUBSET Debts
      BY <1>9, <2>1, <2>2, Zenon
    <2>4. QED
      BY <2>1, <2>3, Zenon DEF TypeOK
  <1>13. CASE Fire
    <2>1. PICK c \in owed :
            /\ log' = [log EXCEPT ![Head(c.todo).op] = Append(@, Head(c.todo).out)]
            /\ owed' = (owed \ {c}) \cup
                        (IF Len(c.todo) = 1 THEN {}
                         ELSE {[locked |-> c.locked, todo |-> Tail(c.todo)]})
            /\ UNCHANGED <<state, threads, sends, receives, bounded, committed, delivered>>
      BY <1>13, Zenon DEF Fire
    <2>2. c \in [locked : BOOLEAN, todo : Seq(Completions) \ {<<>>}]
      BY Zenon DEF TypeOK
    <2>3. c.locked \in BOOLEAN /\ c.todo \in Seq(Completions) /\ c.todo # <<>>
      BY <2>2, Zenon
    <2>4. Head(c.todo) \in Completions /\ Tail(c.todo) \in Seq(Completions)
      BY <2>3, HeadTailProperties
    <2>5. Head(c.todo).out \in Outcomes
      BY <2>4 DEF Completions
    <2>6. log' \in [Issuable -> Seq(Outcomes)]
      BY <2>1, <2>5, ReportType DEF TypeOK, Report
    <2>7. CASE Len(c.todo) = 1
      <3>1. owed' \in SUBSET Debts
        BY <2>1, <2>7, Zenon DEF TypeOK
      <3>2. QED
        BY <2>1, <2>6, <3>1, Zenon DEF TypeOK, state, threads
    <2>8. CASE Len(c.todo) # 1
      <3>1. Tail(c.todo) # <<>>
        <4>1. Len(c.todo) \in Nat /\ Len(c.todo) # 0 /\ Len(c.todo) # 1
          BY <2>3, <2>8, EmptySeq
        <4>2. Len(Tail(c.todo)) = Len(c.todo) - 1
          BY <2>3, HeadTailProperties
        <4>3. Len(Tail(c.todo)) # 0
          BY <4>1, <4>2
        <4>4. QED
          BY <2>4, <4>3, EmptySeq
      <3>2. [locked |-> c.locked, todo |-> Tail(c.todo)] \in Debts
        BY <2>3, <2>4, <3>1, Zenon
      <3>3. owed' \in SUBSET Debts
        BY <2>1, <2>8, <3>2, Zenon DEF TypeOK
      <3>4. QED
        BY <2>1, <2>6, <3>3, Zenon DEF TypeOK, state, threads
    <2>9. QED
      BY <2>7, <2>8
  <1>14. CASE UNCHANGED vars
    BY <1>14, Zenon DEF vars, TypeOK
  <1>15. QED
    BY <1>1, <1>2, <1>3, <1>4, <1>5, <1>6, <1>7, <1>8, <1>10, <1>11, <1>12, <1>13,
       <1>14, Zenon DEF Next

\* A fresh pair has the types.
LEMMA InitType == ASSUME Init PROVE TypeOK
  <1>1. /\ queues \in [Ends -> Seq(Nat \ {0})]
        /\ committed \in [Ends -> Seq(Nat \ {0})]
        /\ delivered \in [Ends -> Seq(Nat \ {0})]
        /\ log \in [Issuable -> Seq(Outcomes)]
    BY DEF Init
  <1>2. /\ pending_receive \in [Ends -> Nat] /\ pending_send \in [Ends -> Nat]
        /\ receive_park_generation \in [Ends -> Nat]
        /\ sends \in [Ends -> Nat] /\ receives \in [Ends -> Nat]
    BY DEF Init, None
  <1>3. /\ blocked_receivers \in [Ends -> SUBSET [n : Nat \ {0}, timed : BOOLEAN]]
        /\ blocked_senders \in [Ends -> SUBSET (Nat \ {0})]
        /\ peer_close \in [Ends -> CloseReasons \cup {"none"}]
        /\ closed \in BOOLEAN
    BY Zenon DEF Init
  <1>4. QED
    BY <1>1, <1>2, <1>3, Zenon DEF TypeOK, Init

\* The pair's state and the threads around it keep their types in every
\* behaviour, whatever the depth, the budgets and the number of threads.
THEOREM TypeCorrect == Spec => []TypeOK
  <1>1. Init => TypeOK
    BY InitType
  <1>2. TypeOK /\ [Next]_vars => TypeOK'
    BY TypeStep
  <1>3. QED
    BY <1>1, <1>2, PTL DEF Spec

-----------------------------------------------------------------------------
\* The inductive invariant.  Conservation is not inductive by itself: handing
\* a message straight to a parked receive keeps the order only if nothing
\* waits in the queue before it, which is what ParkedSlots says.
Inv == TypeOK /\ ParkedSlots /\ Conservation

\* A message enters a session with room: the slots and the history stay
\* right, and the channel accepts it or hands it off.
LEMMA HandOverStep ==
    ASSUME Inv, NEW e \in Ends, NEW m \in Messages, HandOver(e, m),
           ~closed, Len(queues[e]) < Depth, pending_send[e] = None,
           UNCHANGED <<pending_send, closed>>
    PROVE  ParkedSlots' /\ Conservation' /\ Channel!DNext
  <1> DEFINE p == Peer(e)
  <1>0. /\ queues \in [Ends -> Seq(Messages)] /\ pending_receive \in [Ends -> Nat]
        /\ committed \in [Ends -> Seq(Messages)] /\ delivered \in [Ends -> Seq(Messages)]
        /\ ParkedSlots /\ Conservation
    BY DEF TypeOK, Inv, Messages
  <1>1. p \in Ends /\ p # e /\ Peer(p) = e /\ Ends = {e, p}
    BY PeerEnds DEF Ends, Peer
  <1>2. committed' = [committed EXCEPT ![e] = Append(@, m)]
    BY Zenon DEF HandOver
  <1>3. delivered[p] \o queues[e] = committed[e] /\ delivered[e] \o queues[p] = committed[p]
    BY <1>0, <1>1 DEF Conservation
  <1>4. CASE pending_receive[p] # None
    <2>1. /\ delivered' = [delivered EXCEPT ![p] = Append(@, m)]
          /\ pending_receive' = [pending_receive EXCEPT ![p] = None]
          /\ queues' = queues
      BY <1>4, Zenon DEF HandOver
    <2>2. queues[e] = <<>>
      BY <1>0, <1>1, <1>4 DEF ParkedSlots
    <2>3. ParkedSlots'
      BY <1>0, <1>1, <2>1 DEF ParkedSlots
    <2>4. delivered'[p] \o queues'[e] = committed'[e]
      <3>1. delivered'[p] = Append(delivered[p], m) /\ queues'[e] = <<>>
            /\ committed'[e] = Append(committed[e], m)
        BY <1>0, <1>1, <1>2, <2>1, <2>2
      <3>2. Append(delivered[p], m) \o <<>> = Append(delivered[p] \o <<>>, m)
        BY <1>0, <1>1, HandConcat
      <3>3. QED
        BY <1>3, <2>2, <3>1, <3>2
    <2>5. delivered'[e] \o queues'[p] = committed'[p]
      BY <1>0, <1>1, <1>2, <1>3, <2>1
    <2>6. Conservation'
      BY <1>1, <2>4, <2>5 DEF Conservation
    <2>7. Channel!HandOff(e, m)
      BY <2>1, <2>2 DEF Channel!HandOff, Channel!Other, Peer
    <2>8. QED
      BY <2>3, <2>6, <2>7 DEF Channel!DNext, Channel!Sides, Ends, Messages
  <1>5. CASE pending_receive[p] = None
    <2>1. /\ queues' = [queues EXCEPT ![e] = Append(@, m)]
          /\ delivered' = delivered /\ pending_receive' = pending_receive
      BY <1>5, Zenon DEF HandOver
    <2>2. ParkedSlots'
      <3>1. /\ queues'[e] = Append(queues[e], m) /\ queues'[p] = queues[p]
            /\ Len(Append(queues[e], m)) = Len(queues[e]) + 1
        BY <1>0, <1>1, <2>1
      <3>2. Len(queues[e]) \in Nat
        BY <1>0
      <3>3. QED
        BY <1>0, <1>1, <1>5, <2>1, <3>1, <3>2, DepthAssumption DEF ParkedSlots
    <2>3. delivered'[p] \o queues'[e] = committed'[e]
      <3>1. delivered[p] \o Append(queues[e], m) = Append(delivered[p] \o queues[e], m)
        <4>1. delivered[p] \in Seq(Messages) /\ queues[e] \in Seq(Messages)
          BY <1>0, <1>1
        <4>2. QED
          BY <4>1, HistoryAppend, Zenon
      <3>2. QED
        BY <1>0, <1>1, <1>2, <1>3, <2>1, <3>1
    <2>4. delivered'[e] \o queues'[p] = committed'[p]
      BY <1>0, <1>1, <1>2, <1>3, <2>1
    <2>5. Conservation'
      BY <1>1, <2>3, <2>4 DEF Conservation
    <2>6. Channel!Accept(e, m)
      BY <2>1 DEF Channel!Accept
    <2>7. QED
      BY <2>2, <2>5, <2>6 DEF Channel!DNext, Channel!Sides, Ends, Messages
  <1>6. QED
    BY <1>4, <1>5

\* A message leaves a session: a parked send that takes its slot fills the
\* queue again, and the channel takes one message and may admit another.
LEMMA TakeFrontStep ==
    ASSUME Inv, NEW e \in Ends, NEW n \in Nat, queues[Peer(e)] # <<>>, TakeFront(e, n),
           UNCHANGED <<pending_receive, closed>>
    PROVE  ParkedSlots' /\ Conservation' /\ Channel!DNext
  <1> DEFINE p == Peer(e)
             absorb == pending_send[p] # None /\ Len(Tail(queues[p])) < Depth
  <1>0. /\ queues \in [Ends -> Seq(Messages)] /\ pending_send \in [Ends -> Nat]
        /\ committed \in [Ends -> Seq(Messages)] /\ delivered \in [Ends -> Seq(Messages)]
        /\ ParkedSlots /\ Conservation
    BY DEF TypeOK, Inv, Messages
  <1>1. p \in Ends /\ p # e /\ Peer(p) = e /\ Ends = {e, p}
    BY PeerEnds DEF Ends, Peer
  <1>2. /\ Head(queues[p]) \in Messages /\ Tail(queues[p]) \in Seq(Messages)
        /\ Len(queues[p]) \in Nat \ {0} /\ Len(Tail(queues[p])) = Len(queues[p]) - 1
    BY <1>0, <1>1, HeadTailProperties, EmptySeq
  <1>3. delivered' = [delivered EXCEPT ![e] = Append(@, Head(queues[p]))]
    BY Zenon DEF TakeFront
  <1>4. delivered[p] \o queues[e] = committed[e] /\ delivered[e] \o queues[p] = committed[p]
    BY <1>0, <1>1 DEF Conservation
  <1>5. Append(delivered[e], Head(queues[p])) \o Tail(queues[p]) = committed[p]
    BY <1>0, <1>1, <1>4, TakeConcat
  <1>6. pending_receive[e] = None
    BY <1>0, <1>1 DEF ParkedSlots
  <1>7. CASE absorb
    <2>1. /\ queues' = [queues EXCEPT ![p] = Append(Tail(queues[p]), pending_send[p])]
          /\ committed' = [committed EXCEPT ![p] = Append(@, pending_send[p])]
          /\ pending_send' = [pending_send EXCEPT ![p] = None]
      BY <1>7, Zenon DEF TakeFront
    <2>2. pending_send[p] \in Messages /\ ~closed /\ Len(queues[p]) = Depth
      BY <1>0, <1>1, <1>7 DEF None, ParkedSlots, Messages
    <2>3. ParkedSlots'
      <3>1. /\ queues'[p] = Append(Tail(queues[p]), pending_send[p]) /\ queues'[e] = queues[e]
            /\ Len(Append(Tail(queues[p]), pending_send[p])) = Depth
        BY <1>0, <1>1, <1>2, <2>1, <2>2
      <3>2. pending_send'[p] = None /\ pending_send'[e] = pending_send[e]
        BY <1>0, <1>1, <2>1
      <3>3. QED
        BY <1>0, <1>1, <1>6, <3>1, <3>2, DepthAssumption DEF ParkedSlots
    <2>4. delivered'[e] \o queues'[p] = committed'[p]
      <3>1. Append(delivered[e], Head(queues[p])) \in Seq(Messages)
        BY <1>0, <1>2
      <3>2. Append(delivered[e], Head(queues[p])) \o Append(Tail(queues[p]), pending_send[p])
              = Append(committed[p], pending_send[p])
        BY <1>2, <1>5, <2>2, <3>1, HistoryAppend, ZenonT(30)
      <3>3. QED
        BY <1>0, <1>1, <1>3, <2>1, <3>2
    <2>5. delivered'[p] \o queues'[e] = committed'[e]
      BY <1>0, <1>1, <1>3, <1>4, <2>1
    <2>6. Conservation'
      BY <1>1, <2>4, <2>5 DEF Conservation
    <2>7. Channel!TakeAndAdmit(e, pending_send[p])
      BY <1>0, <1>1, <1>3, <2>1, <2>2 DEF Channel!TakeAndAdmit, Channel!Other, Peer
    <2>8. QED
      BY <2>2, <2>3, <2>6, <2>7 DEF Channel!DNext, Channel!Sides, Ends, Messages
  <1>8. CASE ~absorb
    <2>1. /\ queues' = [queues EXCEPT ![p] = Tail(queues[p])]
          /\ committed' = committed /\ pending_send' = pending_send
      BY <1>8, Zenon DEF TakeFront
    <2>2. pending_send[p] = None
      <3>1. pending_send[p] # None => Len(queues[p]) = Depth
        BY <1>0, <1>1 DEF ParkedSlots
      <3>2. QED
        BY <1>2, <1>8, <3>1
    <2>3. ParkedSlots'
      <3>1. queues'[p] = Tail(queues[p]) /\ queues'[e] = queues[e]
        BY <1>0, <1>1, <2>1
      <3>2. Len(queues[p]) <= Depth /\ Len(Tail(queues[p])) <= Depth
        <4>1. Len(queues[p]) <= Depth
          BY <1>0, <1>1 DEF ParkedSlots
        <4>2. QED
          BY <1>2, <4>1, DepthAssumption
      <3>3. QED
        BY <1>0, <1>1, <1>6, <2>1, <2>2, <3>1, <3>2 DEF ParkedSlots
    <2>4. delivered'[e] \o queues'[p] = committed'[p]
      BY <1>0, <1>1, <1>3, <1>5, <2>1
    <2>5. delivered'[p] \o queues'[e] = committed'[e]
      BY <1>0, <1>1, <1>3, <1>4, <2>1
    <2>6. Conservation'
      BY <1>1, <2>4, <2>5 DEF Conservation
    <2>7. Channel!Take(e)
      BY <1>0, <1>1, <1>3, <2>1 DEF Channel!Take, Channel!Other, Peer
    <2>8. QED
      BY <2>3, <2>6, <2>7 DEF Channel!DNext, Channel!Sides, Ends, Messages
  <1>9. QED
    BY <1>7, <1>8

\* A step that moves no message and at most empties parked slots.
LEMMA QuietStep ==
    ASSUME Inv, UNCHANGED <<queues, committed, delivered, closed>>,
           \A x \in Ends : /\ pending_receive'[x] \in {None, pending_receive[x]}
                           /\ pending_send'[x] \in {None, pending_send[x]}
    PROVE  ParkedSlots' /\ Conservation' /\ UNCHANGED Channel!dvars
  <1>1. \A x \in Ends : Peer(x) \in Ends
    BY PeerEnds
  <1>2. ParkedSlots'
    BY <1>1 DEF Inv, ParkedSlots
  <1>3. Conservation'
    BY <1>1 DEF Inv, Conservation
  <1>4. QED
    BY <1>2, <1>3 DEF Channel!dvars

\* Send's critical section once it may go on: refused by a close, or in.
LEMMA FinishSendStep ==
    ASSUME Inv, NEW e \in Ends, NEW m \in Messages, CanSend(e), FinishSend(e, m),
           UNCHANGED <<pending_send, closed>>
    PROVE  /\ ParkedSlots' /\ Conservation'
           /\ Channel!DNext \/ UNCHANGED Channel!dvars
  <1>1. CASE closed
    <2>1. UNCHANGED <<queues, pending_receive, committed, delivered>>
      BY <1>1, Zenon DEF FinishSend
    <2>2. QED
      BY <2>1, QuietStep
  <1>2. CASE ~closed
    <2>1. HandOver(e, m) /\ Len(queues[e]) < Depth /\ pending_send[e] = None
      BY <1>2, Zenon DEF FinishSend, CanSend
    <2>2. QED
      BY <1>2, <2>1, HandOverStep
  <1>3. QED
    BY <1>1, <1>2

\* Receive's critical section once it may go on: the end, or a message.
LEMMA FinishReceiveStep ==
    ASSUME Inv, NEW e \in Ends, NEW n \in Nat, FinishReceive(e, n),
           UNCHANGED <<pending_receive, closed>>
    PROVE  /\ ParkedSlots' /\ Conservation'
           /\ Channel!DNext \/ UNCHANGED Channel!dvars
  <1>1. CASE queues[Peer(e)] = <<>>
    <2>1. UNCHANGED <<queues, pending_send, committed, delivered>>
      BY <1>1, Zenon DEF FinishReceive
    <2>2. QED
      BY <2>1, QuietStep
  <1>2. CASE queues[Peer(e)] # <<>>
    BY <1>2, TakeFrontStep DEF FinishReceive
  <1>3. QED
    BY <1>1, <1>2

\* Every step of every thread preserves the invariant and is a step of the
\* duplex channel or invisible to it.
LEMMA InvStep ==
    ASSUME Inv, [Next]_vars
    PROVE  Inv' /\ (Channel!DNext \/ UNCHANGED Channel!dvars)
  <1> DEFINE Goal == /\ ParkedSlots' /\ Conservation'
                     /\ Channel!DNext \/ UNCHANGED Channel!dvars
  <1>0. TypeOK /\ TypeOK'
    BY TypeStep DEF Inv
  <1> SUFFICES Goal
    BY <1>0 DEF Inv
  <1>1. ASSUME NEW e \in Ends, Send(e) PROVE Goal
    <2>1. UNCHANGED <<pending_send, closed>> /\ sends[e] + 1 \in Messages
      <3>1. UNCHANGED <<pending_send, closed>>
        BY <1>1, Zenon DEF Send
      <3>2. sends[e] + 1 \in Messages
        BY <1>0, SMTT(30) DEF TypeOK, Messages
      <3>3. QED
        BY <3>1, <3>2
    <2>2. CASE CanSend(e)
      BY <1>1, <2>1, <2>2, FinishSendStep DEF Send
    <2>3. CASE ~CanSend(e)
      <3>1. UNCHANGED <<queues, pending_receive, committed, delivered>>
        BY <1>1, <2>3, Zenon DEF Send
      <3>2. QED
        BY <2>1, <3>1, QuietStep
    <2>4. QED
      BY <2>2, <2>3
  <1>2. ASSUME NEW e \in Ends, SendWakes(e) PROVE Goal
    <2>1. PICK m \in blocked_senders[e] :
            CanSend(e) /\ FinishSend(e, m) /\ UNCHANGED <<pending_send, closed>>
      BY <1>2, Zenon DEF SendWakes
    <2>2. m \in Messages
      BY <1>0 DEF TypeOK, Messages
    <2>3. QED
      BY <2>1, <2>2, FinishSendStep
  <1>3. ASSUME NEW e \in Ends, SendAsync(e) PROVE Goal
    <2> DEFINE m == sends[e] + 1
    <2>1. UNCHANGED closed /\ m \in Messages
      BY <1>0, <1>3, SMTT(30) DEF SendAsync, TypeOK, Messages
    <2>2. CASE UNCHANGED <<queues, pending_receive, pending_send, committed, delivered>>
      BY <2>1, <2>2, QuietStep
    <2>3. ASSUME ~closed, ~SendOutstanding(e), Len(queues[e]) >= Depth,
                 pending_send' = [pending_send EXCEPT ![e] = m],
                 UNCHANGED <<queues, pending_receive, committed, delivered>>
          PROVE  Goal
      <3>1. \A x \in Ends : Peer(x) \in Ends
        BY PeerEnds
      <3>2. Len(queues[e]) = Depth
        <4>1. Len(queues[e]) <= Depth /\ Len(queues[e]) \in Nat
          BY DEF Inv, ParkedSlots, TypeOK
        <4>2. QED
          BY <2>3, <4>1, DepthAssumption
      <3>3. \A x \in Ends : pending_send'[x] = IF x = e THEN m ELSE pending_send[x]
        BY <1>0, <2>3 DEF TypeOK
      <3>4. ParkedSlots'
        BY <2>1, <2>3, <3>1, <3>2, <3>3 DEF Inv, ParkedSlots
      <3>5. Conservation' /\ UNCHANGED Channel!dvars
        BY <2>1, <2>3, <3>1 DEF Inv, Conservation, Channel!dvars
      <3>6. QED
        BY <3>4, <3>5
    <2>4. ASSUME ~closed, ~SendOutstanding(e), Len(queues[e]) < Depth, HandOver(e, m),
                 UNCHANGED pending_send
          PROVE  Goal
      BY <2>1, <2>4, HandOverStep DEF SendOutstanding
    <2>5. QED
      BY <1>3, <2>2, <2>3, <2>4, Zenon DEF SendAsync
  <1>4. ASSUME NEW e \in Ends, NEW timed \in BOOLEAN, ReceiveWithin(e, timed) PROVE Goal
    <2>1. UNCHANGED <<pending_receive, closed>> /\ receives[e] + 1 \in Nat
      <3>1. UNCHANGED <<pending_receive, closed>>
        BY <1>4, Zenon DEF ReceiveWithin
      <3>2. receives[e] + 1 \in Nat
        BY <1>0, SMTT(30) DEF TypeOK
      <3>3. QED
        BY <3>1, <3>2
    <2>2. CASE Arrived(e)
      <3>1. FinishReceive(e, receives[e] + 1)
        BY <1>4, <2>2, Zenon DEF ReceiveWithin
      <3>2. QED
        BY <2>1, <3>1, FinishReceiveStep
    <2>3. CASE ~Arrived(e)
      <3>1. UNCHANGED <<queues, pending_send, committed, delivered>>
        BY <1>4, <2>3, Zenon DEF ReceiveWithin
      <3>2. QED
        BY <2>1, <3>1, QuietStep
    <2>4. QED
      BY <2>2, <2>3
  <1>5. ASSUME NEW e \in Ends, ReceiveWakes(e) PROVE Goal
    <2>1. PICK r \in blocked_receivers[e] :
            FinishReceive(e, r.n) /\ UNCHANGED <<pending_receive, closed>>
      BY <1>5, Zenon DEF ReceiveWakes
    <2>2. r \in [n : Nat \ {0}, timed : BOOLEAN]
      BY <1>0, <2>1, Zenon DEF TypeOK
    <2>3. r.n \in Nat
      BY <2>2
    <2>4. QED
      BY <2>1, <2>3, FinishReceiveStep
  <1>6. ASSUME NEW e \in Ends, ReceiveTimesOut(e) PROVE Goal
    <2>1. UNCHANGED <<queues, pending_receive, pending_send, committed, delivered, closed>>
      BY <1>6, Zenon DEF ReceiveTimesOut
    <2>2. QED
      BY <2>1, QuietStep
  <1>7. ASSUME NEW e \in Ends, NEW budget \in {"none", "poll", "timed"},
               ReceiveAsyncWithin(e, budget)
        PROVE  Goal
    <2> DEFINE n == receives[e] + 1
    <2>1. UNCHANGED closed /\ n \in Nat
      BY <1>0, <1>7, SMTT(30) DEF ReceiveAsyncWithin, TypeOK
    <2>2. CASE UNCHANGED <<queues, pending_receive, pending_send, committed, delivered>>
      BY <2>1, <2>2, QuietStep
    <2>3. ASSUME queues[Peer(e)] # <<>>, TakeFront(e, n), UNCHANGED pending_receive
          PROVE  Goal
      BY <2>1, <2>3, TakeFrontStep
    <2>4. ASSUME CanPark(e), pending_receive' = [pending_receive EXCEPT ![e] = n],
                 UNCHANGED <<queues, pending_send, committed, delivered>>
          PROVE  Goal
      <3>1. \A x \in Ends : Peer(x) \in Ends
        BY PeerEnds
      <3>2. \A x \in Ends : pending_receive'[x] = IF x = e THEN n ELSE pending_receive[x]
        BY <1>0, <2>4 DEF TypeOK
      <3>3. ParkedSlots'
        BY <2>1, <2>4, <3>1, <3>2 DEF Inv, ParkedSlots, CanPark
      <3>4. Conservation' /\ UNCHANGED Channel!dvars
        BY <2>1, <2>4, <3>1 DEF Inv, Conservation, Channel!dvars
      <3>5. QED
        BY <3>3, <3>4
    <2>5. QED
      BY <1>7, <2>2, <2>3, <2>4, Zenon DEF ReceiveAsyncWithin
  <1>8. ASSUME NEW e \in Ends, NEW why \in CloseReasons, End(e, why) PROVE Goal
    <2>1. /\ closed' = TRUE /\ UNCHANGED <<queues, committed, delivered>>
          /\ pending_send' = [x \in Ends |-> None]
          /\ pending_receive' = [x \in Ends |-> None]
      BY <1>8, Zenon DEF End
    <2>2. ParkedSlots'
      BY <2>1 DEF Inv, ParkedSlots
    <2>3. Conservation'
      <3>1. \A x \in Ends : Peer(x) \in Ends
        BY PeerEnds
      <3>2. QED
        BY <2>1, <3>1 DEF Inv, Conservation
    <2>4. Channel!Finish
      BY <2>1 DEF Channel!Finish
    <2>5. QED
      BY <2>2, <2>3, <2>4 DEF Channel!DNext
  <1>9. CASE ArmReceiveDeadline \/ Fire
    <2>1. UNCHANGED <<queues, pending_receive, pending_send, committed, delivered, closed>>
      BY <1>9, Zenon DEF ArmReceiveDeadline, Fire, state
    <2>2. QED
      BY <2>1, QuietStep
  <1>10. CASE ArmFails \/ WatchdogWakes
    <2>1. PICK w \in arming \cup watchdogs :
            /\ \/ pending_receive' = [pending_receive EXCEPT ![w.end] = None]
               \/ pending_receive' = pending_receive
            /\ UNCHANGED <<queues, pending_send, committed, delivered, closed>>
      BY <1>10, Zenon DEF ArmFails, WatchdogWakes, TakeParked
    <2>2. \A x \in Ends : pending_receive'[x] \in {None, pending_receive[x]}
      BY <1>0, <2>1 DEF TypeOK
    <2>3. QED
      BY <2>1, <2>2, QuietStep
  <1>11. CASE UNCHANGED vars
    <2>1. UNCHANGED <<queues, pending_receive, pending_send, committed, delivered, closed>>
      BY <1>11, Zenon DEF vars
    <2>2. QED
      BY <2>1, QuietStep
  <1>12. QED
    BY <1>1, <1>2, <1>3, <1>4, <1>5, <1>6, <1>7, <1>8, <1>9, <1>10, <1>11, Zenon DEF Next

\* The invariant holds at the start and after every step.
LEMMA Invariance == Spec => []Inv
  <1>1. Init => Inv
    <2>1. SUFFICES ASSUME Init PROVE ParkedSlots /\ Conservation
      BY InitType DEF Inv
    <2>2. \A x \in Ends : Peer(x) \in Ends
      BY PeerEnds
    <2>3. QED
      BY <2>1, <2>2, DepthAssumption DEF Init, ParkedSlots, Conservation
  <1>2. Inv /\ [Next]_vars => Inv'
    BY InvStep
  <1>3. QED
    BY <1>1, <1>2, PTL DEF Spec

\* Whatever the interleaving, a parked receive never faces a queued message,
\* a parked send never faces room, no parked operation survives a close and
\* no queue passes kQueueDepth.
THEOREM SlotsDisciplined == Spec => []ParkedSlots
  <1>1. Inv => ParkedSlots
    BY DEF Inv
  <1>2. QED
    BY <1>1, Invariance, PTL

\* What one end's sends were accepted for is exactly what the other end's
\* receives were handed followed by what is queued, in that order.
THEOREM MessagesConserved == Spec => []Conservation
  <1>1. Inv => Conservation
    BY DEF Inv
  <1>2. QED
    BY <1>1, Invariance, PTL

\* PairState implements the bounded duplex channel: its blocking calls, its
\* parked operations, its handovers and its close are the channel's steps.
THEOREM PairImplementsDuplex == Spec => Channel!DSpec
  <1>1. Init => Channel!DInit
    BY DEF Init, Channel!DInit, Channel!Sides, Ends
  <1>2. Inv /\ [Next]_vars => [Channel!DNext]_(Channel!dvars)
    BY InvStep
  <1>3. QED
    BY <1>1, <1>2, Invariance, PTL DEF Spec, Channel!DSpec

-----------------------------------------------------------------------------
\* A reason is recorded at one end only, and only once the session is closed.
CloseInv ==
    /\ ~closed => \A e \in Ends : peer_close[e] = "none"
    /\ \A e \in Ends : peer_close[e] # "none" => peer_close[Peer(e)] = "none"

\* Only End touches the close; every other step leaves it alone.
LEMMA OnlyEndCloses ==
    ASSUME Next
    PROVE  \/ UNCHANGED <<closed, peer_close>>
           \/ \E e \in Ends, why \in CloseReasons :
                closed' = TRUE /\ peer_close' = PeerClose(e, why)
  <1>1. ASSUME NEW e \in Ends,
               \/ Send(e) \/ SendWakes(e) \/ SendAsync(e) \/ ReceiveWakes(e)
               \/ ReceiveTimesOut(e) \/ \E timed \in BOOLEAN : ReceiveWithin(e, timed)
               \/ \E budget \in {"none", "poll", "timed"} : ReceiveAsyncWithin(e, budget)
        PROVE  UNCHANGED <<closed, peer_close>>
    BY <1>1, Zenon DEF Send, SendWakes, SendAsync, ReceiveWakes, ReceiveTimesOut,
                       ReceiveWithin, ReceiveAsyncWithin
  <1>2. ASSUME NEW e \in Ends, NEW why \in CloseReasons, End(e, why)
        PROVE  closed' = TRUE /\ peer_close' = PeerClose(e, why)
    BY <1>2, Zenon DEF End
  <1>3. ASSUME ArmReceiveDeadline \/ ArmFails \/ WatchdogWakes \/ Fire
        PROVE  UNCHANGED <<closed, peer_close>>
    BY <1>3, Zenon DEF ArmReceiveDeadline, ArmFails, WatchdogWakes, Fire, state
  <1>4. QED
    BY <1>1, <1>2, <1>3, Zenon DEF Next

\* The close one end starts is the one the other reads, for good: a second
\* Close or Kick, from either end, neither replaces nor mirrors it.
THEOREM FirstCloseIsFinal == Spec => FirstCloseStands
  <1> DEFINE Stands == \A e \in Ends :
               /\ peer_close[e] # "none" => peer_close'[e] = peer_close[e]
               /\ peer_close'[e] # "none" => peer_close'[Peer(e)] = "none"
  <1>1. Init => CloseInv
    BY PeerEnds DEF Init, CloseInv
  <1>2. TypeOK /\ CloseInv /\ [Next]_vars => CloseInv' /\ Stands
    <2>1. SUFFICES ASSUME TypeOK, CloseInv, [Next]_vars PROVE CloseInv' /\ Stands
      OBVIOUS
    <2>2. \A x \in Ends : Peer(x) \in Ends /\ Peer(x) # x /\ Peer(Peer(x)) = x
      BY PeerEnds
    <2>3. CASE UNCHANGED <<closed, peer_close>>
      BY <2>1, <2>2, <2>3 DEF CloseInv
    <2>4. CASE \E e \in Ends, why \in CloseReasons :
                 closed' = TRUE /\ peer_close' = PeerClose(e, why)
      <3>1. PICK e \in Ends, why \in CloseReasons :
              closed' = TRUE /\ peer_close' = PeerClose(e, why)
        BY <2>4
      <3>2. CASE closed
        BY <2>1, <2>2, <3>1, <3>2 DEF CloseInv, PeerClose
      <3>3. CASE ~closed
        <4>1. /\ \A x \in Ends : peer_close[x] = "none"
              /\ peer_close' = [peer_close EXCEPT ![Peer(e)] = why]
              /\ peer_close \in [Ends -> CloseReasons \cup {"none"}]
          BY <2>1, <3>1, <3>3, Zenon DEF CloseInv, PeerClose, TypeOK
        <4>2. \A x \in Ends : peer_close'[x] = IF x = Peer(e) THEN why ELSE "none"
          BY <2>2, <4>1
        <4>3. QED
          BY <2>2, <3>1, <4>1, <4>2 DEF CloseInv
      <3>4. QED
        BY <3>2, <3>3
    <2>5. QED
      BY <2>1, <2>3, <2>4, OnlyEndCloses DEF vars
  <1>3. TypeOK /\ CloseInv /\ [Next]_vars => [Stands]_vars
    BY <1>2
  <1>4. QED
    BY <1>1, <1>2, <1>3, TypeCorrect, PTL DEF Spec, FirstCloseStands
=============================================================================
