-------------------------- MODULE BeastClientProofs --------------------------
(* Machine-checked proofs about the HTTP client, its retry loop and the      *)
(* dialed WebSocket's handle, for every number of callers, connections and   *)
(* handles, every pool size, body length and retry policy.                   *)
EXTENDS BeastClient, FiniteSetTheorems, SequenceTheorems, TLAPS

\* The request an answer belongs to: caller, attempt and send.
Tags == Callers \X Nat \X Nat
Calling == {"attempt", "dial", "write", "header", "body", "outcome", "done", "unused"}
OnWire == {"write", "header", "body"}

Frames ==
  [pc : Calling, attempt : Nat, conn : Conns \cup {NoConn},
   reused : BOOLEAN, sends : Nat, executed : Nat, streams : BOOLEAN,
   answer : Tags \cup {<<>>}, piece : Nat, sunk : Seq((Tags \cup {<<>>}) \X Nat),
   edits : Nat, seen : Nat, outcome : Outcomes, streamedOk : BOOLEAN]

TypeOK ==
  /\ policy \in Nat
  /\ idle \in Seq(Conns)
  /\ alive \subseteq Conns
  /\ owed \in [Conns -> Seq(Tags)]
  /\ call \in [Callers -> Frames]

\* A fresh dial follows at most one send, a second send at most one stale one;
\* the server acts on a send once, and not before it is waited for.
SendsLeft(f) ==
  /\ f.pc = "attempt" => f.sends = 0
  /\ f.pc = "dial" => f.sends <= 1
  /\ f.pc = "write" => f.sends <= (IF f.reused THEN 0 ELSE 1)
  /\ f.pc \in {"header", "body"} => f.sends <= (IF f.reused THEN 1 ELSE 2)
  /\ f.sends <= 2
  /\ f.executed <= f.sends
  /\ f.pc = "header" => f.executed < f.sends

RetryInv(p, f) ==
  /\ f.attempt >= 1 /\ f.attempt <= Larger(p, 1)
  /\ SendsLeft(f)
  /\ f.edits <= 1
  /\ f.seen = f.attempt - (IF f.pc = "done" THEN 0 ELSE 1)
  /\ f.pc = "done" /\ f.outcome.transient => f.attempt = Larger(p, 1)

\* The sink has been offered nothing until a body streams into it, and
\* nothing is retried once it has.
SinkInv(p, t, f) ==
  /\ f.pc \in {"attempt", "dial", "write", "header", "unused"} => f.sunk = <<>> /\ ~f.streamedOk
  /\ f.pc = "body" =>
      /\ ~f.streamedOk /\ f.piece <= Pieces
      /\ ~f.streams => f.sunk = <<>>
      /\ f.streams => /\ t \in Streaming
                      /\ p > 1 => ~f.outcome.transient
                      /\ Len(f.sunk) = f.piece
                      /\ \A i \in 1..Len(f.sunk) : f.sunk[i] = <<f.answer, i>>
  /\ f.pc \in {"outcome", "done"} =>
      /\ \A i \in 1..Len(f.sunk) : f.sunk[i] = <<f.sunk[1][1], i>>
      /\ f.streamedOk => Len(f.sunk) = Pieces
      /\ (f.sunk # <<>> \/ f.streamedOk) /\ p > 1 => ~f.outcome.transient

\* A caller holds a connection exactly while it is on the wire, the server
\* owes at most the answer to its last send there (q), and that is what it
\* reads.
WireInv(t, f, q) ==
  /\ f.conn \in Conns <=> f.pc \in OnWire
  /\ f.pc = "write" => q = <<>>
  /\ f.pc \in {"header", "body"} => q \in {<<>>, <<<<t, f.attempt, f.sends>>>>}
  /\ f.pc = "body" => f.answer = <<t, f.attempt, f.sends>>

\* Every connection has one owner, and the pool holds idle ones only.
PoolInv ==
  /\ Len(idle) <= MaxIdle
  /\ \A i, j \in 1..Len(idle) : idle[i] = idle[j] => i = j
  /\ \A i \in 1..Len(idle) : owed[idle[i]] = <<>>
  /\ \A t \in Callers : \A i \in 1..Len(idle) : call[t].conn # idle[i]
  /\ \A t, u \in Callers : call[t].conn = call[u].conn /\ t # u => call[t].conn = NoConn

FrameInv(p, t, f, q) == RetryInv(p, f) /\ SinkInv(p, t, f) /\ WireInv(t, f, q)

CallInv ==
  /\ TypeOK
  /\ PoolInv
  /\ \A t \in Callers : FrameInv(policy, t, call[t], owed[call[t].conn])

\* A dialed handle's machinery, by where its destructor is: who still holds
\* the DialedIo is who may still run in it.
Handle ==
  [pc : {"unused", "dial", "refused", "open", "joining", "released"},
   thread : {"none", "running", "ended"}, started : BOOLEAN, stopped : BOOLEAN,
   refs : SUBSET {"handle", "thread"}, freed : BOOLEAN, mode : {"raw", "json", "binary"},
   sessionEnded : BOOLEAN]

HandleInv(h) ==
  /\ h.pc \in {"unused", "dial", "refused"} => h.thread = "none" /\ h.refs = {}
  /\ h.pc \in {"unused", "dial"} => ~h.freed /\ ~h.stopped
  /\ h.pc \in {"open", "joining", "released"} =>
      /\ h.thread # "none"
      /\ "thread" \in h.refs <=> h.thread = "running"
      /\ "handle" \in h.refs <=> h.pc # "released"
      /\ h.freed <=> h.refs = {}
      /\ h.pc # "open" => h.sessionEnded
  /\ h.pc = "open" => ~h.stopped /\ h.thread = "running"

SocketInv ==
  /\ socket \in [Sockets -> Handle]
  /\ \A s \in Sockets : HandleInv(socket[s])

IInv == CallInv /\ SocketInv

-----------------------------------------------------------------------------
\* A handle that has not been dialed has no machinery.
LEMMA SocketInitInv == Init => SocketInv
  <1> SUFFICES ASSUME Init PROVE SocketInv
    OBVIOUS
  <1>1. ASSUME NEW pc \in {"unused", "dial"}
        PROVE  SocketInit(pc) \in Handle /\ HandleInv(SocketInit(pc))
    BY DEF SocketInit, Handle, HandleInv
  <1>2. PICK pc \in {"unused", "dial"} : socket = [s \in Sockets |-> SocketInit(pc)]
    BY DEF Init
  <1>3. QED
    BY <1>1, <1>2 DEF SocketInv

\* A step of one handle concerns that handle only.
LEMMA OneHandle ==
    ASSUME SocketInv, NEW s \in Sockets, NEW h, h \in Handle, HandleInv(h),
           socket' = [socket EXCEPT ![s] = h]
    PROVE  SocketInv'
  BY DEF SocketInv

\* One handle at a time: what its own steps, its I/O thread's and its
\* destructor's do to the references.
LEMMA SocketStepInv ==
    ASSUME SocketInv, NEW s \in Sockets, SocketStep(s)
    PROVE  SocketInv'
  <1>1. PICK f \in Handle : f = socket[s] /\ HandleInv(f)
    BY DEF SocketInv
  <1>2. CASE DialFails(s)
    <2> DEFINE h == [f EXCEPT !.pc = "refused", !.freed = TRUE]
    <2>1. f.pc = "dial" /\ socket' = [socket EXCEPT ![s] = h]
      BY <1>1, <1>2 DEF DialFails
    <2>2. h \in Handle /\ HandleInv(h)
      BY <1>1, <2>1 DEF Handle, HandleInv
    <2>3. QED
      BY <2>1, <2>2, OneHandle
  <1>3. CASE FinishDial(s)
    <2>1. PICK mode \in {"raw", "json", "binary"} :
            /\ f.pc = "dial"
            /\ socket' = [socket EXCEPT ![s] =
                 [f EXCEPT !.pc = "open", !.thread = "running", !.refs = {"handle", "thread"},
                           !.mode = mode]]
      BY <1>1, <1>3 DEF FinishDial
    <2> DEFINE h == [f EXCEPT !.pc = "open", !.thread = "running", !.refs = {"handle", "thread"},
                              !.mode = mode]
    <2>2. h \in Handle /\ HandleInv(h)
      BY <1>1, <2>1 DEF Handle, HandleInv
    <2>3. QED
      BY <2>1, <2>2, OneHandle
  <1>4. CASE IoStart(s)
    <2> DEFINE h == [f EXCEPT !.started = TRUE]
    <2>1. f.thread = "running" /\ ~f.stopped /\ socket' = [socket EXCEPT ![s] = h]
      BY <1>1, <1>4 DEF IoStart
    <2>2. h \in Handle /\ HandleInv(h)
      BY <1>1, <2>1 DEF Handle, HandleInv
    <2>3. QED
      BY <2>1, <2>2, OneHandle
  <1>5. CASE Joined(s)
    <2>0. PICK gone \in BOOLEAN : gone = (f.refs = {"handle"})
      OBVIOUS
    <2> DEFINE h == [f EXCEPT !.pc = "released", !.refs = f.refs \ {"handle"},
                              !.freed = gone]
    <2>1. f.pc = "joining" /\ f.thread = "ended" /\ socket' = [socket EXCEPT ![s] = h]
      BY <1>1, <1>5, <2>0, Zenon DEF Joined
    <2>2. f.refs = {"handle"} /\ gone
      BY <1>1, <2>0, <2>1 DEF Handle, HandleInv
    <2>3. f.refs \ {"handle"} = {}
      BY <2>2
    <2>4. h \in Handle /\ HandleInv(h)
      BY <1>1, <2>1, <2>2, <2>3 DEF Handle, HandleInv
    <2>5. QED
      BY <2>1, <2>4, OneHandle
  <1>6. CASE IoEnds(s)
    <2>0. PICK gone \in BOOLEAN : gone = (f.refs = {"thread"})
      OBVIOUS
    <2> DEFINE h == [f EXCEPT !.thread = "ended", !.refs = f.refs \ {"thread"},
                              !.freed = gone]
    <2>1. f.thread = "running" /\ f.stopped /\ socket' = [socket EXCEPT ![s] = h]
      BY <1>1, <1>6, <2>0, Zenon DEF IoEnds
    <2>2. f.pc \in {"joining", "released"} /\ "thread" \in f.refs
      BY <1>1, <2>1 DEF Handle, HandleInv
    <2>3. gone <=> f.refs \ {"thread"} = {}
      BY <2>0, <2>2
    <2>4. h \in Handle /\ HandleInv(h)
      BY <1>1, <2>1, <2>2, <2>3 DEF Handle, HandleInv
    <2>5. QED
      BY <2>1, <2>4, OneHandle
  <1>7. ASSUME NEW on \in {"io", "app"}, Destroy(s, on)
        PROVE  SocketInv'
    <2>0. PICK pc \in {"released", "joining"}, refs \in SUBSET {"handle", "thread"} :
            /\ pc = IF on = "io" THEN "released" ELSE "joining"
            /\ refs = IF on = "io" THEN f.refs \ {"handle"} ELSE f.refs
      BY DEF Handle
    <2> DEFINE h == [f EXCEPT !.stopped = TRUE, !.sessionEnded = TRUE, !.pc = pc, !.refs = refs]
    <2>1. f.pc = "open" /\ socket' = [socket EXCEPT ![s] = h]
      BY <1>1, <1>7, <2>0, Zenon DEF Destroy
    <2>2. h \in Handle /\ HandleInv(h)
      BY <1>1, <2>0, <2>1 DEF Handle, HandleInv
    <2>3. QED
      BY <2>1, <2>2, OneHandle
  <1>8. QED
    BY <1>2, <1>3, <1>4, <1>5, <1>6, <1>7 DEF SocketStep

-----------------------------------------------------------------------------
\* What the invariant says of one caller, and of the connection it holds.
LEMMA CallerFacts ==
    ASSUME CallInv, NEW t \in Callers
    PROVE  \E f \in Frames : f = call[t] /\ FrameInv(policy, t, f, owed[f.conn])
  BY DEF CallInv, TypeOK

\* A caller's step that keeps its connection or lets go of it, and touches
\* what the server owes on that connection only, concerns nobody else.
LEMMA OneCaller ==
    ASSUME CallInv, NEW t \in Callers, NEW f, f = call[t], NEW g \in Frames,
           call' = [call EXCEPT ![t] = g], UNCHANGED policy, UNCHANGED idle,
           alive' \in SUBSET Conns, owed' \in [Conns -> Seq(Tags)],
           g.conn \in {f.conn, NoConn},
           \A k \in Conns : k # f.conn => owed'[k] = owed[k],
           FrameInv(policy, t, g, owed'[g.conn])
    PROVE  CallInv'
  <1> USE ClientAssumption
  <1>t. /\ call \in [Callers -> Frames] /\ idle \in Seq(Conns) /\ f \in Frames
        /\ \A u \in Callers : call[u].conn \in Conns \cup {NoConn}
    BY DEF CallInv, TypeOK, Frames
  <1>1. TypeOK'
    BY <1>t DEF CallInv, TypeOK
  <1>2. \A u \in Callers : u # t => call'[u] = call[u]
    BY <1>t
  <1>3. call'[t] = g
    BY <1>t
  <1>4. \A i \in 1..Len(idle) : idle[i] \in Conns /\ idle[i] # f.conn
    BY <1>t DEF CallInv, PoolInv
  <1>5. PoolInv'
    BY <1>t, <1>2, <1>3, <1>4 DEF CallInv, PoolInv
  <1>6. ASSUME NEW u \in Callers
        PROVE  FrameInv(policy, u, call[u], owed[call[u].conn])'
    <2>1. CASE u = t
      BY <2>1, <1>3
    <2>2. CASE u # t /\ call[u].conn \in Conns
      <3>1. call[u].conn # f.conn
        BY <2>2, <1>t DEF CallInv, PoolInv
      <3>2. QED
        BY <2>2, <3>1, <1>2 DEF CallInv
    <2>3. CASE u # t /\ call[u].conn \notin Conns
      BY <2>3, <1>2 DEF CallInv, FrameInv, WireInv, OnWire
    <2>4. QED
      BY <2>1, <2>2, <2>3
  <1>7. QED
    BY <1>1, <1>5, <1>6 DEF CallInv

\* A dropped connection owes nothing; the others owe what they did.
LEMMA DropOwed ==
    ASSUME TypeOK, NEW k \in Conns, Drop(k)
    PROVE  /\ alive' \in SUBSET Conns /\ owed' \in [Conns -> Seq(Tags)]
           /\ owed'[k] = <<>> /\ \A j \in Conns : j # k => owed'[j] = owed[j]
  BY DEF TypeOK, Drop

\* An attempt that ends with an error: it may be retried unless the sink has
\* taken a piece of its body.
LEMMA FailsInv ==
    ASSUME CallInv, UNCHANGED policy, NEW t \in Callers, NEW r \in BOOLEAN, Fails(t, r),
           call[t].pc \in {"dial", "write", "header", "body"},
           call[t].pc = "body" /\ call[t].streams /\ call[t].piece > 0 => ~r
    PROVE  CallInv'
  <1>1. PICK f \in Frames : f = call[t] /\ FrameInv(policy, t, f, owed[f.conn])
    BY CallerFacts
  <1> DEFINE g == [f EXCEPT !.pc = "outcome", !.conn = NoConn,
                     !.answer = <<>>, !.piece = 0, !.streams = FALSE, !.reused = FALSE,
                     !.outcome = [ok |-> FALSE, transient |-> r]]
  <1>2. call' = [call EXCEPT ![t] = g]
    BY <1>1, Zenon DEF Fails
  <1>3. /\ g.pc = "outcome" /\ g.conn = NoConn /\ g.sends = f.sends /\ g.edits = f.edits
        /\ g.attempt = f.attempt /\ g.seen = f.seen /\ g.sunk = f.sunk /\ g.executed = f.executed
        /\ g.streamedOk = f.streamedOk /\ g.outcome.transient = r
    BY DEF Frames
  <1>4. g \in Frames
    BY DEF Frames, Calling, Outcomes
  <1> HIDE DEF g
  <1>5. RetryInv(policy, g)
    BY <1>1, <1>3 DEF FrameInv, RetryInv, SendsLeft
  <1>6. SinkInv(policy, t, g)
    <2>1. f.sunk \in Seq((Tags \cup {<<>>}) \X Nat) /\ f.piece \in Nat /\ f.streams \in BOOLEAN
      BY DEF Frames
    <2>2. CASE f.sunk = <<>>
      BY <1>1, <1>3, <2>2 DEF FrameInv, SinkInv
    <2>3. CASE f.sunk # <<>>
      <3>1. Len(f.sunk) \in Nat /\ Len(f.sunk) > 0
        BY <2>1, <2>3, EmptySeq
      <3>2. f.pc = "body" /\ f.streams /\ f.piece > 0 /\ ~f.streamedOk
        BY <1>1, <2>3, <3>1 DEF FrameInv, SinkInv
      <3>3. ~r
        BY <1>1, <3>2
      <3>4. \A i \in 1..Len(f.sunk) : f.sunk[i] = <<f.answer, i>>
        BY <1>1, <3>2 DEF FrameInv, SinkInv
      <3>5. f.sunk[1] = <<f.answer, 1>>
        BY <3>1, <3>4
      <3>6. \A i \in 1..Len(f.sunk) : f.sunk[i] = <<f.sunk[1][1], i>>
        BY <3>4, <3>5
      <3>7. QED
        BY <1>3, <3>2, <3>3, <3>6 DEF SinkInv
    <2>4. QED
      BY <2>2, <2>3
  <1>7. ASSUME NEW q PROVE WireInv(t, g, q)
    BY <1>3, ClientAssumption DEF WireInv, OnWire
  <1>8. /\ alive' \in SUBSET Conns /\ owed' \in [Conns -> Seq(Tags)]
        /\ \A k \in Conns : k # f.conn => owed'[k] = owed[k]
    BY <1>1, DropOwed DEF Fails, CallInv, TypeOK
  <1>9. UNCHANGED idle
    BY DEF Fails
  <1>10. QED
    BY <1>1, <1>2, <1>3, <1>4, <1>5, <1>6, <1>7, <1>8, <1>9, OneCaller DEF FrameInv

\* A request that the guards refuse ends the attempt at once.
LEMMA RefusedInv ==
    ASSUME CallInv, UNCHANGED policy, NEW t \in Callers, Refused(t)
    PROVE  CallInv'
  <1>1. PICK f \in Frames : f = call[t] /\ FrameInv(policy, t, f, owed[f.conn])
    BY CallerFacts
  <1> DEFINE g == [f EXCEPT !.pc = "outcome", !.edits = 1, !.outcome = NoOutcome]
  <1>2. f.pc = "attempt" /\ call' = [call EXCEPT ![t] = g] /\ UNCHANGED <<idle, alive, owed>>
    BY <1>1 DEF Refused
  <1>3. /\ g.pc = "outcome" /\ g.conn = f.conn /\ g.sends = f.sends /\ g.edits = 1
        /\ g.attempt = f.attempt /\ g.seen = f.seen /\ g.sunk = f.sunk /\ g.executed = f.executed
        /\ g.streamedOk = f.streamedOk /\ g.outcome = NoOutcome
    BY DEF Frames
  <1>4. g \in Frames
    BY DEF Frames, Calling, Outcomes, NoOutcome
  <1> HIDE DEF g
  <1>5. RetryInv(policy, g)
    BY <1>1, <1>2, <1>3 DEF FrameInv, RetryInv, SendsLeft, Frames, NoOutcome
  <1>6. SinkInv(policy, t, g)
    BY <1>1, <1>2, <1>3 DEF FrameInv, SinkInv, NoOutcome
  <1>7. ASSUME NEW q PROVE WireInv(t, g, q)
    BY <1>1, <1>2, <1>3 DEF FrameInv, WireInv, OnWire
  <1>8. QED
    BY <1>1, <1>2, <1>3, <1>4, <1>5, <1>6, <1>7, OneCaller DEF FrameInv, CallInv, TypeOK

\* An empty pool: the attempt dials.
LEMMA NoneIdleInv ==
    ASSUME CallInv, UNCHANGED policy, NEW t \in Callers, NoneIdle(t)
    PROVE  CallInv'
  <1>1. PICK f \in Frames : f = call[t] /\ FrameInv(policy, t, f, owed[f.conn])
    BY CallerFacts
  <1> DEFINE g == [f EXCEPT !.pc = "dial", !.edits = 1, !.reused = FALSE]
  <1>2. f.pc = "attempt" /\ call' = [call EXCEPT ![t] = g] /\ UNCHANGED <<idle, alive, owed>>
    BY <1>1 DEF NoneIdle
  <1>3. /\ g.pc = "dial" /\ g.conn = f.conn /\ g.sends = f.sends /\ g.edits = 1
        /\ g.attempt = f.attempt /\ g.seen = f.seen /\ g.sunk = f.sunk /\ g.executed = f.executed
        /\ g.streamedOk = f.streamedOk /\ g.outcome = f.outcome
    BY DEF Frames
  <1>4. g \in Frames
    BY DEF Frames, Calling, Outcomes, NoOutcome
  <1> HIDE DEF g
  <1>5. RetryInv(policy, g)
    BY <1>1, <1>2, <1>3 DEF FrameInv, RetryInv, SendsLeft, Frames, NoOutcome
  <1>6. SinkInv(policy, t, g)
    BY <1>1, <1>2, <1>3 DEF FrameInv, SinkInv, NoOutcome
  <1>7. ASSUME NEW q PROVE WireInv(t, g, q)
    BY <1>1, <1>2, <1>3 DEF FrameInv, WireInv, OnWire
  <1>8. QED
    BY <1>1, <1>2, <1>3, <1>4, <1>5, <1>6, <1>7, OneCaller DEF FrameInv, CallInv, TypeOK

\* The retry loop: another attempt starts over, or the call is done.
LEMMA RetryStepInv ==
    ASSUME CallInv, UNCHANGED policy, NEW t \in Callers, Retry(t)
    PROVE  CallInv'
  <1>1. PICK f \in Frames : f = call[t] /\ FrameInv(policy, t, f, owed[f.conn])
    BY CallerFacts
  <1>t. policy \in Nat /\ f.attempt \in Nat /\ f.seen \in Nat
    BY DEF CallInv, TypeOK, Frames
  <1>u. PICK seen \in Nat, attempt \in Nat : seen = f.seen + 1 /\ attempt = f.attempt + 1
    BY <1>t
  <1>2. f.pc = "outcome" /\ UNCHANGED <<idle, alive, owed>>
    BY <1>1 DEF Retry
  <1>3. CASE /\ f.attempt < policy /\ f.outcome.transient
             /\ call' = [call EXCEPT ![t] =
                   [f EXCEPT !.pc = "attempt", !.attempt = attempt, !.seen = seen,
                             !.sends = 0, !.executed = 0, !.outcome = NoOutcome]]
    <2> DEFINE g == [f EXCEPT !.pc = "attempt", !.attempt = attempt, !.seen = seen,
                              !.sends = 0, !.executed = 0, !.outcome = NoOutcome]
    <2>1. /\ g.pc = "attempt" /\ g.conn = f.conn /\ g.sends = 0 /\ g.edits = f.edits
          /\ g.attempt = attempt /\ g.seen = seen /\ g.sunk = f.sunk /\ g.executed = 0
          /\ g.streamedOk = f.streamedOk /\ g.outcome = NoOutcome
      BY DEF Frames
    <2>2. g \in Frames
      BY DEF Frames, Calling, Outcomes, NoOutcome
    <2>3. call' = [call EXCEPT ![t] = g]
      BY <1>3
    <2> HIDE DEF g
    <2>4. RetryInv(policy, g)
      BY <1>1, <1>2, <1>3, <1>t, <1>u, <2>1 DEF FrameInv, RetryInv, SendsLeft, Larger, NoOutcome
    <2>5. SinkInv(policy, t, g)
      BY <1>1, <1>2, <1>3, <1>t, <1>u, <2>1 DEF FrameInv, SinkInv, RetryInv
    <2>6. ASSUME NEW q PROVE WireInv(t, g, q)
      BY <1>1, <1>2, <2>1 DEF FrameInv, WireInv, OnWire
    <2>7. QED
      BY <1>1, <1>2, <2>1, <2>2, <2>3, <2>4, <2>5, <2>6, OneCaller DEF FrameInv, CallInv, TypeOK
  <1>4. CASE /\ ~(f.attempt < policy /\ f.outcome.transient)
             /\ call' = [call EXCEPT ![t] = [f EXCEPT !.pc = "done", !.seen = seen]]
    <2> DEFINE g == [f EXCEPT !.pc = "done", !.seen = seen]
    <2>1. /\ g.pc = "done" /\ g.conn = f.conn /\ g.sends = f.sends /\ g.edits = f.edits
          /\ g.attempt = f.attempt /\ g.seen = seen /\ g.sunk = f.sunk /\ g.executed = f.executed
          /\ g.streamedOk = f.streamedOk /\ g.outcome = f.outcome
      BY DEF Frames
    <2>2. g \in Frames
      BY DEF Frames, Calling
    <2>3. call' = [call EXCEPT ![t] = g]
      BY <1>4
    <2> HIDE DEF g
    <2>4. RetryInv(policy, g)
      BY <1>1, <1>2, <1>4, <1>t, <1>u, <2>1 DEF FrameInv, RetryInv, SendsLeft, Larger
    <2>5. SinkInv(policy, t, g)
      BY <1>1, <1>2, <2>1 DEF FrameInv, SinkInv
    <2>6. ASSUME NEW q PROVE WireInv(t, g, q)
      BY <1>1, <1>2, <2>1 DEF FrameInv, WireInv, OnWire
    <2>7. QED
      BY <1>1, <1>2, <2>1, <2>2, <2>3, <2>4, <2>5, <2>6, OneCaller DEF FrameInv, CallInv, TypeOK
  <1>5. QED
    BY <1>1, <1>3, <1>4, <1>u DEF Retry

\* The frame of a caller that dials again.
Redialling(f, executed) ==
  [f EXCEPT !.pc = "dial", !.conn = NoConn, !.reused = FALSE, !.executed = executed]

\* A caller gives its connection up and dials again: only a pooled connection
\* is stale, and it has carried at most one send.
LEMMA RedialInv ==
    ASSUME CallInv, UNCHANGED policy, UNCHANGED idle, NEW t \in Callers, NEW executed \in Nat,
           executed <= call[t].sends,
           call[t].pc \in {"write", "header"}, call[t].reused, Drop(call[t].conn),
           NEW g, call' = [call EXCEPT ![t] = g],
           g = Redialling(call[t], executed)
    PROVE  CallInv'
  <1>1. PICK f \in Frames : f = call[t] /\ FrameInv(policy, t, f, owed[f.conn])
    BY CallerFacts
  <1>2. f.pc \in {"write", "header"} /\ f.reused
    BY <1>1
  <1>3. /\ g.pc = "dial" /\ g.conn = NoConn /\ g.sends = f.sends /\ g.edits = f.edits
        /\ g.attempt = f.attempt /\ g.seen = f.seen /\ g.sunk = f.sunk /\ g.executed = executed
        /\ g.streamedOk = f.streamedOk /\ g.outcome = f.outcome
    BY <1>1 DEF Frames, Redialling
  <1>4. g \in Frames
    BY <1>1 DEF Frames, Calling, Redialling
  <1>5. RetryInv(policy, g)
    BY <1>1, <1>2, <1>3 DEF FrameInv, RetryInv, SendsLeft, Frames
  <1>6. SinkInv(policy, t, g)
    BY <1>1, <1>2, <1>3 DEF FrameInv, SinkInv
  <1>7. ASSUME NEW q PROVE WireInv(t, g, q)
    BY <1>3, ClientAssumption DEF WireInv, OnWire
  <1>8. f.conn \in Conns
    BY <1>1, <1>2 DEF FrameInv, WireInv, OnWire
  <1>9. /\ alive' \in SUBSET Conns /\ owed' \in [Conns -> Seq(Tags)]
        /\ \A k \in Conns : k # f.conn => owed'[k] = owed[k]
    BY <1>1, <1>8, DropOwed DEF CallInv
  <1>10. FrameInv(policy, t, g, owed'[g.conn]) /\ g.conn \in {f.conn, NoConn}
    BY <1>3, <1>5, <1>6, <1>7 DEF FrameInv
  <1>11. QED
    BY <1>1, <1>2, <1>4, <1>9, <1>10, OneCaller, ZenonT(30)

\* A request goes out: the server, if it is still there, owes its answer and
\* nothing else on this connection.
LEMMA WriteInv ==
    ASSUME CallInv, UNCHANGED policy, NEW t \in Callers, Write(t)
    PROVE  CallInv'
  <1>1. PICK f \in Frames : f = call[t] /\ FrameInv(policy, t, f, owed[f.conn])
    BY CallerFacts
  <1>t. /\ f.sends \in Nat /\ f.attempt \in Nat /\ owed \in [Conns -> Seq(Tags)]
        /\ alive \in SUBSET Conns /\ f.executed \in Nat
    BY DEF CallInv, TypeOK, Frames
  <1>u. PICK sends \in Nat : sends = f.sends + 1
    BY <1>t
  <1>2. f.pc = "write"
    BY <1>1 DEF Write
  <1>3. f.conn \in Conns /\ owed[f.conn] = <<>>
    BY <1>1, <1>2 DEF FrameInv, WireInv, OnWire
  <1>4. CASE Stale(t)
    <2> DEFINE g == [f EXCEPT !.pc = "dial", !.conn = NoConn, !.reused = FALSE]
    <2>1. call' = [call EXCEPT ![t] = g]
      BY <1>1, <1>4 DEF Stale
    <2>2. g = Redialling(f, f.executed)
      BY DEF Frames, Redialling
    <2> HIDE DEF g
    <2>3. QED
      BY <1>1, <1>2, <1>4, <1>t, <2>1, <2>2, RedialInv DEF Stale, FrameInv, RetryInv, SendsLeft
  <1>5. CASE Fails(t, TRUE)
    BY <1>1, <1>2, <1>5, FailsInv
  <1>6. CASE /\ call' = [call EXCEPT ![t] = [f EXCEPT !.pc = "header", !.sends = sends]]
             /\ owed' = IF f.conn \in alive
                        THEN [owed EXCEPT ![f.conn] = Append(@, <<t, f.attempt, sends>>)]
                        ELSE owed
             /\ UNCHANGED <<idle, alive>>
    <2> DEFINE g == [f EXCEPT !.pc = "header", !.sends = sends]
               tag == <<t, f.attempt, sends>>
    <2>1. /\ g.pc = "header" /\ g.conn = f.conn /\ g.sends = sends /\ g.edits = f.edits
          /\ g.attempt = f.attempt /\ g.seen = f.seen /\ g.sunk = f.sunk /\ g.executed = f.executed
          /\ g.streamedOk = f.streamedOk /\ g.outcome = f.outcome /\ g.reused = f.reused
      BY DEF Frames
    <2>2. g \in Frames
      BY DEF Frames, Calling
    <2>3. call' = [call EXCEPT ![t] = g]
      BY <1>6
    <2> HIDE DEF g
    <2>4. RetryInv(policy, g)
      BY <1>1, <1>2, <1>t, <1>u, <2>1, SMTT(30) DEF FrameInv, RetryInv, SendsLeft, Frames
    <2>5. SinkInv(policy, t, g)
      BY <1>1, <1>2, <2>1 DEF FrameInv, SinkInv
    <2>6. tag \in Tags
      BY <1>t DEF Tags
    <2>7. Append(owed[f.conn], tag) = <<tag>>
      BY <1>3, <2>6
    <2> HIDE DEF tag
    <2>8. /\ owed' \in [Conns -> Seq(Tags)] /\ \A k \in Conns : k # f.conn => owed'[k] = owed[k]
          /\ owed'[f.conn] \in {<<>>, <<tag>>}
      <3>1. CASE f.conn \in alive
        <4>1. owed' = [owed EXCEPT ![f.conn] = <<tag>>]
          BY <1>6, <2>7, <3>1 DEF tag
        <4>2. QED
          BY <1>3, <1>t, <2>6, <4>1
      <3>2. CASE f.conn \notin alive
        BY <1>3, <1>6, <1>t, <3>2
      <3>3. QED
        BY <3>1, <3>2
    <2>9. WireInv(t, g, owed'[g.conn])
      BY <1>3, <2>1, <2>8 DEF WireInv, OnWire, tag
    <2>10. QED
      BY <1>1, <1>6, <1>t, <2>1, <2>2, <2>3, <2>4, <2>5, <2>8, <2>9, OneCaller DEF FrameInv
  <1>7. QED
    BY <1>1, <1>4, <1>5, <1>6, <1>u DEF Write

\* The header arrives: what is read next is the answer the server owes first,
\* and a body streams only when the loop would not retry its status.
LEMMA HeaderInv ==
    ASSUME CallInv, UNCHANGED policy, NEW t \in Callers, Header(t)
    PROVE  CallInv'
  <1>1. PICK f \in Frames : f = call[t] /\ FrameInv(policy, t, f, owed[f.conn])
    BY CallerFacts
  <1>2. f.pc = "header" /\ owed[f.conn] # <<>>
    BY <1>1 DEF Header
  <1>3. CASE Fails(t, FALSE)
    BY <1>1, <1>2, <1>3, FailsInv
  <1>4. ASSUME NEW streams \in BOOLEAN, NEW transient \in BOOLEAN, NEW executed \in Nat,
               executed <= f.sends, streams => t \in Streaming /\ (policy > 1 => ~transient),
               UNCHANGED <<idle, alive, owed>>,
               call' = [call EXCEPT ![t] =
                            [f EXCEPT !.pc = "body", !.streams = streams, !.piece = 0,
                                      !.answer = Head(owed[f.conn]),
                                      !.executed = executed,
                                      !.outcome = [ok |-> TRUE, transient |-> transient]]]
        PROVE  CallInv'
    <2>1. PICK answer \in Tags : answer = <<t, f.attempt, f.sends>>
      BY DEF Frames, Tags
    <2>2. owed[f.conn] = <<answer>>
      BY <1>1, <1>2, <2>1 DEF FrameInv, WireInv
    <2>3. Head(owed[f.conn]) = answer
      BY <2>2
    <2> DEFINE g == [f EXCEPT !.pc = "body", !.streams = streams, !.piece = 0,
                              !.answer = answer, !.executed = executed,
                              !.outcome = [ok |-> TRUE, transient |-> transient]]
    <2>4. call' = [call EXCEPT ![t] = g]
      BY <1>4, <2>3, Zenon
    <2>5. /\ g.pc = "body" /\ g.conn = f.conn /\ g.sends = f.sends /\ g.edits = f.edits
          /\ g.attempt = f.attempt /\ g.seen = f.seen /\ g.sunk = f.sunk /\ g.answer = answer
          /\ g.executed = executed
          /\ g.streamedOk = f.streamedOk /\ g.outcome.transient = transient /\ g.piece = 0
          /\ g.streams = streams /\ g.reused = f.reused
      BY DEF Frames
    <2>6. g \in Frames
      BY <1>4, <2>1, ZenonT(30) DEF Frames, Calling, Outcomes
    <2> HIDE DEF g
    <2>7. RetryInv(policy, g)
      BY <1>1, <1>2, <1>4, <2>5 DEF FrameInv, RetryInv, SendsLeft
    <2>8. SinkInv(policy, t, g)
      <3>1. f.sunk = <<>> /\ ~f.streamedOk
        BY <1>1, <1>2 DEF FrameInv, SinkInv
      <3>2. QED
        BY <1>4, <2>5, <3>1, ClientAssumption DEF SinkInv
    <2>9. WireInv(t, g, owed[g.conn])
      BY <1>1, <1>2, <2>1, <2>5 DEF FrameInv, WireInv, OnWire
    <2>10. FrameInv(policy, t, g, owed'[g.conn])
      BY <1>4, <2>7, <2>8, <2>9 DEF FrameInv
    <2>11. /\ alive' \in SUBSET Conns /\ owed' \in [Conns -> Seq(Tags)] /\ UNCHANGED idle
           /\ \A k \in Conns : k # f.conn => owed'[k] = owed[k]
      BY <1>4 DEF CallInv, TypeOK
    <2>12. g.conn \in {f.conn, NoConn}
      BY <2>5
    <2> HIDE <1>4
    <2>13. QED
      BY <1>1, <2>4, <2>6, <2>10, <2>11, <2>12, OneCaller
  <1>5. QED
    <2>1. PICK status \in {"final", "transient"}, accept \in BOOLEAN, over \in BOOLEAN :
             LET streams == /\ t \in Streaming /\ accept
                            /\ policy > 1 => ~RetryableStatus(status)
             IN  IF over
                 THEN Fails(t, FALSE)
                 ELSE /\ call' = [call EXCEPT ![t] =
                            [f EXCEPT !.pc = "body", !.streams = streams, !.piece = 0,
                                      !.answer = Head(owed[f.conn]),
                                      !.executed = f.executed + 1,
                                      !.outcome = [ok |-> TRUE,
                                        transient |-> RetryableStatus(status)]]]
                      /\ UNCHANGED <<idle, alive, owed>>
      BY <1>1, Zenon DEF Header
    <2>2. PICK streams \in BOOLEAN : streams = (/\ t \in Streaming /\ accept
                                                /\ policy > 1 => ~RetryableStatus(status))
      OBVIOUS
    <2>3. PICK transient \in BOOLEAN : transient = RetryableStatus(status)
      BY DEF RetryableStatus
    <2>4. PICK executed \in Nat : executed = f.executed + 1 /\ executed <= f.sends
      BY <1>1, <1>2 DEF Frames, FrameInv, RetryInv, SendsLeft
    <2>5. CASE over
      BY <1>3, <2>1, <2>5
    <2>6. CASE ~over
      <3>1. /\ call' = [call EXCEPT ![t] =
                            [f EXCEPT !.pc = "body", !.streams = streams, !.piece = 0,
                                      !.answer = Head(owed[f.conn]),
                                      !.executed = executed,
                                      !.outcome = [ok |-> TRUE, transient |-> transient]]]
            /\ UNCHANGED <<idle, alive, owed>>
        BY <2>1, <2>2, <2>3, <2>4, <2>6, Zenon
      <3>2. streams => t \in Streaming /\ (policy > 1 => ~transient)
        BY <2>2, <2>3
      <3>3. QED
        BY <1>4, <2>4, <3>1, <3>2, Zenon
    <2>7. QED
      BY <2>5, <2>6

\* No header: the connection is dropped, and the attempt dials again or ends.
LEMMA HeaderFailsInv ==
    ASSUME CallInv, UNCHANGED policy, NEW t \in Callers, HeaderFails(t)
    PROVE  CallInv'
  <1>1. PICK f \in Frames : f = call[t] /\ FrameInv(policy, t, f, owed[f.conn])
    BY CallerFacts
  <1>2. f.pc = "header" /\ UNCHANGED idle /\ Drop(f.conn) /\ f.executed \in Nat
    BY <1>1 DEF HeaderFails, Frames
  <1>3. ASSUME NEW executed \in Nat, executed <= f.sends, f.reused,
               call' = [call EXCEPT ![t] = Redialling(f, executed)]
        PROVE  CallInv'
    BY <1>1, <1>2, <1>3, RedialInv
  <1>4. ASSUME NEW executed \in Nat, executed <= f.sends,
               call' = [call EXCEPT ![t] = [f EXCEPT !.pc = "outcome", !.conn = NoConn,
                            !.reused = FALSE, !.executed = executed,
                            !.outcome = [ok |-> FALSE, transient |-> TRUE]]]
        PROVE  CallInv'
    <2> DEFINE g == [f EXCEPT !.pc = "outcome", !.conn = NoConn, !.reused = FALSE,
                              !.executed = executed, !.outcome = [ok |-> FALSE, transient |-> TRUE]]
    <2>1. /\ g.pc = "outcome" /\ g.conn = NoConn /\ g.sends = f.sends /\ g.edits = f.edits
          /\ g.attempt = f.attempt /\ g.seen = f.seen /\ g.sunk = f.sunk /\ g.executed = executed
          /\ g.streamedOk = f.streamedOk
      BY DEF Frames
    <2>2. g \in Frames
      BY <1>4 DEF Frames, Calling, Outcomes
    <2>3. call' = [call EXCEPT ![t] = g]
      BY <1>4
    <2> HIDE DEF g
    <2>4. RetryInv(policy, g)
      BY <1>1, <1>2, <1>4, <2>1 DEF FrameInv, RetryInv, SendsLeft
    <2>5. SinkInv(policy, t, g)
      BY <1>1, <1>2, <2>1 DEF FrameInv, SinkInv
    <2>6. ASSUME NEW q PROVE WireInv(t, g, q)
      BY <2>1, ClientAssumption DEF WireInv, OnWire
    <2>7. f.conn \in Conns
      BY <1>1, <1>2 DEF FrameInv, WireInv, OnWire
    <2>8. /\ alive' \in SUBSET Conns /\ owed' \in [Conns -> Seq(Tags)]
          /\ \A k \in Conns : k # f.conn => owed'[k] = owed[k]
      BY <1>2, <2>7, DropOwed DEF CallInv
    <2>9. QED
      BY <1>1, <1>2, <2>1, <2>2, <2>3, <2>4, <2>5, <2>6, <2>8, OneCaller DEF FrameInv
  <1>5. QED
    <2>1. PICK acted \in BOOLEAN, how \in {"reset", "timeout", "partial"} :
            LET executed == f.executed + (IF acted THEN 1 ELSE 0)
            IN  \/ /\ f.reused
                   /\ call' = [call EXCEPT ![t] = Redialling(f, executed)]
                \/ call' = [call EXCEPT ![t] = [f EXCEPT !.pc = "outcome", !.conn = NoConn,
                            !.reused = FALSE, !.executed = executed,
                            !.outcome = [ok |-> FALSE, transient |-> TRUE]]]
      BY <1>1, Zenon DEF HeaderFails, Redialling
    <2>2. PICK executed \in Nat : /\ executed = f.executed + (IF acted THEN 1 ELSE 0)
                                  /\ executed <= f.sends
      BY <1>1, <1>2 DEF Frames, FrameInv, RetryInv, SendsLeft
    <2>3. QED
      BY <1>3, <1>4, <2>1, <2>2, Zenon

\* A window of the body reaches the sink in its turn.
LEMMA BodyPieceInv ==
    ASSUME CallInv, UNCHANGED policy, NEW t \in Callers, BodyPiece(t)
    PROVE  CallInv'
  <1>1. PICK f \in Frames : f = call[t] /\ FrameInv(policy, t, f, owed[f.conn])
    BY CallerFacts
  <1>t. /\ f.piece \in Nat /\ f.sunk \in Seq((Tags \cup {<<>>}) \X Nat) /\ f.answer \in Tags \cup {<<>>}
        /\ f.streams \in BOOLEAN /\ Pieces \in Nat
    BY ClientAssumption DEF Frames
  <1>2. f.pc = "body" /\ f.piece < Pieces
    BY <1>1 DEF BodyPiece
  <1>3. CASE Fails(t, FALSE)
    BY <1>1, <1>2, <1>3, FailsInv
  <1>u. PICK piece \in Nat : piece = f.piece + 1
    BY <1>t
  <1>v. PICK sunk \in Seq((Tags \cup {<<>>}) \X Nat) :
            sunk = IF f.streams THEN Append(f.sunk, <<f.answer, piece>>) ELSE f.sunk
    <2>1. <<f.answer, piece>> \in (Tags \cup {<<>>}) \X Nat
      BY <1>t
    <2>2. Append(f.sunk, <<f.answer, piece>>) \in Seq((Tags \cup {<<>>}) \X Nat)
      BY <1>t, <2>1, AppendProperties
    <2>3. QED
      BY <1>t, <2>2
  <1> DEFINE g == [f EXCEPT !.piece = piece, !.sunk = sunk]
  <1>4. CASE call' = [call EXCEPT ![t] = g] /\ UNCHANGED <<idle, alive, owed>>
    <2>1. /\ g.pc = f.pc /\ g.conn = f.conn /\ g.sends = f.sends /\ g.edits = f.edits
          /\ g.attempt = f.attempt /\ g.seen = f.seen /\ g.sunk = sunk /\ g.answer = f.answer
          /\ g.executed = f.executed
          /\ g.streamedOk = f.streamedOk /\ g.outcome = f.outcome /\ g.piece = piece
          /\ g.streams = f.streams /\ g.reused = f.reused
      BY DEF Frames
    <2>2. g \in Frames
      BY DEF Frames
    <2>3. call' = [call EXCEPT ![t] = g] /\ UNCHANGED <<idle, alive, owed>>
      BY <1>4
    <2> HIDE DEF g
    <2>4. RetryInv(policy, g)
      BY <1>1, <1>2, <2>1 DEF FrameInv, RetryInv, SendsLeft
    <2>5. SinkInv(policy, t, g)
      <3>1. CASE f.streams
        <4>1. Len(f.sunk) = f.piece /\ \A i \in 1..Len(f.sunk) : f.sunk[i] = <<f.answer, i>>
          BY <1>1, <1>2, <3>1 DEF FrameInv, SinkInv
        <4>2. sunk = Append(f.sunk, <<f.answer, piece>>)
          BY <1>v, <3>1
        <4>3. <<f.answer, piece>> \in (Tags \cup {<<>>}) \X Nat
          BY <1>t
        <4>4. /\ Len(sunk) = Len(f.sunk) + 1 /\ sunk[Len(f.sunk) + 1] = <<f.answer, piece>>
              /\ \A i \in 1..Len(f.sunk) : sunk[i] = f.sunk[i]
          BY <1>t, <4>2, <4>3, AppendProperties
        <4>5. Len(sunk) = piece /\ \A i \in 1..Len(sunk) : sunk[i] = <<f.answer, i>>
          <5>1. Len(sunk) = piece /\ piece = f.piece + 1 /\ Len(f.sunk) = f.piece
            BY <1>t, <1>u, <4>1, <4>4
          <5>2. ASSUME NEW i \in 1..Len(sunk) PROVE sunk[i] = <<f.answer, i>>
            <6>1. CASE i \in 1..Len(f.sunk)
              BY <4>1, <4>4, <6>1
            <6>2. CASE i = piece
              BY <4>4, <5>1, <6>2
            <6>3. QED
              BY <1>t, <5>1, <6>1, <6>2
          <5>3. QED
            BY <5>1, <5>2
        <4>6. QED
          BY <1>1, <1>2, <1>t, <1>u, <2>1, <3>1, <4>5 DEF FrameInv, SinkInv
      <3>2. CASE ~f.streams
        BY <1>1, <1>2, <1>t, <1>u, <1>v, <2>1, <3>2 DEF FrameInv, SinkInv
      <3>3. QED
        BY <3>1, <3>2
    <2>6. WireInv(t, g, owed[g.conn])
      BY <1>1, <1>2, <2>1 DEF FrameInv, WireInv
    <2>7. FrameInv(policy, t, g, owed'[g.conn])
      BY <2>3, <2>4, <2>5, <2>6 DEF FrameInv
    <2>8. QED
      BY <1>1, <2>1, <2>2, <2>3, <2>7, OneCaller DEF CallInv, TypeOK
  <1>5. QED
    BY <1>1, <1>3, <1>4, <1>u, <1>v, Zenon DEF BodyPiece

\* A failure in mid-body, and an exception contained on the way out, are
\* retryable only while the sink holds nothing.
LEMMA BodyFailsInv ==
    ASSUME CallInv, UNCHANGED policy, NEW t \in Callers, BodyFails(t) \/ Contained(t)
    PROVE  CallInv'
  <1>1. PICK f \in Frames : f = call[t] /\ FrameInv(policy, t, f, owed[f.conn])
    BY CallerFacts
  <1>2. CASE BodyFails(t)
    <2>1. PICK r \in BOOLEAN : r = ~(f.streams /\ f.piece > 0)
      OBVIOUS
    <2>2. f.pc = "body" /\ Fails(t, r)
      BY <1>1, <1>2, <2>1, Zenon DEF BodyFails
    <2>3. QED
      BY <1>1, <2>1, <2>2, FailsInv
  <1>3. CASE Contained(t)
    <2>1. PICK r \in BOOLEAN : r = (t \notin Streaming)
      OBVIOUS
    <2>2. f.pc \in {"dial", "write", "header", "body"} /\ Fails(t, r)
      BY <1>1, <1>3, <2>1, Zenon DEF Contained
    <2>3. f.pc = "body" /\ f.streams => ~r
      BY <1>1, <2>1 DEF FrameInv, SinkInv
    <2>4. QED
      BY <1>1, <2>2, <2>3, FailsInv
  <1>4. QED
    BY <1>2, <1>3

-----------------------------------------------------------------------------
\* A caller's step that also moves a connection between it and the pool.
LEMMA PoolMove ==
    ASSUME CallInv, UNCHANGED policy, NEW t \in Callers, NEW g \in Frames,
           call' = [call EXCEPT ![t] = g], idle' \in Seq(Conns), alive' \in SUBSET Conns,
           owed' \in [Conns -> Seq(Tags)], PoolInv',
           \A u \in Callers : u # t /\ call[u].conn \in Conns => owed'[call[u].conn] = owed[call[u].conn],
           FrameInv(policy, t, g, owed'[g.conn])
    PROVE  CallInv'
  <1>t. call \in [Callers -> Frames]
    BY DEF CallInv, TypeOK
  <1>1. TypeOK'
    BY <1>t DEF CallInv, TypeOK
  <1>2. ASSUME NEW u \in Callers
        PROVE  FrameInv(policy, u, call[u], owed[call[u].conn])'
    <2>1. CASE u = t
      BY <2>1, <1>t
    <2>2. CASE u # t /\ call[u].conn \in Conns
      BY <2>2, <1>t DEF CallInv
    <2>3. CASE u # t /\ call[u].conn \notin Conns
      BY <2>3, <1>t DEF CallInv, FrameInv, WireInv, OnWire
    <2>4. QED
      BY <2>1, <2>2, <2>3
  <1>3. QED
    BY <1>1, <1>2 DEF CallInv

\* A pooled connection changes hands: nothing is owed on it.
LEMMA TakeIdleInv ==
    ASSUME CallInv, UNCHANGED policy, NEW t \in Callers, TakeIdle(t)
    PROVE  CallInv'
  <1>1. PICK f \in Frames : f = call[t] /\ FrameInv(policy, t, f, owed[f.conn])
    BY CallerFacts
  <1>t. /\ call \in [Callers -> Frames] /\ idle \in Seq(Conns) /\ idle # <<>>
        /\ owed \in [Conns -> Seq(Tags)] /\ alive \in SUBSET Conns
    BY DEF CallInv, TypeOK, TakeIdle
  <1>u. PICK n \in Nat : n = Len(idle) /\ n > 0
    BY <1>t, EmptySeq
  <1>k. PICK k \in Conns : k = idle[n]
    BY <1>t, <1>u
  <1> DEFINE g == [f EXCEPT !.pc = "write", !.edits = 1, !.reused = TRUE, !.conn = k]
  <1>2. /\ f.pc = "attempt" /\ call' = [call EXCEPT ![t] = g]
        /\ idle' = SubSeq(idle, 1, n - 1) /\ UNCHANGED <<alive, owed>>
    BY <1>1, <1>u, <1>k DEF TakeIdle
  <1>3. /\ g.pc = "write" /\ g.conn = k /\ g.sends = f.sends /\ g.edits = 1
        /\ g.attempt = f.attempt /\ g.seen = f.seen /\ g.sunk = f.sunk /\ g.executed = f.executed
        /\ g.streamedOk = f.streamedOk /\ g.outcome = f.outcome /\ g.reused = TRUE
    BY DEF Frames
  <1>4. g \in Frames
    BY DEF Frames, Calling
  <1> HIDE DEF g
  <1>5. RetryInv(policy, g)
    BY <1>1, <1>2, <1>3 DEF FrameInv, RetryInv, SendsLeft, Frames
  <1>6. SinkInv(policy, t, g)
    BY <1>1, <1>2, <1>3 DEF FrameInv, SinkInv
  <1>7. owed[k] = <<>>
    BY <1>u, <1>k DEF CallInv, PoolInv
  <1>8. FrameInv(policy, t, g, owed'[g.conn])
    BY <1>2, <1>3, <1>5, <1>6, <1>7 DEF FrameInv, WireInv, OnWire
  <1>9. /\ idle' \in Seq(Conns) /\ Len(idle') = n - 1
        /\ \A i \in 1..(n - 1) : idle'[i] = idle[i]
    BY <1>2, <1>t, <1>u, SubSeqProperties
  <1>10. /\ call'[t] = g /\ \A u \in Callers : u # t => call'[u] = call[u]
    BY <1>2, <1>t
  <1>11. \A u \in Callers : call[u].conn # k
    BY <1>u, <1>k DEF CallInv, PoolInv
  <1>12. PoolInv'
    <2>1. /\ Len(idle') <= MaxIdle
          /\ \A i, j \in 1..Len(idle') : idle'[i] = idle'[j] => i = j
          /\ \A i \in 1..Len(idle') : owed'[idle'[i]] = <<>>
      <3>0. \A i \in 1..Len(idle') : i \in 1..n /\ idle'[i] = idle[i]
        BY <1>u, <1>9
      <3>1. Len(idle') <= MaxIdle
        BY <1>u, <1>9, ClientAssumption DEF CallInv, PoolInv
      <3>2. \A i, j \in 1..Len(idle') : idle'[i] = idle'[j] => i = j
        BY <1>u, <3>0 DEF CallInv, PoolInv
      <3>3. \A i \in 1..Len(idle') : owed'[idle'[i]] = <<>>
        BY <1>2, <1>u, <3>0 DEF CallInv, PoolInv
      <3>4. QED
        BY <3>1, <3>2, <3>3
    <2>2. \A u \in Callers : \A i \in 1..Len(idle') : call'[u].conn # idle'[i]
      <3>1. \A i \in 1..(n - 1) : idle[i] # k
        BY <1>u, <1>k DEF CallInv, PoolInv
      <3>2. QED
        BY <1>3, <1>u, <1>9, <1>10, <3>1 DEF CallInv, PoolInv
    <2>3. \A u, v \in Callers : call'[u].conn = call'[v].conn /\ u # v => call'[u].conn = NoConn
      BY <1>3, <1>10, <1>11 DEF CallInv, PoolInv
    <2>4. QED
      BY <2>1, <2>2, <2>3 DEF PoolInv
  <1>13. QED
    BY <1>2, <1>4, <1>8, <1>9, <1>12, <1>t, PoolMove

\* A whole answer was read: the connection owes nothing more and is pooled,
\* or it is closed.
LEMMA ReturnIdleInv ==
    ASSUME CallInv, UNCHANGED policy, NEW t \in Callers, ReturnIdle(t)
    PROVE  CallInv'
  <1>1. PICK f \in Frames : f = call[t] /\ FrameInv(policy, t, f, owed[f.conn])
    BY CallerFacts
  <1>t. /\ call \in [Callers -> Frames] /\ idle \in Seq(Conns)
        /\ owed \in [Conns -> Seq(Tags)] /\ alive \in SUBSET Conns
        /\ f.sunk \in Seq((Tags \cup {<<>>}) \X Nat) /\ f.streams \in BOOLEAN /\ Pieces \in Nat
    BY ClientAssumption DEF CallInv, TypeOK, Frames
  <1> DEFINE g == [f EXCEPT !.pc = "outcome", !.conn = NoConn,
                     !.answer = <<>>, !.piece = 0, !.streams = FALSE, !.reused = FALSE,
                     !.streamedOk = f.streams]
  <1>2. f.pc = "body" /\ f.piece = Pieces /\ call' = [call EXCEPT ![t] = g]
    BY <1>1 DEF ReturnIdle
  <1>3. /\ g.pc = "outcome" /\ g.conn = NoConn /\ g.sends = f.sends /\ g.edits = f.edits
        /\ g.attempt = f.attempt /\ g.seen = f.seen /\ g.sunk = f.sunk /\ g.executed = f.executed
        /\ g.streamedOk = f.streams /\ g.outcome = f.outcome
    BY DEF Frames
  <1>4. g \in Frames
    BY DEF Frames, Calling
  <1> HIDE DEF g
  <1>5. RetryInv(policy, g)
    BY <1>1, <1>2, <1>3 DEF FrameInv, RetryInv, SendsLeft
  <1>6. SinkInv(policy, t, g)
    <2>1. CASE f.streams
      <3>1. /\ policy > 1 => ~f.outcome.transient
            /\ Len(f.sunk) = Pieces
            /\ \A i \in 1..Len(f.sunk) : f.sunk[i] = <<f.answer, i>>
        BY <1>1, <1>2, <2>1 DEF FrameInv, SinkInv
      <3>2. \A i \in 1..Len(f.sunk) : f.sunk[i] = <<f.sunk[1][1], i>>
        <4> SUFFICES ASSUME NEW i \in 1..Len(f.sunk) PROVE f.sunk[i] = <<f.sunk[1][1], i>>
          OBVIOUS
        <4>1. 1 \in 1..Len(f.sunk)
          BY <1>t, <3>1
        <4>2. f.sunk[1] = <<f.answer, 1>>
          BY <3>1, <4>1
        <4>3. QED
          BY <3>1, <4>2
      <3>3. QED
        BY <1>3, <2>1, <3>1, <3>2 DEF SinkInv
    <2>2. CASE ~f.streams
      BY <1>1, <1>2, <1>3, <2>2 DEF FrameInv, SinkInv
    <2>3. QED
      BY <2>1, <2>2
  <1>7. ASSUME NEW q PROVE WireInv(t, g, q)
    BY <1>3, ClientAssumption DEF WireInv, OnWire
  <1>8. PICK k \in Conns : k = f.conn
    BY <1>1, <1>2 DEF FrameInv, WireInv, OnWire
  <1>9. CASE UNCHANGED idle /\ Drop(f.conn)
    <2>1. /\ alive' \in SUBSET Conns /\ owed' \in [Conns -> Seq(Tags)]
          /\ \A j \in Conns : j # f.conn => owed'[j] = owed[j]
      BY <1>8, <1>9, DropOwed DEF CallInv
    <2>2. QED
      BY <1>1, <1>2, <1>3, <1>4, <1>5, <1>6, <1>7, <1>9, <2>1, OneCaller DEF FrameInv
  <1>10. CASE Len(idle) < MaxIdle /\ idle' = Append(idle, k) /\ owed' = Answered(k) /\ UNCHANGED alive
    <2>1. SubSeq(owed[k], 2, Len(owed[k])) = <<>>
      <3>0. PICK tag : tag = <<t, f.attempt, f.sends>>
        OBVIOUS
      <3>1. owed[k] = <<>> \/ owed[k] = <<tag>>
        BY <1>1, <1>2, <1>8, <3>0 DEF FrameInv, WireInv
      <3>2. SubSeq(<<>>, 2, 0) = <<>> /\ SubSeq(<<tag>>, 2, 1) = <<>>
        BY SubSeqEmpty
      <3>3. Len(<<>>) = 0 /\ Len(<<tag>>) = 1
        OBVIOUS
      <3>4. QED
        BY <3>1, <3>2, <3>3, Zenon
    <2>2. /\ owed' \in [Conns -> Seq(Tags)] /\ owed'[k] = <<>>
          /\ \A j \in Conns : j # k => owed'[j] = owed[j]
      <3>1. owed' = [owed EXCEPT ![k] = <<>>]
        BY <1>10, <2>1, Zenon DEF Answered
      <3>2. QED
        BY <1>t, <3>1
    <2>3. PICK n \in Nat : n = Len(idle)
      BY <1>t
    <2>4. /\ idle' \in Seq(Conns) /\ Len(idle') = n + 1 /\ idle'[n + 1] = k
          /\ \A i \in 1..n : idle'[i] = idle[i] /\ idle[i] \in Conns
      BY <1>t, <1>10, <2>3, AppendProperties
    <2>5. /\ call'[t] = g /\ \A u \in Callers : u # t => call'[u] = call[u]
      BY <1>2, <1>t
    <2>6. \A u \in Callers : u # t => call[u].conn # k
      BY <1>1, <1>8, ClientAssumption DEF CallInv, PoolInv
    <2>7. \A i \in 1..n : idle[i] # k
      BY <1>1, <1>8, <2>3 DEF CallInv, PoolInv
    <2>8. PoolInv'
      <3>1. Len(idle') <= MaxIdle
        BY <1>10, <2>3, <2>4, ClientAssumption
      <3>2. \A i, j \in 1..Len(idle') : idle'[i] = idle'[j] => i = j
        BY <2>3, <2>4, <2>7 DEF CallInv, PoolInv
      <3>3. \A i \in 1..Len(idle') : owed'[idle'[i]] = <<>>
        <4>1. \A i \in 1..n : owed[idle[i]] = <<>>
          BY <2>3 DEF CallInv, PoolInv
        <4>2. \A i \in 1..n : owed'[idle'[i]] = <<>>
          BY <2>2, <2>4, <2>7, <4>1
        <4>3. \A i \in 1..Len(idle') : i \in 1..n \/ i = n + 1
          BY <2>4
        <4>4. QED
          BY <2>2, <2>4, <4>2, <4>3
      <3>4. \A u \in Callers : \A i \in 1..Len(idle') : call'[u].conn # idle'[i]
        <4>1. \A i \in 1..Len(idle') : idle'[i] \in Conns
          BY <2>4
        <4>2. ASSUME NEW u \in Callers, u # t, NEW i \in 1..Len(idle')
              PROVE  call'[u].conn # idle'[i]
          BY <2>3, <2>4, <2>5, <2>6, <4>2 DEF CallInv, PoolInv
        <4>3. QED
          BY <1>3, <2>5, <4>1, <4>2, ClientAssumption
      <3>5. \A u, v \in Callers : call'[u].conn = call'[v].conn /\ u # v => call'[u].conn = NoConn
        BY <1>3, <2>5 DEF CallInv, PoolInv
      <3>6. QED
        BY <3>1, <3>2, <3>3, <3>4, <3>5 DEF PoolInv
    <2>9. FrameInv(policy, t, g, owed'[g.conn])
      BY <1>5, <1>6, <1>7 DEF FrameInv
    <2>10. \A u \in Callers : u # t /\ call[u].conn \in Conns => owed'[call[u].conn] = owed[call[u].conn]
      BY <2>2, <2>6
    <2>11. QED
      BY <1>2, <1>4, <1>10, <1>t, <2>2, <2>4, <2>8, <2>9, <2>10, PoolMove
  <1>11. QED
    BY <1>1, <1>8, <1>9, <1>10 DEF ReturnIdle

-----------------------------------------------------------------------------
\* A function has no more values than arguments.
LEMMA ImageBound ==
    ASSUME NEW S, IsFiniteSet(S), NEW V, NEW h \in [S -> V]
    PROVE  /\ IsFiniteSet({h[x] : x \in S})
           /\ Cardinality({h[x] : x \in S}) <= Cardinality(S)
  <1> DEFINE T == {h[x] : x \in S}
  <1>1. h \in Surjection(S, T)
    BY DEF Surjection
  <1> HIDE DEF T
  <1>2. IsFiniteSet(T) /\ Cardinality(T) <= Cardinality(S)
    BY <1>1, FS_Surjection
  <1>3. QED
    BY <1>2 DEF T

\* The pool's connections can be counted, and they are distinct.
LEMMA PoolCount ==
    ASSUME TypeOK, PoolInv
    PROVE  /\ DOMAIN idle = 1..Len(idle) /\ IsFiniteSet({idle[i] : i \in 1..Len(idle)})
           /\ Cardinality({idle[i] : i \in 1..Len(idle)}) = Len(idle)
  <1> DEFINE S == 1..Len(idle)
  <1>1. Len(idle) \in Nat /\ idle \in [S -> Conns] /\ DOMAIN idle = S
    BY DEF TypeOK
  <1>2. IsFiniteSet(S) /\ Cardinality(S) = Len(idle)
    BY <1>1, FS_Interval
  <1>3. \A i, j \in S : idle[i] = idle[j] => i = j
    BY DEF PoolInv
  <1> HIDE DEF S
  <1>4. IsFiniteSet({idle[i] : i \in S}) /\ Cardinality({idle[i] : i \in S}) = Cardinality(S)
    <2> DEFINE T == {idle[i] : i \in S}
    <2>1. idle \in Surjection(S, T)
      BY <1>1 DEF Surjection
    <2>2. idle \in Injection(S, T)
      BY <1>1, <1>3 DEF Injection, IsInjective
    <2> HIDE DEF T
    <2>3. IsFiniteSet(T) /\ Cardinality(T) = Cardinality(S)
      BY <1>2, <2>1, <2>2, FS_Surjection
    <2>4. QED
      BY <2>3 DEF T
  <1>5. QED
    BY <1>1, <1>2, <1>4 DEF S

\* A caller that dials finds an identity that neither the pool nor another
\* caller has.
LEMMA FreeConn ==
    ASSUME TypeOK, PoolInv, NEW t \in Callers, call[t].conn = NoConn
    PROVE  \E k \in Conns : k \in Free
  <1> DEFINE Pooled == {idle[i] : i \in 1..Len(idle)}
             Others == Callers \ {t}
             h == [u \in Others |-> call[u].conn]
             Theirs == {h[u] : u \in Others}
  <1>1. /\ IsFiniteSet(Pooled) /\ Cardinality(Pooled) <= MaxIdle /\ DOMAIN idle = 1..Len(idle)
    BY PoolCount DEF PoolInv
  <1>2. IsFiniteSet(Others) /\ Cardinality(Others) = Cardinality(Callers) - 1
    BY ClientAssumption, FS_RemoveElement
  <1>3. h \in [Others -> Conns \cup {NoConn}]
    BY DEF TypeOK, Frames
  <1>4. IsFiniteSet(Theirs) /\ Cardinality(Theirs) <= Cardinality(Others)
    <2> HIDE DEF h, Others
    <2>1. QED
      BY <1>2, <1>3, ImageBound
  <1>5. Held \subseteq Theirs
    BY DEF Held
  <1> HIDE DEF Pooled, Theirs, Others
  <1>6. /\ Cardinality(Callers) \in Nat /\ Cardinality(Conns) \in Nat /\ MaxIdle \in Nat
        /\ Cardinality(Pooled) \in Nat /\ Cardinality(Theirs) \in Nat
    BY <1>1, <1>4, ClientAssumption, FS_CardinalityType
  <1>7. IsFiniteSet(Theirs \cup Pooled) /\ Cardinality(Theirs \cup Pooled) <= Cardinality(Theirs) + Cardinality(Pooled)
    <2>1. IsFiniteSet(Theirs \cap Pooled) /\ Cardinality(Theirs \cap Pooled) \in Nat
      BY <1>1, <1>4, FS_Intersection, FS_CardinalityType
    <2>2. /\ IsFiniteSet(Theirs \cup Pooled)
          /\ Cardinality(Theirs \cup Pooled) =
                 Cardinality(Theirs) + Cardinality(Pooled) - Cardinality(Theirs \cap Pooled)
      BY <1>1, <1>4, FS_Union
    <2>3. QED
      BY <1>6, <2>1, <2>2
  <1>8. ~(Conns \subseteq Theirs \cup Pooled)
    <2> SUFFICES ASSUME Conns \subseteq Theirs \cup Pooled PROVE FALSE
      OBVIOUS
    <2>1. Cardinality(Conns) <= Cardinality(Theirs \cup Pooled)
      BY <1>7, FS_Subset
    <2>2. Cardinality(Theirs \cup Pooled) \in Nat
      BY <1>7, FS_CardinalityType
    <2>3. QED
      BY <1>1, <1>2, <1>4, <1>6, <1>7, <2>1, <2>2, ClientAssumption
  <1>9. QED
    BY <1>1, <1>5, <1>8 DEF Free, Pooled

\* A fresh connection carries nothing and belongs to nobody else.
LEMMA DialInv ==
    ASSUME CallInv, UNCHANGED policy, NEW t \in Callers, Dial(t)
    PROVE  CallInv'
  <1>1. PICK f \in Frames : f = call[t] /\ FrameInv(policy, t, f, owed[f.conn])
    BY CallerFacts
  <1>t. /\ call \in [Callers -> Frames] /\ idle \in Seq(Conns) /\ TypeOK /\ PoolInv
        /\ owed \in [Conns -> Seq(Tags)] /\ alive \in SUBSET Conns
    BY DEF CallInv, TypeOK
  <1>2. f.pc = "dial" /\ f.conn = NoConn
    <2>1. f.pc = "dial"
      BY <1>1 DEF Dial
    <2>2. QED
      BY <1>1, <2>1 DEF FrameInv, WireInv, OnWire, Frames
  <1>3. ASSUME NEW r \in BOOLEAN, Fails(t, r)
        PROVE  CallInv'
    BY <1>1, <1>2, <1>3, FailsInv
  <1>k. PICK k : k = CHOOSE free \in Free : TRUE
    OBVIOUS
  <1>f. k \in Free
    BY <1>1, <1>2, <1>k, <1>t, FreeConn
  <1>c. k \in Conns /\ (\A u \in Callers : call[u].conn # k) /\ \A i \in 1..Len(idle) : idle[i] # k
    <2>1. DOMAIN idle = 1..Len(idle)
      BY <1>t, PoolCount
    <2>2. k \in Conns /\ k # NoConn
      BY <1>f, ClientAssumption DEF Free
    <2>3. QED
      BY <1>f, <2>1, <2>2 DEF Free, Held
  <1> DEFINE g == [f EXCEPT !.pc = "write", !.conn = k, !.reused = FALSE]
  <1>4. CASE /\ call' = [call EXCEPT ![t] = g] /\ alive' = alive \cup {k}
             /\ owed' = [owed EXCEPT ![k] = <<>>] /\ UNCHANGED idle
    <2>1. /\ g.pc = "write" /\ g.conn = k /\ g.sends = f.sends /\ g.edits = f.edits
          /\ g.attempt = f.attempt /\ g.seen = f.seen /\ g.sunk = f.sunk /\ g.executed = f.executed
          /\ g.streamedOk = f.streamedOk /\ g.outcome = f.outcome /\ g.reused = FALSE
      BY DEF Frames
    <2>2. g \in Frames
      BY <1>c DEF Frames, Calling
    <2>3. call' = [call EXCEPT ![t] = g]
      BY <1>4
    <2> HIDE DEF g
    <2>4. RetryInv(policy, g)
      BY <1>1, <1>2, <2>1 DEF FrameInv, RetryInv, SendsLeft
    <2>5. SinkInv(policy, t, g)
      BY <1>1, <1>2, <2>1 DEF FrameInv, SinkInv
    <2>6. /\ owed' \in [Conns -> Seq(Tags)] /\ owed'[k] = <<>> /\ alive' \in SUBSET Conns
          /\ \A j \in Conns : j # k => owed'[j] = owed[j]
      BY <1>4, <1>c, <1>t
    <2>7. FrameInv(policy, t, g, owed'[g.conn])
      BY <1>c, <2>1, <2>4, <2>5, <2>6 DEF FrameInv, WireInv, OnWire
    <2>8. /\ call'[t] = g /\ \A u \in Callers : u # t => call'[u] = call[u]
      BY <2>3, <1>t
    <2>9. PoolInv'
      <3>1. \A i \in 1..Len(idle') : idle'[i] \in Conns /\ idle'[i] # k /\ idle'[i] = idle[i]
        BY <1>4, <1>c, <1>t
      <3>2. \A i \in 1..Len(idle') : owed'[idle'[i]] = <<>>
        BY <1>4, <2>6, <3>1, <1>t DEF PoolInv
      <3>3. \A u \in Callers : \A i \in 1..Len(idle') : call'[u].conn # idle'[i]
        BY <1>4, <2>1, <2>8, <3>1, <1>t DEF PoolInv
      <3>4. \A u, v \in Callers : call'[u].conn = call'[v].conn /\ u # v => call'[u].conn = NoConn
        <4>1. \A u, v \in Callers : call[u].conn = call[v].conn /\ u # v => call[u].conn = NoConn
          BY <1>t DEF PoolInv
        <4>2. call'[t].conn = k /\ \A u \in Callers : u # t => call'[u].conn = call[u].conn
          BY <2>1, <2>8
        <4>3. QED
          BY <1>c, <4>1, <4>2, Zenon
      <3>5. QED
        BY <1>4, <1>t, <3>2, <3>3, <3>4 DEF PoolInv
    <2>10. \A u \in Callers : u # t /\ call[u].conn \in Conns => owed'[call[u].conn] = owed[call[u].conn]
      BY <1>c, <2>6
    <2>11. idle' \in Seq(Conns)
      BY <1>4, <1>t
    <2>12. QED
      BY <2>2, <2>3, <2>6, <2>7, <2>9, <2>10, <2>11, PoolMove
  <1>5. QED
    BY <1>1, <1>3, <1>4, <1>k, Zenon DEF Dial

\* The server end of a connection goes away: it owes nothing from then on.
LEMMA ServerDropsInv ==
    ASSUME CallInv, UNCHANGED policy, NEW k \in Conns, ServerDrops(k)
    PROVE  CallInv'
  <1>1. UNCHANGED <<policy, idle, call>> /\ alive' \in SUBSET Conns /\ owed' \in [Conns -> Seq(Tags)]
    BY DEF ServerDrops, CallInv, TypeOK
  <1>2. \A j \in Conns : owed'[j] \in {owed[j], <<>>}
    BY DEF ServerDrops, CallInv, TypeOK
  <1>3. TypeOK'
    BY <1>1 DEF CallInv, TypeOK
  <1>4. PoolInv'
    <2>1. \A i \in 1..Len(idle) : idle[i] \in Conns
      BY DEF CallInv, TypeOK
    <2>2. QED
      BY <1>1, <1>2, <2>1 DEF CallInv, PoolInv
  <1>5. ASSUME NEW u \in Callers
        PROVE  FrameInv(policy, u, call[u], owed[call[u].conn])'
    <2>1. CASE call[u].conn \in Conns
      BY <1>1, <1>2, <2>1 DEF CallInv, FrameInv, WireInv
    <2>2. CASE call[u].conn \notin Conns
      BY <1>1, <2>2 DEF CallInv, FrameInv, WireInv, OnWire
    <2>3. QED
      BY <2>1, <2>2
  <1>6. QED
    BY <1>3, <1>4, <1>5 DEF CallInv

-----------------------------------------------------------------------------
\* Before the first call the pool is empty and nobody holds a connection.
LEMMA CallInitInv == Init => CallInv
  <1> SUFFICES ASSUME Init PROVE CallInv
    OBVIOUS
  <1>1. PICK pc \in {"attempt", "unused"} : call = [t \in Callers |-> Frame(pc)]
    BY DEF Init
  <1>2. PICK f : f = Frame(pc)
    OBVIOUS
  <1>3. /\ f.pc = pc /\ f.attempt = 1 /\ f.conn = NoConn /\ f.sends = 0 /\ f.edits = 0
        /\ f.executed = 0 /\ f.seen = 0 /\ f.sunk = <<>> /\ f.streamedOk = FALSE
    BY <1>2 DEF Frame
  <1>4. f \in Frames
    BY <1>2 DEF Frame, Frames, Calling, NoOutcome, Outcomes
  <1>5. policy \in Nat /\ MaxIdle \in Nat /\ NoConn \notin Conns
    BY ClientAssumption DEF Init
  <1>6. TypeOK
    BY <1>1, <1>2, <1>4, <1>5 DEF Init, TypeOK
  <1>7. idle = <<>> /\ \A t \in Callers : call[t] = f
    BY <1>1, <1>2 DEF Init
  <1>8. PoolInv
    BY <1>3, <1>5, <1>7 DEF PoolInv
  <1>9. RetryInv(policy, f)
    BY <1>3, <1>5 DEF RetryInv, SendsLeft, Larger
  <1>10. \A t \in Callers : SinkInv(policy, t, f)
    BY <1>3 DEF SinkInv
  <1>11. \A t \in Callers : WireInv(t, f, owed[f.conn])
    BY <1>3, <1>5 DEF WireInv, OnWire
  <1>12. QED
    BY <1>6, <1>7, <1>8, <1>9, <1>10, <1>11 DEF CallInv, FrameInv

\* Every step of a caller.
LEMMA CallStepInv ==
    ASSUME CallInv, UNCHANGED policy, NEW t \in Callers, CallStep(t)
    PROVE  CallInv'
  <1>1. \/ Refused(t) \/ TakeIdle(t) \/ NoneIdle(t) \/ Dial(t)
        \/ Write(t) \/ Header(t) \/ HeaderFails(t)
        \/ BodyPiece(t) \/ (BodyFails(t) \/ Contained(t)) \/ ReturnIdle(t) \/ Retry(t)
    BY DEF CallStep
  <1>2. CASE Refused(t)  BY <1>2, RefusedInv
  <1>3. CASE TakeIdle(t)  BY <1>3, TakeIdleInv
  <1>4. CASE NoneIdle(t)  BY <1>4, NoneIdleInv
  <1>5. CASE Dial(t)  BY <1>5, DialInv
  <1>6. CASE Write(t)  BY <1>6, WriteInv
  <1>7. CASE Header(t)  BY <1>7, HeaderInv
  <1>8. CASE HeaderFails(t)  BY <1>8, HeaderFailsInv
  <1>9. CASE BodyPiece(t)  BY <1>9, BodyPieceInv
  <1>10. CASE BodyFails(t) \/ Contained(t)  BY <1>10, BodyFailsInv
  <1>11. CASE ReturnIdle(t)  BY <1>11, ReturnIdleInv
  <1>12. CASE Retry(t)  BY <1>12, RetryStepInv
  <1>13. QED
    BY <1>1, <1>2, <1>3, <1>4, <1>5, <1>6, <1>7, <1>8, <1>9, <1>10, <1>11, <1>12

\* The calls and the handles share nothing.
LEMMA StepInv ==
    ASSUME IInv, [Next]_vars
    PROVE  IInv'
  <1>1. CallInv /\ SocketInv
    BY DEF IInv
  <1>2. ASSUME NEW t \in Callers, CallStep(t), UNCHANGED <<policy, socket>>
        PROVE  IInv'
    <2>1. CallInv'
      BY <1>1, <1>2, CallStepInv
    <2>2. SocketInv'
      BY <1>1, <1>2 DEF SocketInv
    <2>3. QED
      BY <2>1, <2>2 DEF IInv
  <1>3. ASSUME NEW k \in Conns, ServerDrops(k), UNCHANGED <<policy, socket>>
        PROVE  IInv'
    <2>1. CallInv'
      BY <1>1, <1>3, ServerDropsInv
    <2>2. SocketInv'
      BY <1>1, <1>3 DEF SocketInv
    <2>3. QED
      BY <2>1, <2>2 DEF IInv
  <1>4. ASSUME UNCHANGED <<policy, idle, alive, owed, call>>
        PROVE  CallInv'
    BY <1>1, <1>4 DEF CallInv, TypeOK, PoolInv
  <1>5. ASSUME NEW s \in Sockets, SocketStep(s), UNCHANGED <<policy, idle, alive, owed, call>>
        PROVE  IInv'
    <2>1. SocketInv'
      BY <1>1, <1>5, SocketStepInv
    <2>2. QED
      BY <1>4, <1>5, <2>1 DEF IInv
  <1>6. CASE UNCHANGED vars
    <2>1. UNCHANGED <<policy, idle, alive, owed, call>> /\ UNCHANGED socket
      BY <1>6 DEF vars
    <2>2. SocketInv'
      BY <1>1, <2>1 DEF SocketInv
    <2>3. QED
      BY <1>4, <2>1, <2>2 DEF IInv
  <1>7. QED
    BY <1>2, <1>3, <1>5, <1>6 DEF Next

\* The inductive invariant: who owns each connection, what the server owes
\* on it, what an attempt has sent and what its sink has been given, and who
\* still holds each dialed handle's I/O machinery.
THEOREM ClientInvariant == Spec => []IInv
  <1>1. Init => IInv
    BY CallInitInv, SocketInitInv DEF IInv
  <1>2. IInv /\ [Next]_vars => IInv'
    BY StepInv
  <1>3. QED
    BY <1>1, <1>2, PTL DEF Spec

\* Connections are never shared between callers or with the pool, and an
\* answer reaches the request it answers, whatever the number of callers and
\* however connections are lost (SendContained, RoundTrip).
THEOREM PoolIsolationHolds == Spec => []PoolIsolation
  <1>1. IInv => PoolIsolation
    <2> SUFFICES ASSUME IInv PROVE PoolIsolation
      OBVIOUS
    <2>1. TypeOK /\ PoolInv /\ \A t \in Callers : FrameInv(policy, t, call[t], owed[call[t].conn])
      BY DEF IInv, CallInv
    <2>2. /\ DOMAIN idle = 1..Len(idle)
          /\ Cardinality({idle[i] : i \in 1..Len(idle)}) = Len(idle)
      BY <2>1, PoolCount
    <2>3. Held \cap {idle[i] : i \in DOMAIN idle} = {}
      BY <2>1, <2>2 DEF PoolInv, Held
    <2>4. \A t \in Callers : call[t].pc = "body" => call[t].answer = <<t, call[t].attempt, call[t].sends>>
      BY <2>1 DEF FrameInv, WireInv
    <2>5. Cardinality({idle[i] : i \in DOMAIN idle}) = Len(idle)
      BY <2>2, Zenon
    <2>6. QED
      BY <2>1, <2>2, <2>3, <2>4, <2>5 DEF PoolIsolation, PoolInv
  <1>2. QED
    BY <1>1, ClientInvariant, PTL

\* A sink is given one body from its start, and the whole of it when the
\* call succeeds: no retry, stale or deliberate, ever restarts a body in a
\* sink that has seen a piece (RoundTrip, SendWithRetriesImpl).
THEOREM SinkSeesOneBodyHolds == Spec => []SinkSeesOneBody
  <1>1. IInv => SinkSeesOneBody
    <2> SUFFICES ASSUME IInv, NEW t \in Callers
                 PROVE  /\ \A i \in DOMAIN call[t].sunk : call[t].sunk[i] = <<call[t].sunk[1][1], i>>
                        /\ Done(t) /\ call[t].streamedOk => Len(call[t].sunk) = Pieces
      BY DEF SinkSeesOneBody
    <2>1. PICK f \in Frames : f = call[t] /\ SinkInv(policy, t, f)
      BY DEF IInv, CallInv, TypeOK, FrameInv
    <2>2. PICK s : s = f.sunk
      OBVIOUS
    <2>3. s \in Seq((Tags \cup {<<>>}) \X Nat) /\ f.pc \in Calling
      BY <2>2 DEF Frames
    <2>4. DOMAIN s = 1..Len(s) /\ Len(s) \in Nat
      BY <2>3
    <2>5. \A i \in 1..Len(s) : s[i] = <<s[1][1], i>>
      <3>1. CASE f.pc = "body" /\ f.streams
        <4>1. \A i \in 1..Len(s) : s[i] = <<f.answer, i>>
          BY <2>1, <2>2, <3>1 DEF SinkInv
        <4>2. QED
          BY <2>4, <4>1
      <3>2. CASE f.pc \in {"outcome", "done"}
        BY <2>1, <2>2, <3>2 DEF SinkInv
      <3>3. CASE ~(f.pc = "body" /\ f.streams) /\ f.pc \notin {"outcome", "done"}
        <4>1. s = <<>>
          BY <2>1, <2>2, <2>3, <3>3 DEF SinkInv, Calling
        <4>2. QED
          BY <4>1
      <3>4. QED
        BY <3>1, <3>2, <3>3
    <2>6. Done(t) /\ f.streamedOk => Len(s) = Pieces
      BY <2>1, <2>2 DEF SinkInv, Done
    <2>7. QED
      BY <2>1, <2>2, <2>4, <2>5, <2>6
  <1>2. QED
    BY <1>1, ClientInvariant, PTL

\* The retry loop keeps to its policy for every policy: attempts, sends per
\* attempt, one copy of the edits, one observation per attempt, and a
\* transient outcome is final only on the last (SendWithRetriesImpl).
THEOREM RetryDisciplineHolds == Spec => []RetryDiscipline
  <1>1. IInv => RetryDiscipline
    BY DEF IInv, CallInv, FrameInv, RetryInv, SendsLeft, RetryDiscipline, Done
  <1>2. QED
    BY <1>1, ClientInvariant, PTL

\* The I/O machinery of a dialed WebSocket outlives its thread, its session
\* and its handle, on whichever thread the handle dies (~DialedWebSocket).
THEOREM IoOutlivesItsUsersHolds == Spec => []IoOutlivesItsUsers
  <1>1. IInv => IoOutlivesItsUsers
    <2> SUFFICES ASSUME IInv, NEW s \in Sockets, socket[s].freed
                 PROVE  /\ socket[s].refs = {}
                        /\ socket[s].thread \in {"none", "ended"}
                        /\ socket[s].thread = "ended" => socket[s].sessionEnded
      BY DEF IoOutlivesItsUsers
    <2>1. socket[s] \in Handle /\ HandleInv(socket[s])
      BY DEF IInv, SocketInv
    <2>2. QED
      BY <2>1 DEF Handle, HandleInv
  <1>2. QED
    BY <1>1, ClientInvariant, PTL
=============================================================================
