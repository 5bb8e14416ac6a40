-------------------------- MODULE BeastServerProofs --------------------------
(* Machine-checked proofs about the server transport, for every finite set   *)
(* of clients, every option set and any number of accept errors: the accept  *)
(* loop keeps the connection cap and is armed once, and Shutdown's count is  *)
(* the requests that are not answered.                                       *)
EXTENDS BeastServer, FiniteSetTheorems, TLAPS

Holding == {c \in Conns : at[c] \in HoldsSession}
AwaitsAnswer == {"queued", "handling", "answered", "writing"}
Unanswered == {c \in Conns : at[c] \in AwaitsAnswer}

\* Both counters, against the connections they count.
CountInv ==
    /\ open_connections = Cardinality(Holding) + releases
    /\ active = Cardinality(Unanswered)

\* The accept loop: an outstanding accept has room for what it accepts, a
\* pause holds the loop at the cap until Shutdown, and only Shutdown closes
\* the acceptor.
AcceptInv ==
    /\ armed \in {0, 1}
    /\ armed = 1 => ~accept_paused /\ ~AtCap(open_connections)
    /\ opts.max_connections > 0 => open_connections <= opts.max_connections
    /\ ~stopping /\ accept_paused => AtCap(open_connections)
    /\ ~stopping /\ armed = 0 /\ ~accept_paused => acceptErrors > 0
    /\ closePosted \/ ~acceptorOpen => stopping

IInv == TypeOK /\ CountInv /\ AcceptInv

-----------------------------------------------------------------------------
\* The steps of Shutdown by name.
LEMMA StopNames ==
    {StopSteps[i] : i \in 1..8} =
        {"up", "drain", "sweep", "abort", "stopPool", "stopIo", "join", "returned"}
  BY DEF StopSteps

\* Subsets of the clients can be counted.
LEMMA CountFinite ==
    ASSUME NEW T \in SUBSET Conns
    PROVE  IsFiniteSet(T) /\ Cardinality(T) \in Nat
  BY ServerAssumption, FS_Subset, FS_CardinalityType

\* How a count of the clients in some phases changes when one client moves.
LEMMA CountMove ==
    ASSUME NEW S, NEW f \in [Conns -> Phases], NEW c \in Conns, NEW phase,
           NEW g, g = [f EXCEPT ![c] = phase]
    PROVE  Cardinality({d \in Conns : g[d] \in S}) =
               Cardinality({d \in Conns : f[d] \in S})
                   + (IF phase \in S THEN 1 ELSE 0) - (IF f[c] \in S THEN 1 ELSE 0)
  <1> DEFINE F == {d \in Conns : f[d] \in S}
             G == {d \in Conns : g[d] \in S}
  <1>1. IsFiniteSet(F) /\ Cardinality(F) \in Nat
    BY CountFinite
  <1>2. c \in F <=> f[c] \in S
    OBVIOUS
  <1>3. phase \in S => G = F \union {c}
    OBVIOUS
  <1>4. phase \notin S => G = F \ {c}
    OBVIOUS
  <1> SUFFICES Cardinality(G) = Cardinality(F) + (IF phase \in S THEN 1 ELSE 0)
                                               - (IF f[c] \in S THEN 1 ELSE 0)
    OBVIOUS
  <1> HIDE DEF F, G
  <1>5. Cardinality(F \union {c}) = IF c \in F THEN Cardinality(F) ELSE Cardinality(F) + 1
    BY <1>1, FS_AddElement
  <1>6. Cardinality(F \ {c}) = IF c \in F THEN Cardinality(F) - 1 ELSE Cardinality(F)
    BY <1>1, FS_RemoveElement
  <1>7. CASE phase \in S
    <2>1. Cardinality(G) = Cardinality(F \union {c})
      BY <1>3, <1>7
    <2>2. QED
      BY <1>1, <1>2, <1>5, <1>7, <2>1
  <1>8. CASE phase \notin S
    <2>1. Cardinality(G) = Cardinality(F \ {c})
      BY <1>4, <1>8
    <2>2. QED
      BY <1>1, <1>2, <1>6, <1>8, <2>1
  <1>9. QED
    BY <1>7, <1>8

\* A step that moves one client and accounts for it in both counters.
LEMMA MoveCounts ==
    ASSUME TypeOK, CountInv, NEW c \in Conns, NEW phase \in Phases, Goto(c, phase),
           open_connections' \in Int, releases' \in Int, active' \in Int,
           open_connections' - releases' = open_connections - releases
               + (IF phase \in HoldsSession THEN 1 ELSE 0) - (IF at[c] \in HoldsSession THEN 1 ELSE 0),
           active' = active + (IF phase \in AwaitsAnswer THEN 1 ELSE 0)
                            - (IF at[c] \in AwaitsAnswer THEN 1 ELSE 0)
    PROVE  CountInv'
  <1>1. at \in [Conns -> Phases] /\ at' = [at EXCEPT ![c] = phase]
    BY DEF TypeOK, Goto
  <1>2. Cardinality(Holding) \in Nat /\ Cardinality(Unanswered) \in Nat
    BY CountFinite DEF Holding, Unanswered
  <1>3. Cardinality(Holding') = Cardinality(Holding)
               + (IF phase \in HoldsSession THEN 1 ELSE 0) - (IF at[c] \in HoldsSession THEN 1 ELSE 0)
    BY <1>1, CountMove DEF Holding
  <1>4. Cardinality(Unanswered') = Cardinality(Unanswered)
               + (IF phase \in AwaitsAnswer THEN 1 ELSE 0) - (IF at[c] \in AwaitsAnswer THEN 1 ELSE 0)
    BY <1>1, CountMove DEF Unanswered
  <1> HIDE DEF HoldsSession, AwaitsAnswer, Holding, Unanswered
  <1>5. QED
    BY <1>2, <1>3, <1>4 DEF CountInv, TypeOK

\* A step that leaves every client where it is, and the counters too.
LEMMA StillCounts ==
    ASSUME CountInv, UNCHANGED <<at, open_connections, releases, active>>
    PROVE  CountInv'
  BY DEF CountInv, Holding, Unanswered

-----------------------------------------------------------------------------
\* The transport starts with one accept outstanding and nobody connected.
LEMMA InitInv == Init => IInv
  <1> SUFFICES ASSUME Init PROVE IInv
    OBVIOUS
  <1> USE DEF Init
  <1>1. TypeOK
    <2>1. at \in [Conns -> Phases] /\ keepAlive \in [Conns -> BOOLEAN]
      BY DEF Phases
    <2>2. /\ armed \in Nat /\ open_connections \in Nat /\ releases \in Nat /\ active \in Nat
          /\ acceptErrors \in 0..MaxAcceptErrors
      BY ServerAssumption
    <2>3. stopAt \in {StopSteps[i] : i \in 1..8}
      BY StopNames, Zenon
    <2>4. QED
      BY <2>1, <2>2, <2>3, Zenon DEF TypeOK
  <1>2. Holding = {} /\ Unanswered = {}
    BY DEF Holding, Unanswered, AwaitsAnswer, HoldsSession, HttpPhases, UpgradePhases
  <1>3. CountInv
    BY <1>2, FS_EmptySet DEF CountInv
  <1>4. AcceptInv
    BY ServerAssumption DEF AcceptInv, AtCap
  <1>5. QED
    BY <1>1, <1>3, <1>4 DEF IInv

-----------------------------------------------------------------------------
\* The counters, one step per action.
LEMMA CountStep ==
    ASSUME IInv, Next
    PROVE  CountInv'
  <1> USE DEF IInv, acceptVars, wsVars, stopVars
  <1> DEFINE Counters == <<open_connections, releases, active>>
  <1>t. open_connections \in Nat /\ releases \in Nat /\ active \in Nat /\ at \in [Conns -> Phases]
    BY DEF TypeOK
  <1> USE <1>t DEF HoldsSession, HttpPhases, UpgradePhases, AwaitsAnswer, Phases
  <1>1. ASSUME NEW c \in Conns,
               Connect(c) \/ IoStep(c) \/ PoolStep(c) \/ SessionEnds(c) \/ ServeReturns(c)
        PROVE  CountInv'
    <2>1. CASE Connect(c)
      BY <2>1, MoveCounts DEF Connect
    <2>2. CASE AcceptConnection(c)
      BY <2>2, MoveCounts DEF AcceptConnection
    <2>3. CASE Handshake(c)
      BY <2>3, MoveCounts DEF Handshake, Destroy, Goto
    <2>4. CASE ReadNext(c)
      BY <2>4, MoveCounts DEF ReadNext, Destroy, Goto, Dispatch
    <2>5. CASE RejectOverLimit(c) \/ DrainThenClose(c) \/ Respond(c)
      BY <2>5, MoveCounts DEF RejectOverLimit, DrainThenClose, Respond, Destroy, Goto
    <2>6. CASE WriteWire(c)
      BY <2>6, MoveCounts DEF WriteWire, Destroy, Goto
    <2>7. CASE Upgrade(c)
      BY <2>7, MoveCounts DEF Upgrade, Destroy, Goto
    <2>8. CASE CompleteUpgrade(c)
      BY <2>8, MoveCounts DEF CompleteUpgrade, Destroy, Goto
    <2>9. CASE RegisterWebSocket(c)
      BY <2>9, MoveCounts DEF RegisterWebSocket
    <2>10. CASE SessionDies(c)
      <3>1. /\ at[c] = "open" /\ Goto(c, "away") /\ releases' = releases + 1
            /\ UNCHANGED <<open_connections, active>>
        BY <2>10 DEF SessionDies, Destroy, Goto
      <3>2. QED
        BY <3>1, MoveCounts
    <2>11. CASE RunJob(c)
      BY <2>11, MoveCounts DEF RunJob
    <2>12. CASE HandlerReturns(c) \/ ServeReturns(c)
      BY <2>12, MoveCounts DEF HandlerReturns, ServeReturns
    <2>13. CASE GateReturns(c)
      BY <2>13, MoveCounts DEF GateReturns
    <2>14. CASE SessionEnds(c)
      BY <2>14, StillCounts DEF SessionEnds
    <2>15. QED
      BY <1>1, <2>1, <2>2, <2>3, <2>4, <2>5, <2>6, <2>7, <2>8, <2>9, <2>10, <2>11, <2>12,
         <2>13, <2>14 DEF IoStep, PoolStep
  <1>2. CASE AcceptFails
    BY <1>2, StillCounts DEF AcceptFails
  <1>3. CASE OnSessionClosed
    <2>1. /\ UNCHANGED <<at, active>> /\ open_connections' = open_connections - 1
          /\ releases' = releases - 1
      BY <1>3 DEF OnSessionClosed
    <2>2. QED
      BY <2>1, CountFinite DEF CountInv, Holding, Unanswered
  <1>4. CASE CloseAcceptor
    <2>1. Holding' = Holding /\ Unanswered' = Unanswered
      BY <1>4 DEF CloseAcceptor, Holding, Unanswered
    <2>2. QED
      BY <1>4, <2>1 DEF CountInv, CloseAcceptor
  <1>5. CASE Shutdown \/ StopNext
    BY <1>5, StillCounts DEF Shutdown, StopNext, Sweep, AbortWebSockets, StopPool, StopIo,
                             DrainEnds, Join
  <1>6. QED
    BY <1>1, <1>2, <1>3, <1>4, <1>5 DEF Next, Step

-----------------------------------------------------------------------------
\* The types; the counters' follow from what they count.
LEMMA TypeStep ==
    ASSUME IInv, Next
    PROVE  TypeOK'
  <1> USE StopNames, ServerAssumption DEF IInv, TypeOK, acceptVars, wsVars, stopVars
  <1>p. Phases = HttpPhases \union UpgradePhases \union {"away", "backlog"}
    BY DEF Phases, HoldsSession
  <1>o. opts' = opts
    BY DEF Next
  <1>1. ASSUME NEW c \in Conns,
               Connect(c) \/ IoStep(c) \/ PoolStep(c) \/ SessionEnds(c) \/ ServeReturns(c)
        PROVE  TypeOK'
    <2> USE <1>p, <1>o DEF Goto, Destroy, HttpPhases, UpgradePhases
    <2>1. CASE Connect(c)
      BY <2>1 DEF Connect
    <2>2. CASE AcceptConnection(c)
      <3>1. at' \in [Conns -> Phases]
        BY <2>2 DEF AcceptConnection
      <3>2. armed' \in Nat /\ open_connections' \in Nat
        BY <2>2 DEF AcceptConnection, Accept
      <3>3. accept_paused' \in BOOLEAN
        BY <2>2 DEF AcceptConnection, Accept
      <3>4. QED
        BY <2>2, <3>1, <3>2, <3>3 DEF AcceptConnection
    <2>3. CASE Handshake(c)
      BY <2>3 DEF Handshake
    <2>4. CASE ReadNext(c)
      BY <2>4 DEF ReadNext, Dispatch
    <2>5. CASE RejectOverLimit(c) \/ DrainThenClose(c) \/ Respond(c)
      BY <2>5 DEF RejectOverLimit, DrainThenClose, Respond
    <2>6. CASE WriteWire(c)
      <3>1. active' \in Nat
        BY CountStep, CountFinite DEF CountInv, Unanswered
      <3>2. QED
        BY <2>6, <3>1 DEF WriteWire
    <2>7. CASE Upgrade(c)
      BY <2>7 DEF Upgrade
    <2>8. CASE CompleteUpgrade(c)
      BY <2>8 DEF CompleteUpgrade
    <2>9. CASE RegisterWebSocket(c)
      BY <2>9 DEF RegisterWebSocket
    <2>10. CASE SessionDies(c)
      BY <2>10 DEF SessionDies
    <2>11. CASE RunJob(c)
      BY <2>11 DEF RunJob
    <2>12. CASE HandlerReturns(c)
      BY <2>12 DEF HandlerReturns
    <2>13. CASE ServeReturns(c)
      BY <2>13 DEF ServeReturns
    <2>14. CASE GateReturns(c)
      BY <2>14 DEF GateReturns
    <2>15. CASE SessionEnds(c)
      BY <2>15 DEF SessionEnds
    <2>16. QED
      BY <1>1, <2>1, <2>2, <2>3, <2>4, <2>5, <2>6, <2>7, <2>8, <2>9, <2>10, <2>11, <2>12,
         <2>13, <2>14, <2>15 DEF IoStep, PoolStep
  <1>2. CASE AcceptFails
    BY <1>2, <1>o DEF AcceptFails
  <1>3. CASE OnSessionClosed
    <2>1. open_connections' \in Nat
      BY <1>3, CountStep, CountFinite DEF CountInv, Holding, OnSessionClosed
    <2>2. QED
      BY <1>3, <1>o, <2>1 DEF OnSessionClosed, Resume, AtCap
  <1>4. CASE CloseAcceptor
    BY <1>4, <1>p, <1>o DEF CloseAcceptor
  <1>5. CASE Shutdown
    BY <1>5, <1>o DEF Shutdown, StopStep
  <1>6. CASE StopNext
    BY <1>6, <1>o DEF StopNext, Sweep, AbortWebSockets, StopPool, StopIo, DrainEnds, Join, StopStep
  <1>7. QED
    BY <1>1, <1>2, <1>3, <1>4, <1>5, <1>6 DEF Next, Step

-----------------------------------------------------------------------------
\* The accept loop, one step per action that touches it.
LEMMA AcceptStep ==
    ASSUME IInv, Next
    PROVE  AcceptInv'
  <1> USE ServerAssumption DEF IInv, AcceptInv, AtCap
  <1>t. /\ opts.max_connections \in Nat /\ opts' = opts /\ open_connections \in Nat
        /\ acceptErrors \in Nat
    BY DEF Next, TypeOK
  <1> USE <1>t
  <1>1. ASSUME NEW c \in Conns, AcceptConnection(c)
        PROVE  AcceptInv'
    BY <1>1 DEF AcceptConnection, Accept, stopVars
  <1>2. ASSUME UNCHANGED <<armed, accept_paused, open_connections, acceptorOpen, closePosted,
                           acceptErrors, stopping>>
        PROVE  AcceptInv'
    BY <1>2
  <1>3. CASE AcceptFails
    BY <1>3 DEF AcceptFails, stopVars
  <1>4. CASE OnSessionClosed
    <2>1. /\ open_connections' = open_connections - 1 /\ Resume(open_connections - 1)
          /\ UNCHANGED <<acceptorOpen, closePosted, acceptErrors, stopping>>
      BY <1>4 DEF OnSessionClosed, stopVars
    <2>2. CASE ~(accept_paused /\ ~stopping)
      BY <2>1, <2>2 DEF Resume
    <2>3. CASE accept_paused /\ ~stopping /\ AtCap(open_connections - 1)
      BY <2>1, <2>3 DEF Resume
    <2>4. CASE accept_paused /\ ~stopping /\ ~AtCap(open_connections - 1)
      <3>1. armed = 0
        BY <2>4
      <3>2. armed' = 1
        BY <2>1, <2>4, <3>1 DEF Resume
      <3>3. accept_paused' = FALSE
        BY <2>1, <2>4 DEF Resume
      <3>4. open_connections - 1 < opts.max_connections \/ opts.max_connections = 0
        BY <2>4
      <3>5. QED
        BY <2>1, <2>4, <3>2, <3>3, <3>4
    <2>5. QED
      BY <2>2, <2>3, <2>4
  <1>5. CASE CloseAcceptor
    BY <1>5 DEF CloseAcceptor, stopVars
  <1>6. CASE Shutdown
    BY <1>6 DEF Shutdown
  <1>7. CASE StopNext
    BY <1>2, <1>7 DEF StopNext, Sweep, AbortWebSockets, StopPool, StopIo, DrainEnds, Join, acceptVars
  <1>8. ASSUME NEW c \in Conns, \/ Connect(c) \/ (IoStep(c) /\ ~AcceptConnection(c))
                                \/ PoolStep(c) \/ SessionEnds(c) \/ ServeReturns(c)
        PROVE  AcceptInv'
    <2>1. CASE Connect(c) \/ PoolStep(c) \/ SessionEnds(c) \/ ServeReturns(c)
      BY <1>2, <2>1 DEF Connect, PoolStep, RunJob, HandlerReturns, GateReturns, SessionEnds,
                        ServeReturns, acceptVars, stopVars
    <2>2. CASE IoStep(c) /\ ~AcceptConnection(c)
      BY <1>2, <2>2 DEF IoStep, Handshake, ReadNext, Dispatch, RejectOverLimit, DrainThenClose, Respond,
                        WriteWire, Upgrade, CompleteUpgrade, RegisterWebSocket, SessionDies,
                        Destroy, acceptVars, stopVars
    <2>3. QED
      BY <1>8, <2>1, <2>2
  <1>9. QED
    BY <1>1, <1>3, <1>4, <1>5, <1>6, <1>7, <1>8 DEF Next, Step, IoStep

\* The invariant is inductive.
LEMMA StepInv == IInv /\ [Next]_vars => IInv'
  <1> SUFFICES ASSUME IInv, [Next]_vars PROVE IInv'
    OBVIOUS
  <1>1. CASE Next
    BY <1>1, CountStep, TypeStep, AcceptStep DEF IInv
  <1>2. CASE UNCHANGED vars
    BY <1>2 DEF vars, acceptVars, wsVars, stopVars, IInv, TypeOK, CountInv, AcceptInv, AtCap,
                Holding, Unanswered
  <1>3. QED
    BY <1>1, <1>2

\* For every set of clients and options, every reachable state of the server
\* transport (beast_transport.cc) satisfies the inductive invariant.
THEOREM ServerInvariant == Spec => []IInv
  BY InitInv, StepInv, PTL DEF Spec

\* Accept, RunSession and OnSessionClosed: open_connections is the sessions
\* alive plus the releases posted by their destructors and never passes
\* max_connections; at most one async_accept is outstanding, and while the
\* transport is up the loop is armed, paused at the cap, or was lost to an
\* accept error.
THEOREM AcceptLoopHolds == Spec => []AcceptLoop
  <1>1. IInv => AcceptLoop
    BY DEF IInv, CountInv, AcceptInv, AcceptLoop, Holding
  <1>2. QED
    BY <1>1, ServerInvariant, PTL

\* Shutdown drains on `active': it is exactly the requests read and not yet
\* written, over every path a request can take.
THEOREM ActiveIsUnansweredHolds == Spec => []ActiveIsUnanswered
  <1>1. IInv => ActiveIsUnanswered
    BY DEF IInv, CountInv, ActiveIsUnanswered, Unanswered, AwaitsAnswer
  <1>2. QED
    BY <1>1, ServerInvariant, PTL
=============================================================================
