------------------------- MODULE EventStreamsProofs -------------------------
(* Machine-checked proofs about the event-stream session, for every set of   *)
(* handles and every budget of operations: the coroutine's frame is resumed  *)
(* once, the route never closes over its own frame, and a borrowed socket    *)
(* outlives every handle operation.                                          *)
EXTENDS EventStreams, FiniteSetTheorems, TLAPS

\* The loop is in its own code and waits for nothing.
Running == {"body", "closing", "revoking", "draining", "done"}
Waiting == {"awaiting", "policing", "failing"}

\* Who waits for what, and who of the two halves has been there.
AwaitInv ==
    /\ loop \in Running => await = "none" /\ arrived = {}
    /\ loop \in Running \ {"done"} => inFrame = 1
    /\ loop = "done" => inFrame = 0
    /\ loop = "awaiting" => await \in {"receive", "send"}
    /\ loop = "policing" => await = "receive"
    /\ loop = "failing" => await = "exception"
    /\ loop \in Waiting =>
        inFrame = IF "suspend" \in arrived /\ "callback" \notin arrived THEN 0 ELSE 1
    /\ "callback" \in arrived => result # "none"

\* The operation that is outstanding on the socket is the one awaited, and
\* its completion has not run.
OutstandingInv ==
    /\ receiving => loop = "awaiting" /\ await = "receive" /\ "callback" \notin arrived
    /\ sending = "loop" =>
        loop \in {"awaiting", "failing"} /\ await \in {"send", "exception"} /\ "callback" \notin arrived
    /\ sending = "police" <=> loop = "policing"
    /\ loop = "policing" => "callback" \notin arrived
    /\ answered # "none" => closed

\* A borrowed socket's pins count the handles inside it; from End on the
\* pointer is null, and a pin that has been waited for is not taken again.
Busy == {h \in Handles : at[h] # "idle"}
PinInv ==
    /\ active = IF owned THEN 0 ELSE Cardinality(Busy)
    /\ loop \in {"draining", "done"} => ~view
    /\ loop = "done" /\ ~owned => Busy = {}

\* The types of everything but the pins.
ShapeOK ==
    /\ owned \in BOOLEAN /\ jsonrpc \in BOOLEAN
    /\ receiving \in BOOLEAN /\ closed \in BOOLEAN /\ view \in BOOLEAN
    /\ loop \in LoopStates
    /\ await \in {"none", "receive", "send", "exception"}
    /\ arrived \subseteq {"suspend", "callback"}
    /\ inFrame \in 0..1
    /\ result \in Results
    /\ loopOps \in 0..LoopOps /\ opsLeft \in [Handles -> 0..HandleOps]
    /\ sending \in Owners
    /\ at \in [Handles -> HandleStates]
    /\ answered \in {"none", "ok", "error", "refused"}

IInv == ShapeOK /\ AwaitInv /\ OutstandingInv /\ PinInv

LoopInv == ShapeOK /\ AwaitInv /\ OutstandingInv

-----------------------------------------------------------------------------
\* The session starts in the handler's body, with nothing outstanding.
LEMMA InitInv == Init => IInv
  <1> SUFFICES ASSUME Init PROVE IInv
    OBVIOUS
  <1> USE DEF Init
  <1>1. ShapeOK
    <2>1. opsLeft \in [Handles -> 0..HandleOps] /\ at \in [Handles -> HandleStates]
      BY StreamsAssumption DEF HandleStates
    <2>2. loopOps \in 0..LoopOps /\ inFrame \in 0..1
      BY StreamsAssumption
    <2>3. QED
      BY <2>1, <2>2, Zenon DEF ShapeOK, LoopStates, Results, Owners, Frames
  <1>2. AwaitInv /\ OutstandingInv
    BY DEF AwaitInv, OutstandingInv, Running, Waiting
  <1>3. Busy = {}
    BY DEF Busy
  <1>4. PinInv
    BY <1>3, FS_EmptySet DEF PinInv
  <1>5. QED
    BY <1>1, <1>2, <1>4 DEF IInv

\* The serve route's own steps keep the await protocol.
LEMMA LoopStepInv ==
    ASSUME LoopInv, LoopStep, UNCHANGED <<owned, jsonrpc>>
    PROVE  LoopInv'
  <1> USE StreamsAssumption DEF LoopInv, ShapeOK, AwaitInv, OutstandingInv, Running, Waiting,
          LoopStates, Owners, socketVars, handleVars, viewVars, Results, Frames
  <1>1. CASE Receive
    BY <1>1 DEF Receive, Await
  <1>2. CASE Send
    BY <1>2 DEF Send, LoopSend, Await
  <1>3. CASE HandlerFails
    BY <1>3 DEF HandlerFails, LoopSend, Await
  <1>4. CASE HandlerReturns
    BY <1>4 DEF HandlerReturns
  <1>5. CASE AwaitSuspend
    BY <1>5 DEF AwaitSuspend
  <1>6. CASE AwaitResume
    BY <1>6 DEF AwaitResume
  <1>7. CASE StreamClose
    BY <1>7 DEF StreamClose
  <1>8. CASE End
    BY <1>8 DEF End
  <1>9. CASE EndDrained
    BY <1>9 DEF EndDrained
  <1>10. QED
    BY <1>1, <1>2, <1>3, <1>4, <1>5, <1>6, <1>7, <1>8, <1>9 DEF LoopStep

\* A completion stores its outcome before it resumes anybody, and frees the
\* operation it completes.
LEMMA CompletionInv ==
    ASSUME LoopInv, Completion, UNCHANGED <<owned, jsonrpc>>
    PROVE  LoopInv'
  <1> USE StreamsAssumption DEF LoopInv, ShapeOK, AwaitInv, OutstandingInv, Running, Waiting,
          LoopStates, Owners, socketVars, handleVars, viewVars, loopVars, Results, Frames
  <1>1. ASSUME NEW frame \in Frames \union {"closed"}, ReceiveCompletes(frame)
        PROVE  LoopInv'
    <2>1. /\ frame \in Results \ {"none"} /\ receiving /\ receiving' = FALSE /\ loop = "awaiting"
          /\ UNCHANGED <<await, loopOps, view, active, at, opsLeft>>
      BY <1>1 DEF ReceiveCompletes
    <2>a. PICK out \in Results \ {"none"} : out = ClassifyInbound(frame)
      BY <2>1 DEF ClassifyInbound
    <2>2. CASE Complete(ClassifyInbound(frame)) /\ UNCHANGED <<loop, sending, closed, answered>>
      <3>1. arrived' \in SUBSET {"suspend", "callback"} /\ inFrame' \in 0..1 /\ result' \in Results
        BY <2>1, <2>2, <2>a DEF Complete
      <3>2. AwaitInv'
        BY <2>1, <2>2, <2>a DEF Complete
      <3>3. OutstandingInv'
        BY <2>1, <2>2, <2>a DEF Complete
      <3>4. QED
        BY <2>1, <2>2, <3>1, <3>2, <3>3
    <2>3. CASE /\ loop' = "policing" /\ sending = "none" /\ sending' = "police"
               /\ UNCHANGED <<arrived, inFrame, result, closed, answered>>
      BY <2>1, <2>3, ZenonT(40)
    <2>4. CASE /\ closed' = TRUE /\ answered' = "refused"
               /\ Complete(ClassifyInbound(frame)) /\ UNCHANGED <<loop, sending>>
      <3>1. arrived' \in SUBSET {"suspend", "callback"} /\ inFrame' \in 0..1 /\ result' \in Results
        BY <2>1, <2>4, <2>a DEF Complete
      <3>2. AwaitInv'
        BY <2>1, <2>4, <2>a DEF Complete
      <3>3. OutstandingInv'
        BY <2>1, <2>4, <2>a DEF Complete
      <3>4. QED
        BY <2>1, <2>4, <3>1, <3>2, <3>3
    <2>5. QED
      BY <1>1, <2>2, <2>3, <2>4, Zenon DEF ReceiveCompletes
  <1>2. ASSUME NEW outcome \in {"ok", "error"}, PoliceCompletes(outcome)
        PROVE  LoopInv'
    BY <1>2 DEF PoliceCompletes, Complete
  <1>3. ASSUME NEW outcome \in {"ok", "error"}, LoopSendCompletes(outcome)
        PROVE  LoopInv'
    BY <1>3 DEF LoopSendCompletes, Complete
  <1>4. ASSUME NEW h \in Handles, HandleSendCompletes(h)
        PROVE  LoopInv'
    BY <1>4 DEF HandleSendCompletes, Release, HandleStates
  <1>5. QED
    BY <1>1, <1>2, <1>3, <1>4 DEF Completion

\* Handles, and the peer, touch the socket and never the coroutine.
LEMMA OthersInv ==
    ASSUME LoopInv, PeerCloses \/ \E h \in Handles : HandleStep(h), UNCHANGED <<owned, jsonrpc>>
    PROVE  LoopInv'
  <1> USE StreamsAssumption DEF LoopInv, ShapeOK, AwaitInv, OutstandingInv, Running, Waiting,
          LoopStates, Owners, socketVars, handleVars, viewVars, loopVars, HandleStates
  <1>1. CASE PeerCloses
    BY <1>1 DEF PeerCloses
  <1>2. ASSUME NEW h \in Handles, HandleStep(h)
        PROVE  LoopInv'
    <2>1. CASE Acquire(h)
      BY <2>1 DEF Acquire
    <2>2. CASE HandleSend(h)
      BY <2>2 DEF HandleSend
    <2>3. CASE HandleTurn(h)
      BY <2>3 DEF HandleTurn
    <2>4. CASE HandleSendAsync(h)
      BY <2>4 DEF HandleSendAsync, Release
    <2>5. CASE HandleClose(h)
      BY <2>5 DEF HandleClose, Release
    <2>6. QED
      BY <1>2, <2>1, <2>2, <2>3, <2>4, <2>5 DEF HandleStep
  <1>3. QED
    BY <1>1, <1>2

-----------------------------------------------------------------------------
\* Handles are finitely many, so the busy ones can be counted.
LEMMA BusyFinite == IsFiniteSet(Busy) /\ Cardinality(Busy) \in 0..Cardinality(Handles)
  <1>1. Busy \in SUBSET Handles
    BY DEF Busy
  <1>2. QED
    BY <1>1, StreamsAssumption, FS_Subset, FS_CardinalityType

\* A step that leaves every handle where it was, or moves one of them between
\* two places inside the socket, keeps the count.
LEMMA SameBusy ==
    ASSUME PinInv, Busy' = Busy, UNCHANGED <<owned, active>>,
           loop' \in {"draining", "done"} => ~view',
           loop' = "done" => loop = "done" \/ active = 0
    PROVE  PinInv'
  BY BusyFinite, FS_EmptySet DEF PinInv

\* A handle enters: Acquire takes a pin with the pointer it copies.
LEMMA EnterBusy ==
    ASSUME PinInv, ShapeOK, NEW h \in Handles, at[h] = "idle", view, at' = [at EXCEPT ![h] = "held"],
           active' = IF owned THEN active ELSE active + 1, UNCHANGED <<owned, loop, view>>
    PROVE  PinInv'
  <1>1. Busy' = Busy \union {h} /\ h \notin Busy
    BY DEF Busy, ShapeOK
  <1>2. Cardinality(Busy') = Cardinality(Busy) + 1
    BY <1>1, BusyFinite, FS_AddElement
  <1>3. QED
    BY <1>2 DEF PinInv

\* A handle leaves: Release gives back the pin that Acquire took.
LEMMA LeaveBusy ==
    ASSUME PinInv, ShapeOK, NEW h \in Handles, at[h] # "idle", Release(h),
           UNCHANGED <<owned, loop, view>>
    PROVE  PinInv'
  <1>1. Busy' = Busy \ {h} /\ h \in Busy
    BY DEF Busy, ShapeOK, Release
  <1>2. Cardinality(Busy') = Cardinality(Busy) - 1
    BY <1>1, BusyFinite, FS_RemoveElement
  <1>3. QED
    BY <1>1, <1>2 DEF PinInv, Release

\* Every step keeps the count of pins.
LEMMA PinStep ==
    ASSUME IInv, Next
    PROVE  PinInv'
  <1> USE DEF IInv
  <1> UNCHANGED <<owned, jsonrpc>>
    BY DEF Next
  <1>1. CASE LoopStep
    <2>1. Busy' = Busy /\ active' = active
      BY <1>1 DEF LoopStep, Receive, Send, HandlerFails, HandlerReturns, AwaitSuspend, AwaitResume,
                  StreamClose, End, EndDrained, Busy, handleVars, viewVars
    <2>2. /\ loop' \in {"draining", "done"} => ~view'
          /\ loop' = "done" => loop = "done" \/ active = 0
      BY <1>1 DEF LoopStep, Receive, Send, HandlerFails, HandlerReturns, AwaitSuspend, AwaitResume,
                  StreamClose, End, EndDrained, LoopSend, Await, handleVars, viewVars, PinInv
    <2>3. QED
      BY <2>1, <2>2, SameBusy
  <1>2. CASE Completion
    <2>1. ASSUME NEW h \in Handles, HandleSendCompletes(h)
          PROVE  PinInv'
      BY <2>1, LeaveBusy DEF HandleSendCompletes, loopVars
    <2>2. ASSUME \/ \E frame \in Frames \union {"closed"} : ReceiveCompletes(frame)
                 \/ \E outcome \in {"ok", "error"} : PoliceCompletes(outcome) \/ LoopSendCompletes(outcome)
          PROVE  PinInv'
      <3>1. Busy' = Busy /\ active' = active /\ view' = view
        BY <2>2 DEF ReceiveCompletes, PoliceCompletes, LoopSendCompletes, Busy, handleVars, viewVars
      <3>2. loop' = loop \/ loop' \notin {"draining", "done"}
        BY <2>2 DEF ReceiveCompletes, PoliceCompletes, LoopSendCompletes
      <3>3. QED
        BY <3>1, <3>2, SameBusy DEF PinInv
    <2>3. QED
      BY <1>2, <2>1, <2>2 DEF Completion
  <1>3. CASE PeerCloses
    <2>1. Busy' = Busy /\ UNCHANGED <<active, view, loop>>
      BY <1>3 DEF PeerCloses, Busy, handleVars, viewVars, loopVars
    <2>2. QED
      BY <2>1, SameBusy DEF PinInv
  <1>4. ASSUME NEW h \in Handles, HandleStep(h)
        PROVE  PinInv'
    <2> USE DEF loopVars, viewVars
    <2>1. CASE Acquire(h) /\ view
      BY <2>1, EnterBusy DEF Acquire
    <2>2. CASE Acquire(h) /\ ~view
      <3>1. Busy' = Busy /\ UNCHANGED <<active, view, loop>>
        BY <2>2 DEF Acquire, Busy
      <3>2. QED
        BY <3>1, SameBusy DEF PinInv
    <2>3. CASE \/ HandleSend(h) \/ HandleTurn(h)
               \/ HandleSendAsync(h) /\ at' = [at EXCEPT ![h] = "async"] /\ active' = active
      <3>1. Busy' = Busy /\ UNCHANGED <<active, view, loop>>
        BY <2>3 DEF HandleSend, HandleTurn, HandleSendAsync, Busy, ShapeOK
      <3>2. QED
        BY <3>1, SameBusy DEF PinInv
    <2>4. CASE HandleSendAsync(h) /\ Release(h)
      BY <2>4, LeaveBusy DEF HandleSendAsync
    <2>5. CASE HandleClose(h)
      BY <2>5, LeaveBusy DEF HandleClose
    <2>6. QED
      BY <1>4, <2>1, <2>2, <2>3, <2>4, <2>5, Zenon DEF HandleStep, HandleSendAsync
  <1>5. QED
    BY <1>1, <1>2, <1>3, <1>4 DEF Next

\* The invariant is inductive.
LEMMA StepInv == IInv /\ [Next]_vars => IInv'
  <1> SUFFICES ASSUME IInv, [Next]_vars PROVE IInv'
    OBVIOUS
  <1>1. CASE Next
    <2>1. LoopInv'
      BY <1>1, LoopStepInv, CompletionInv, OthersInv, Zenon DEF Next, IInv, LoopInv
    <2>2. QED
      BY <1>1, <2>1, PinStep DEF IInv, LoopInv
  <1>2. CASE UNCHANGED vars
    BY <1>2 DEF vars, socketVars, loopVars, handleVars, viewVars, IInv, ShapeOK, AwaitInv,
                OutstandingInv, PinInv, Busy
  <1>3. QED
    BY <1>1, <1>2

\* For every set of handles and every budget, every reachable state satisfies
\* the invariant that ties the coroutine (async_event_stream.h), the socket
\* and the shared view's pins (event_stream.h) together.
THEOREM StreamInvariant == Spec => []IInv
  BY InitInv, StepInv, PTL DEF Spec

\* A borrowed socket outlives every handle operation inside it: SharedViewOwner
\* ::End returns only when the pins, which count exactly the handles that are
\* inside, are back at zero, and from the revocation on none is taken.
THEOREM NoUseAfterEndHolds == Spec => []NoUseAfterEnd
  <1>1. IInv => NoUseAfterEnd
    <2> SUFFICES ASSUME IInv PROVE NoUseAfterEnd
      OBVIOUS
    <2>1. active \in 0..Cardinality(Handles)
      BY BusyFinite, StreamsAssumption, FS_CardinalityType DEF IInv, PinInv
    <2>2. TypeOK
      BY <2>1 DEF IInv, ShapeOK, TypeOK
    <2>3. QED
      BY <2>2 DEF IInv, PinInv, Busy, NoUseAfterEnd
  <1>2. QED
    BY <1>1, StreamInvariant, PTL

\* The awaitable's exchange (AwaitState::arrived_) resumes the coroutine
\* exactly once, by whichever half comes second and with the outcome stored.
THEOREM ResumedOnceHolds == Spec => []ResumedOnce
  <1>1. IInv => ResumedOnce
    BY DEF IInv, ShapeOK, AwaitInv, ResumedOnce, Running, Waiting, LoopStates
  <1>2. QED
    BY <1>1, StreamInvariant, PTL

\* The serve route never closes the socket over its own exception frame or the
\* wrapper's terminal error, and a policed violation leaves it closed.
THEOREM ClosesOverNoFrameHolds == Spec => []ClosesOverNoFrame
  <1>1. IInv => ClosesOverNoFrame
    BY DEF IInv, OutstandingInv, AwaitInv, ClosesOverNoFrame, Running
  <1>2. QED
    BY <1>1, StreamInvariant, PTL
=============================================================================
