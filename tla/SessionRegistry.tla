-------------------------- MODULE SessionRegistry ---------------------------
(* The multi-client fan-out helper, runtime/include/opal/server/             *)
(* session_registry.h: a map of sessions under one registry lock, an entry   *)
(* per session with a bounded outbound queue under the entry's own lock, and *)
(* per entry one deliverer, a writer thread or a chain of SendAsync          *)
(* completions.  Detach parks an entry for a grace period, Resume gives it a *)
(* new connection, expiry claims it.                                         *)
(*                                                                           *)
(* One action per lock hold.  Only Resume holds the registry lock while it   *)
(* waits, so `resuming` is that lock.  A connection is external: it is open  *)
(* or not, and a send on it succeeds, fails, or is refused because the       *)
(* application is sending (the WebSocket contract of websocket.h).           *)
EXTENDS Naturals, Sequences, FiniteSets

CONSTANTS
    Ids,                \* the application's session keys
    Capacity,           \* Options::queue_capacity
    Async,              \* Options::async_delivery
    Retain,             \* Options::queue_while_detached
    Dials,              \* bound: connections offered to Add and Resume
    Calls,              \* bound: SendTo and Broadcast calls
    CallerThreads,      \* bound: of them in progress at once
    Classes,            \* the delivery classes used
    MayDestroy,         \* whether the destructor may run
    IoThreads,          \* threads that run the transport's completions
    IoCallers           \* how many of them may be inside registry calls at once

ASSUME CapacityAssumption == Capacity \in Nat \ {0}
ASSUME OptionsAssumption ==
    /\ {Async, Retain, MayDestroy} \subseteq BOOLEAN
    /\ {Dials, Calls, CallerThreads, IoThreads, IoCallers} \subseteq Nat
    /\ IoCallers <= IoThreads
    /\ Classes \subseteq {"reliable", "droppable", "coalesce"}

None == 0
Conns == 1 .. Dials
Entries == 1 .. Dials

VARIABLES
    sessions,    \* the map: the entry registered under each id, or None
    retired,     \* entries removed with a writer still to join
    entry,       \* the Entry objects
    entries,     \* how many were made
    flight,      \* what an entry's deliverer has in hand, and on which connection
    resuming,    \* the Resume that holds the registry lock, or None
    callers,     \* SendTo and Broadcast calls past the registry lock
    io_blocked,  \* io threads waiting for the registry lock inside a call
    firing,      \* entries expiry claimed whose on_expired has not run
    to_close,    \* old handles Detach is about to Close
    life,        \* where the destructor is
    \* the connections, and what the application was told
    dials, open, calls,
    enqueued,    \* events taken (SendTo returned true), which numbers them
    promised,    \* those no one may drop, until delivered or their delivery ends
    last,        \* the slot each entry delivered last
    expiries     \* on_expired runs per entry

vars == <<sessions, retired, entry, entries, flight, resuming, callers, io_blocked,
          firing, to_close, life, dials, open, calls, enqueued, promised,
          last, expiries>>
maps == <<sessions, retired, entries>>
graces == <<firing, expiries>>
wires == <<dials, open>>
history == <<calls, enqueued, promised, last>>

\* An Entry as Add makes it.
NewEntry(c, async) ==
    [handle |-> c, queue |-> <<>>, stopping |-> FALSE, done |-> FALSE,
     async_mode |-> async, delivering |-> FALSE, detached |-> FALSE,
     writer |-> IF async THEN "none" ELSE "loop",    \* none: not joinable
     chain |-> "idle"]

NoItem == [t |-> 0, v |-> 0, class |-> "none"]
Idle == [item |-> NoItem, conn |-> None]

Init ==
    /\ sessions = [id \in Ids |-> None]
    /\ retired = {} /\ entries = 0
    /\ entry = [e \in Entries |-> [NewEntry(None, TRUE) EXCEPT !.stopping = TRUE]]
    /\ flight = [e \in Entries |-> Idle]
    /\ resuming = None /\ callers = {} /\ io_blocked = 0
    /\ firing = {} /\ to_close = {}
    /\ life = "up"
    /\ dials = 0 /\ open = {} /\ calls = 0 /\ enqueued = 0
    /\ promised = {} /\ last = [e \in Entries |-> 0]
    /\ expiries = [e \in Entries |-> 0]

-----------------------------------------------------------------------------
Registered == {sessions[id] : id \in Ids} \ {None}
LockFree == life = "up" /\ resuming = None
Joinable(e) == entry[e].writer # "none"
Slots(queue) == {queue[i] : i \in DOMAIN queue}

\* Delivery of these events has succeeded, or has ended for good.
Settle(items) == promised' = {p \in promised : \A i \in items : i.v # p.v}

\* ReapLocked: the retired writers that have finished are joined.
Reapable(r, es) == {e \in r : es[e].writer = "none" \/ es[e].done}
Joined(r, es) ==
    [e \in Entries |-> IF e \in Reapable(r, es) THEN [es[e] EXCEPT !.writer = "none"]
                                                ELSE es[e]]

\* Add: a new entry and its writer, or nothing when the id is taken.
Add(id, supports) ==
    LET async == Async /\ supports
        e == entries + 1
        made == [entry EXCEPT ![e] = NewEntry(dials + 1, async)] IN
    /\ LockFree /\ dials < Dials
    /\ dials' = dials + 1 /\ open' = open \cup {dials + 1}
    /\ retired' = retired \ Reapable(retired, entry)
    /\ IF sessions[id] = None
       THEN /\ sessions' = [sessions EXCEPT ![id] = e]
            /\ entries' = e
            /\ entry' = Joined(retired, made)
       ELSE /\ entry' = Joined(retired, entry)
            /\ UNCHANGED <<sessions, entries>>
    /\ UNCHANGED <<flight, resuming, callers, io_blocked, graces, to_close, life, history>>

\* Stop the entry and take its queue, under one entry-lock hold.
Stopped(e) == [entry EXCEPT ![e].stopping = TRUE, ![e].queue = <<>>]
Retires(e) == retired \cup (IF Joinable(e) THEN {e} ELSE {})

Remove(id) ==
    LET e == sessions[id]
        stopped == Stopped(e) IN
    /\ LockFree /\ e # None
    /\ sessions' = [sessions EXCEPT ![id] = None]
    /\ Settle(Slots(entry[e].queue))
    /\ retired' = Retires(e) \ Reapable(Retires(e), stopped)
    /\ entry' = Joined(Retires(e), stopped)
    /\ UNCHANGED <<entries, flight, resuming, callers, io_blocked, graces, to_close,
                   life, wires, calls, enqueued, last>>

\* Detach: parked, delivery told to stop, the old handle to be closed.
Detach(id) ==
    LET e == sessions[id] IN
    /\ LockFree /\ e # None /\ ~entry[e].detached
    /\ entry' = [entry EXCEPT ![e].detached = TRUE, ![e].stopping = TRUE,
                              ![e].queue = IF Retain THEN @ ELSE <<>>]
    /\ Settle(IF Retain THEN {} ELSE Slots(entry[e].queue))
    /\ to_close' = to_close \cup {entry[e].handle}
    /\ UNCHANGED <<maps, flight, resuming, callers, io_blocked, graces, life, wires,
                   calls, enqueued, last>>

\* ClaimLocked on entry record r: the front goes in flight, or the chain idles.
Claim(r) ==
    IF r.stopping \/ r.queue = <<>>
    THEN [r EXCEPT !.delivering = FALSE, !.chain = "idle"]
    ELSE [r EXCEPT !.delivering = TRUE, !.chain = "claimed"]
Claimed(r) ==
    IF r.stopping \/ r.queue = <<>> THEN Idle ELSE [item |-> Head(r.queue), conn |-> None]

\* Resume finds a detached entry within grace and waits, the lock held.  Time is
\* abstract: a detached entry is within grace when Resume comes, or past it
\* when expiry does.
Resume(id) ==
    LET e == sessions[id] IN
    /\ LockFree /\ dials < Dials
    /\ e # None /\ entry[e].detached
    /\ dials' = dials + 1 /\ open' = open \cup {dials + 1}
    /\ resuming' = e
    /\ UNCHANGED <<maps, entry, flight, callers, io_blocked, graces, to_close, life, history>>

QuiescedWriterOnly(e) == ~Joinable(e) \/ entry[e].done
\* The old writer has exited and no chain completion is in flight.
Quiesced(e) == (~Joinable(e) \/ entry[e].done) /\ ~entry[e].delivering

\* The swap: join the old writer, take the new handle, re-arm delivery.
ResumeSwaps(supports) ==
    LET e == resuming
        async == Async /\ supports
        fresh == [entry[e] EXCEPT !.handle = dials, !.detached = FALSE,
                    !.stopping = FALSE, !.done = FALSE, !.async_mode = async,
                    !.writer = IF async THEN "none" ELSE "loop"] IN
    /\ resuming # None /\ Quiesced(e)
    /\ resuming' = None
    /\ entry' = [entry EXCEPT ![e] = IF async THEN Claim(fresh) ELSE fresh]
    /\ flight' = [flight EXCEPT ![e] = IF async THEN Claimed(fresh) ELSE @]
    /\ io_blocked' = 0
    /\ UNCHANGED <<maps, callers, graces, to_close, life, wires, history>>

\* An io thread calls into the registry and waits for the lock Resume holds.
IoCallBlocks ==
    /\ resuming # None /\ io_blocked < IoCallers
    /\ io_blocked' = io_blocked + 1
    /\ UNCHANGED <<maps, entry, flight, resuming, callers, graces, to_close, life,
                   wires, history>>

-----------------------------------------------------------------------------
\* SendTo and Broadcast: the targets are looked up under the registry lock,
\* each is enqueued under its own.

Broadcast(ids, class) ==
    LET targets == {sessions[id] : id \in ids} \ {None} IN
    /\ LockFree /\ calls < Calls /\ Cardinality(callers) < CallerThreads
    /\ calls' = calls + 1
    /\ callers' = IF targets = {} THEN callers
                  ELSE callers \cup {[call |-> calls + 1, class |-> class,
                                      targets |-> targets, full |-> None]}
    /\ UNCHANGED <<maps, entry, flight, resuming, io_blocked, graces, to_close, life,
                   wires, enqueued, promised, last>>

\* The queued events a newcomer may replace or evict: not the one in flight.
Pending(r) == {i \in DOMAIN r.queue : i > 1 \/ ~r.delivering}
Oldest(is) == CHOOSE i \in is : \A j \in is : i <= j
Without(s, i) == SubSeq(s, 1, i - 1) \o SubSeq(s, i + 1, Len(s))

\* PlaceLocked: what the queue becomes and whether the event is in it.
Place(r, v, class) ==
    LET match == {i \in Pending(r) : r.queue[i].class = "coalesce"}
        victim == {i \in Pending(r) : r.queue[i].class = "droppable"}
        item == [t |-> v, v |-> v, class |-> class] IN
    IF class = "coalesce" /\ match # {}
    THEN [placed |-> "queued", queue |-> [r.queue EXCEPT ![Oldest(match)].v = v]]
    ELSE IF Len(r.queue) < Capacity
    THEN [placed |-> "queued", queue |-> Append(r.queue, item)]
    ELSE IF victim # {}
    THEN [placed |-> "queued", queue |-> Append(Without(r.queue, Oldest(victim)), item)]
    ELSE [placed |-> IF class = "droppable" THEN "dropped" ELSE "full", queue |-> r.queue]

\* The caller goes on to its next recipient, or to the full one's policy.
Onward(c, e, full) ==
    LET rest == [c EXCEPT !.targets = @ \ {e}, !.full = full] IN
    callers' = (callers \ {c}) \cup
               (IF rest.targets = {} /\ full = None THEN {} ELSE {rest})

\* A detached entry takes events only to retain them; a stopping one none.
Refuses(r) == IF r.detached THEN ~Retain ELSE r.stopping

\* A reliable event is promised, of the coalescing ones only the newest.
Promise(e, v, class) ==
    CASE class = "reliable" -> promised \cup {[e |-> e, v |-> v, newest |-> FALSE]}
      [] class = "coalesce" -> {p \in promised : ~(p.e = e /\ p.newest)}
                                 \cup {[e |-> e, v |-> v, newest |-> TRUE]}
      [] class = "droppable" -> promised

Enqueue(c, e) ==
    LET r == entry[e]
        v == enqueued + 1
        place == Place(r, v, c.class)
        next == [r EXCEPT !.queue = place.queue]
        claims == ~r.detached /\ r.async_mode /\ ~r.delivering IN
    /\ c.full = None /\ e \in c.targets
    /\ IF Refuses(r) \/ place.placed # "queued"
       THEN /\ Onward(c, e, IF ~Refuses(r) /\ ~r.detached /\ place.placed = "full"
                            THEN e ELSE None)
            /\ UNCHANGED <<entry, flight, enqueued, promised>>
       ELSE /\ Onward(c, e, None)
            /\ enqueued' = v
            /\ promised' = Promise(e, v, c.class)
            /\ entry' = [entry EXCEPT ![e] = IF claims THEN Claim(next) ELSE next]
            /\ flight' = [flight EXCEPT ![e] = IF claims THEN Claimed(next) ELSE @]
    /\ UNCHANGED <<maps, resuming, io_blocked, graces, to_close, life, wires, calls,
                   last>>

\* Close-on-full: whichever handle the entry has by then is closed.
SlowConsumer(c) ==
    /\ c.full # None
    /\ open' = open \ {entry[c.full].handle}
    /\ callers' = (callers \ {c}) \cup
                  (IF c.targets = {} THEN {} ELSE {[c EXCEPT !.full = None]})
    /\ UNCHANGED <<maps, entry, flight, resuming, io_blocked, graces, to_close, life,
                   dials, history>>

-----------------------------------------------------------------------------
\* The writer thread.

WriterTakes(e) ==
    LET r == entry[e] IN
    /\ r.writer = "loop" /\ (r.stopping \/ r.queue # <<>>)
    /\ IF r.stopping
       THEN /\ entry' = [entry EXCEPT ![e].writer = "exit"]
            /\ UNCHANGED flight
       ELSE /\ entry' = [entry EXCEPT ![e].writer = "send", ![e].queue = Tail(@)]
            /\ flight' = [flight EXCEPT ![e] = [item |-> Head(r.queue), conn |-> r.handle]]
    /\ UNCHANGED <<maps, resuming, callers, io_blocked, graces, to_close, life, wires,
                   history>>

\* A completion needs a thread of the transport that is not held up.
IoFree == io_blocked < IoThreads

WriterSent(e) ==
    /\ entry[e].writer = "send" /\ IoFree /\ flight[e].conn \in open
    /\ entry' = [entry EXCEPT ![e].writer = "loop"]
    /\ last' = [last EXCEPT ![e] = flight[e].item.t] /\ Settle({flight[e].item})
    /\ flight' = [flight EXCEPT ![e] = Idle]
    /\ UNCHANGED <<maps, resuming, callers, io_blocked, graces, to_close, life, wires,
                   calls, enqueued>>

FailedDropsTail(r) == [r EXCEPT !.stopping = TRUE, !.queue = <<>>]
\* Terminal for delivery: the tail goes too, unless it waits for a resume.
Failed(r) == [r EXCEPT !.stopping = TRUE, !.queue = IF r.detached THEN @ ELSE <<>>]
FailedTail(r) == IF r.detached THEN {} ELSE Slots(r.queue)

WriterFails(e) ==
    LET r == entry[e] IN
    /\ r.writer = "send" /\ IoFree /\ flight[e].conn \notin open
    /\ entry' = [entry EXCEPT ![e] = [Failed(r) EXCEPT !.writer = "exit"]]
    /\ Settle(FailedTail(r) \cup {flight[e].item})
    /\ flight' = [flight EXCEPT ![e] = Idle]
    /\ UNCHANGED <<maps, resuming, callers, io_blocked, graces, to_close, life, wires,
                   calls, enqueued, last>>

WriterExits(e) ==
    /\ entry[e].writer = "exit"
    /\ entry' = [entry EXCEPT ![e].writer = "ended", ![e].done = TRUE]
    /\ UNCHANGED <<maps, flight, resuming, callers, io_blocked, graces, to_close, life,
                   wires, history>>

-----------------------------------------------------------------------------
\* The completion chain.

\* SubmitAsync calls SendAsync on the entry's handle, with no lock held.
SubmitAsync(e) ==
    /\ entry[e].chain = "claimed"
    /\ entry' = [entry EXCEPT ![e].chain = "flying"]
    /\ flight' = [flight EXCEPT ![e].conn = entry[e].handle]
    /\ UNCHANGED <<maps, resuming, callers, io_blocked, graces, to_close, life, wires,
                   history>>

PoppedNothing(r) == r
\* Delivered: the front is retired; Remove or Detach may have cleared the queue.
Popped(r) == [r EXCEPT !.queue = IF @ = <<>> THEN @ ELSE Tail(@)]

ChainSent(e) ==
    LET r == entry[e]
        popped == Popped(r) IN
    /\ r.chain = "flying" /\ IoFree /\ flight[e].conn \in open
    /\ entry' = [entry EXCEPT ![e] = Claim(popped)]
    /\ flight' = [flight EXCEPT ![e] = Claimed(popped)]
    /\ last' = [last EXCEPT ![e] = flight[e].item.t] /\ Settle({flight[e].item})
    /\ UNCHANGED <<maps, resuming, callers, io_blocked, graces, to_close, life, wires,
                   calls, enqueued>>

MaySpawnAlways(r) == r.writer = "none"
MaySpawnNever(r) == FALSE
MaySpawn(r) == ~r.stopping /\ r.writer = "none"

\* Refused for an application send: the session falls back to a writer.
ChainRefused(e) ==
    LET r == entry[e] IN
    /\ r.chain = "flying" /\ flight[e].conn \in open
    /\ entry' = [entry EXCEPT ![e].delivering = FALSE, ![e].chain = "idle",
                   ![e].async_mode = @ /\ ~MaySpawn(r),
                   ![e].writer = IF MaySpawn(r) THEN "loop" ELSE @]
    /\ flight' = [flight EXCEPT ![e] = Idle]
    /\ UNCHANGED <<maps, resuming, callers, io_blocked, graces, to_close, life, wires,
                   history>>

ChainFails(e) ==
    LET r == entry[e] IN
    /\ r.chain = "flying" /\ IoFree /\ flight[e].conn \notin open
    /\ entry' = [entry EXCEPT ![e] = [Failed(r) EXCEPT !.delivering = FALSE, !.chain = "idle"]]
    /\ Settle(FailedTail(r))
    /\ flight' = [flight EXCEPT ![e] = Idle]
    /\ UNCHANGED <<maps, resuming, callers, io_blocked, graces, to_close, life, wires,
                   calls, enqueued, last>>

-----------------------------------------------------------------------------
\* Grace expiry, Drain, Close, Kick and the destructor.

TakeExpiredWriterless(claims) ==
    LET idle == {e \in claims : ~Joinable(e)} IN
    /\ sessions' = [id \in Ids |-> IF sessions[id] \in idle THEN None ELSE sessions[id]]
    /\ firing' = firing \cup idle
    /\ UNCHANGED <<retired, entry>>
\* TakeExpiredLocked: the claimed entries leave the map, their writers retire.
TakeExpired(claims) ==
    LET writers == {e \in claims : Joinable(e)} IN
    /\ sessions' = [id \in Ids |-> IF sessions[id] \in claims THEN None ELSE sessions[id]]
    /\ firing' = firing \cup claims
    /\ IF claims = {}
       THEN UNCHANGED <<retired, entry>>
       ELSE /\ retired' = (retired \cup writers) \ Reapable(retired \cup writers, entry)
            /\ entry' = Joined(retired \cup writers, entry)

Ghosts == {e \in Registered : entry[e].detached}
ExpiryMayClaimAnytime == life = "up"
ExpiryMayClaim == LockFree

ExpiryLoop ==
    /\ ExpiryMayClaim
    /\ \E overdue \in SUBSET Ghosts \ {{}} : TakeExpired(overdue)
    /\ UNCHANGED <<entries, flight, resuming, callers, io_blocked, to_close, life,
                   wires, history, expiries>>

\* FireExpiries: on_expired runs with no lock held.
FireExpiry(e) ==
    /\ e \in firing
    /\ firing' = firing \ {e}
    /\ expiries' = [expiries EXCEPT ![e] = @ + 1]
    /\ UNCHANGED <<maps, entry, flight, resuming, callers, io_blocked, to_close, life,
                   wires, history>>

\* Close and Kick take a copy of the current handle and close it.  (A copy
\* closed later than it was taken is a connection that dies in the meantime.)
CloseOrKick(id) ==
    /\ LockFree /\ sessions[id] # None
    /\ open' = open \ {entry[sessions[id]].handle}
    /\ UNCHANGED <<maps, entry, flight, resuming, callers, io_blocked, graces, to_close,
                   life, dials, history>>

\* Detach closes the old handle after it released the locks.
CloseHandle(c) ==
    /\ c \in to_close
    /\ to_close' = to_close \ {c}
    /\ open' = open \ {c}
    /\ UNCHANGED <<maps, entry, flight, resuming, callers, io_blocked, graces, life,
                   dials, history>>

ConnectionDies(c) ==
    /\ c \in open
    /\ open' = open \ {c}
    /\ UNCHANGED <<maps, entry, flight, resuming, callers, io_blocked, graces, to_close,
                   life, dials, history>>

\* Drain: ExpireDetachedNow, then CloseAll, then a bounded wait for the map to
\* empty, which changes nothing.
ExpireDetachedNow ==
    /\ LockFree
    /\ TakeExpired(Ghosts)
    /\ UNCHANGED <<entries, flight, resuming, callers, io_blocked, to_close, life,
                   wires, history, expiries>>

CloseAll ==
    /\ LockFree
    /\ open' = open \ {entry[e].handle : e \in Registered}
    /\ UNCHANGED <<maps, entry, flight, resuming, callers, io_blocked, graces, to_close,
                   life, dials, history>>

\* The destructor runs after every other call has returned, and, as a bound,
\* after the last dial and call.
Destroy ==
    /\ MayDestroy /\ dials = Dials /\ calls = Calls
    /\ LockFree /\ callers = {} /\ to_close = {} /\ firing = {}
    /\ life' = "expiring"
    /\ TakeExpired(Ghosts)
    /\ UNCHANGED <<entries, flight, resuming, callers, io_blocked, to_close,
                   wires, history, expiries>>

\* Every entry left is closed and stopped before the writers are joined.
DestroyStops ==
    LET all == Registered \cup retired IN
    /\ life = "expiring" /\ firing = {}
    /\ life' = "joining"
    /\ open' = open \ {entry[e].handle : e \in all}
    /\ entry' = [e \in Entries |-> IF e \in all
                   THEN [entry[e] EXCEPT !.stopping = TRUE, !.queue = <<>>] ELSE entry[e]]
    /\ Settle(UNION {Slots(entry[e].queue) : e \in all})
    /\ sessions' = [id \in Ids |-> None]
    /\ retired' = all
    /\ UNCHANGED <<entries, flight, resuming, callers, io_blocked, graces, to_close,
                   dials, calls, enqueued, last>>

DestroyJoins ==
    /\ life = "joining"
    /\ \A e \in retired : Joinable(e) => entry[e].done
    /\ life' = "gone"
    /\ retired' = {}
    /\ entry' = [e \in Entries |-> IF e \in retired THEN [entry[e] EXCEPT !.writer = "none"]
                                                    ELSE entry[e]]
    /\ UNCHANGED <<sessions, entries, flight, resuming, callers, io_blocked, graces,
                   to_close, wires, history>>

-----------------------------------------------------------------------------
Api ==
    \/ \E id \in Ids :
         \/ \E supports \in BOOLEAN : Add(id, supports)
         \/ Remove(id) \/ Detach(id) \/ Resume(id) \/ CloseOrKick(id)
    \/ \E ids \in SUBSET Ids \ {{}}, class \in Classes : Broadcast(ids, class)
    \/ ExpireDetachedNow \/ CloseAll \/ Destroy \/ IoCallBlocks

\* Steps of a thread already inside a call.
Calling == \E c \in callers : SlowConsumer(c) \/ \E e \in c.targets : Enqueue(c, e)
Inside ==
    \/ \E supports \in BOOLEAN : ResumeSwaps(supports)
    \/ Calling
    \/ \E c \in to_close : CloseHandle(c)
    \/ DestroyStops \/ DestroyJoins

Delivery(e) ==
    \/ WriterTakes(e) \/ WriterSent(e) \/ WriterFails(e) \/ WriterExits(e)
    \/ SubmitAsync(e) \/ ChainSent(e) \/ ChainRefused(e) \/ ChainFails(e)

Expiry == ExpiryLoop \/ \E e \in Entries : FireExpiry(e)

\* Threads inside a call, writers, completions and the expiry thread.
System ==
    \/ Inside \/ Expiry
    \/ \E e \in Entries : Delivery(e)

Next ==
    \/ Api
    \/ System
    \/ \E c \in Conns : ConnectionDies(c)

\* The system does not stop while some thread can go on.
\* Nobody is obliged to call, and no connection has to die.
Fairness == WF_vars(System)

Spec == Init /\ [][Next]_vars
LiveSpec == Spec /\ Fairness

-----------------------------------------------------------------------------
\* Type correctness of the map, the entries and the calls in progress.
Items == [t : Nat \ {0}, v : Nat \ {0}, class : Classes]
EntryRecords ==
    [handle : Conns \cup {None}, queue : Seq(Items), stopping : BOOLEAN, done : BOOLEAN,
     async_mode : BOOLEAN, delivering : BOOLEAN, detached : BOOLEAN,
     writer : {"none", "loop", "send", "exit", "ended"},
     chain : {"idle", "claimed", "flying"}]
TypeOK ==
    /\ sessions \in [Ids -> 0 .. entries] /\ retired \subseteq 1 .. entries
    /\ entries \in 0 .. Dials /\ dials \in 0 .. Dials /\ open \subseteq 1 .. dials
    /\ entry \in [Entries -> EntryRecords]
    /\ flight \in [Entries -> [item : Items \cup {NoItem}, conn : Conns \cup {None}]]
    /\ resuming \in 0 .. entries
    /\ callers \subseteq [call : 1 .. Calls, class : Classes, targets : SUBSET Entries,
                          full : Entries \cup {None}]
    /\ \A c \in callers : c.targets # {} \/ c.full # None
    /\ io_blocked \in 0 .. IoCallers
    /\ firing \subseteq 1 .. entries /\ to_close \subseteq 1 .. dials
    /\ life \in {"up", "expiring", "joining", "gone"}
    /\ calls \in 0 .. Calls /\ enqueued \in Nat /\ last \in [Entries -> Nat]
    /\ promised \subseteq [e : Entries, v : Nat \ {0}, newest : BOOLEAN]
    /\ expiries \in [Entries -> Nat]

-----------------------------------------------------------------------------
\* Safety.

\* An event the registry took (SendTo returned true) that nothing may drop, a
\* reliable one or the newest of the coalescing ones, is still queued or in
\* hand until it is delivered or its connection's delivery ends, as long as
\* the session is registered.
AcceptedNotLost ==
    \A p \in promised : p.e \in Registered =>
        \E item \in Slots(entry[p.e].queue) \cup {flight[p.e].item} : item.v = p.v

\* A session's events are delivered in the order of their slots and never
\* twice, across both deliverers, the collision fallback and a resume: what
\* is queued is in order, past what is in hand, past what was delivered; and
\* a queue keeps its capacity.
DeliveredInOrder ==
    \A e \in Registered :
        LET queue == entry[e].queue
            hand == flight[e].item IN
        /\ Len(queue) <= Capacity
        /\ \A i, j \in DOMAIN queue : i < j => queue[i].t < queue[j].t
        /\ \A slot \in Slots(queue) : slot.t > last[e]
        /\ hand # NoItem => hand.t > last[e]
        /\ entry[e].writer = "send" => \A slot \in Slots(queue) : slot.t > hand.t

\* One deliverer per session, on the session's own connection: never a chain
\* beside a running writer, and Resume never swaps the handle under a send.
OneDeliverer ==
    /\ TypeOK
    /\ \A e \in Entries :
        /\ ~(entry[e].delivering /\ entry[e].writer \in {"loop", "send"})
        /\ (entry[e].writer = "send" \/ entry[e].chain = "flying") =>
             flight[e].conn = entry[e].handle

\* No interleaving orphans a writer thread: whoever must join it, the map, the
\* retired list or the destructor, still holds the entry, and a retired one
\* has been told to stop.
NoOrphanWriter ==
    \A e \in Entries :
        /\ Joinable(e) => e \in Registered \cup retired
        /\ e \in retired => entry[e].stopping

\* on_expired runs at most once for an entry, and never for one that a Resume
\* has or will get.
ExpiryOrResume ==
    \A e \in Entries :
        /\ expiries[e] + (IF e \in firing THEN 1 ELSE 0) <= 1
        /\ (e \in firing \/ expiries[e] > 0) =>
             e \notin Registered /\ e # resuming /\ entry[e].detached

-----------------------------------------------------------------------------
\* Liveness.

\* Resume "may block briefly", its wait is "Bounded-short by construction": it
\* returns.  The code promises this without a condition; it fails when every
\* io thread waits for the lock that Resume holds (the run registry_stall).
ResumeReturns == (resuming # None) ~> (resuming = None)

\* The queue of an attached session empties: no enqueue, chain step or
\* fallback is a lost wakeup.
QueueDrains ==
    \A e \in Entries :
        (entry[e].queue # <<>>) ~> (entry[e].queue = <<>> \/ entry[e].detached)

\* A detached session ends: it is resumed, removed, or expires.
GraceEnds == \A e \in Entries : (e \in Ghosts) ~> (e \notin Ghosts)
=============================================================================
