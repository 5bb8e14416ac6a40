----------------------- MODULE SessionRegistryProofs ------------------------
(* Machine-checked proofs about the session registry, for every set of ids,  *)
(* every capacity, both delivery modes, both detach policies and any number  *)
(* of connections, calls and threads: one deliverer per session on its own   *)
(* connection, no orphaned writer thread, expiry or resume but never both,   *)
(* delivery in order, and no accepted event lost.                            *)
EXTENDS SessionRegistry, SequenceTheorems, FiniteSetTheorems, TLAPS

Flights == [item : Items \cup {NoItem}, conn : Conns \cup {None}]
Callers == [call : 1 .. Calls, class : Classes, targets : SUBSET Entries,
            full : Entries \cup {None}]
Promises == [e : Entries, v : Nat \ {0}, newest : BOOLEAN]

-----------------------------------------------------------------------------
\* The inductive invariant.

\* An entry r at rest: a writer is not the async mode's, and who has ended or
\* is parked was told to stop.
Steady(r) ==
    /\ r.writer # "none" => ~r.async_mode
    /\ r.writer \in {"exit", "ended"} \/ r.done \/ r.detached => r.stopping
    /\ r.done => r.writer \in {"none", "ended"}

\* What its deliverer has in hand, f: only the async mode claims, a send is on
\* the entry's own handle, and nothing is in hand between sends.
Holding(r, f) ==
    /\ r.delivering <=> r.chain # "idle"
    /\ r.delivering => r.async_mode
    /\ r.writer = "send" \/ r.chain = "flying" => f.conn = r.handle
    /\ r.writer = "send" \/ r.chain # "idle" => f.item \in Items
    /\ r.writer # "send" /\ r.chain = "idle" => f = Idle

\* The slots of a queue in order, past what was delivered and within what was
\* taken; and past what is in hand but for the front a chain has claimed.
QueueInOrder(queue, delivered, taken) ==
    /\ Len(queue) <= Capacity
    /\ \A i, j \in 1 .. Len(queue) : i < j => queue[i].t < queue[j].t
    /\ \A i \in 1 .. Len(queue) : delivered < queue[i].t /\ queue[i].t <= taken
    /\ delivered <= taken
HandInOrder(r, f, delivered, taken) ==
    /\ f.item \in Items => delivered < f.item.t /\ f.item.t <= taken
    /\ r.writer = "send" => \A i \in 1 .. Len(r.queue) : f.item.t < r.queue[i].t
    /\ r.chain # "idle" => \A i \in 1 .. Len(r.queue) : f.item.t <= r.queue[i].t

\* What a registered entry's chain has claimed is its front, unless a detach
\* that retains nothing cleared the queue under it.
FrontClaimed(r, f) ==
    r.chain # "idle" => IF r.queue = <<>> THEN r.detached /\ ~Retain
                                          ELSE r.queue[1] = f.item

\* Promise p is kept by an event of its own class in the queue, or in the
\* writer's hand.
Keeps(item, p) == item.v = p.v /\ item.class = IF p.newest THEN "coalesce" ELSE "reliable"
Kept(p, r, f) ==
    \/ \E i \in 1 .. Len(r.queue) : Keeps(r.queue[i], p)
    \/ r.writer = "send" /\ Keeps(f.item, p)

\* One entry, what it delivered last and how many events were taken.
Sound(r, f, delivered, taken) ==
    /\ Steady(r) /\ Holding(r, f)
    /\ QueueInOrder(r.queue, delivered, taken) /\ HandInOrder(r, f, delivered, taken)
EntryInv ==
    \A e \in Entries :
        /\ Sound(entry[e], flight[e], last[e], enqueued)
        /\ e \in Registered => FrontClaimed(entry[e], flight[e])
PromiseInv ==
    \A p \in promised : /\ p.e <= entries
                        /\ p.e \in Registered => Kept(p, entry[p.e], flight[p.e])

\* The map: an entry is under one id and made before it is used; only a
\* registered one may deliver; the retired ones left the map with a writer.
MapInv ==
    /\ entries <= dials
    /\ \A id, jd \in Ids : sessions[id] = sessions[jd] /\ sessions[id] # None => id = jd
    /\ Registered \cap retired = {}
    /\ resuming # None => resuming \in Registered /\ entry[resuming].detached /\ life = "up"
    /\ \A e \in Entries : /\ ~entry[e].stopping => e \in Registered
                          /\ e <= entries => entry[e].handle \in 1 .. dials
                          /\ e > entries => expiries[e] = 0 /\ flight[e] = Idle
    /\ \A c \in callers : c.targets \cup {c.full} \subseteq 0 .. entries

IInv == TypeOK /\ MapInv /\ NoOrphanWriter /\ ExpiryOrResume /\ EntryInv /\ PromiseInv

-----------------------------------------------------------------------------
\* The constants and the empty hand.
LEMMA Constants ==
    /\ Async \in BOOLEAN /\ Retain \in BOOLEAN /\ MayDestroy \in BOOLEAN
    /\ Dials \in Nat /\ Calls \in Nat /\ IoThreads \in Nat /\ IoCallers \in Nat
    /\ Capacity \in Nat /\ Capacity >= 1
    /\ Classes \subseteq {"reliable", "droppable", "coalesce"}
  BY OptionsAssumption, CapacityAssumption

\* Nothing in hand is not an event.
LEMMA IdleHand ==
    /\ Idle \in Flights /\ Idle.item = NoItem /\ Idle.conn = None
    /\ NoItem \notin Items
  BY DEF Idle, Flights, NoItem, Items, None

\* An entry's fields.
LEMMA EntryFields ==
    ASSUME NEW r \in EntryRecords
    PROVE  /\ r.handle \in Conns \cup {None} /\ r.queue \in Seq(Items)
           /\ r.stopping \in BOOLEAN /\ r.done \in BOOLEAN /\ r.async_mode \in BOOLEAN
           /\ r.delivering \in BOOLEAN /\ r.detached \in BOOLEAN
           /\ r.writer \in {"none", "loop", "send", "exit", "ended"}
           /\ r.chain \in {"idle", "claimed", "flying"}
  BY DEF EntryRecords

\* A queue's slots are numbered from one, and their order numbers are natural.
LEMMA SlotTypes ==
    ASSUME NEW q \in Seq(Items)
    PROVE  /\ Len(q) \in Nat /\ DOMAIN q = 1 .. Len(q)
           /\ \A i \in 1 .. Len(q) : /\ q[i] \in Items /\ q[i].t \in Nat /\ q[i].t >= 1
                                     /\ q[i].v \in Nat /\ q[i].v >= 1 /\ q[i].class \in Classes
           /\ q = <<>> <=> Len(q) = 0
           /\ \A x : x \in Slots(q) <=> \E i \in 1 .. Len(q) : x = q[i]
  <1>1. Len(q) \in Nat /\ DOMAIN q = 1 .. Len(q) /\ (q = <<>> <=> Len(q) = 0)
    BY EmptySeq
  <1>2. \A i \in 1 .. Len(q) : q[i] \in Items
    OBVIOUS
  <1>3. \A x \in Items : /\ x.t \in Nat /\ x.t >= 1 /\ x.v \in Nat /\ x.v >= 1
                         /\ x.class \in Classes
    BY DEF Items
  <1>4. \A x : x \in Slots(q) <=> \E i \in 1 .. Len(q) : x = q[i]
    BY <1>1 DEF Slots
  <1>5. QED
    BY <1>1, <1>2, <1>3, <1>4

\* The front and the rest of a queue that is not empty.
LEMMA FrontAndRest ==
    ASSUME NEW q \in Seq(Items), q # <<>>
    PROVE  /\ Head(q) = q[1] /\ q[1] \in Items /\ 1 \in 1 .. Len(q)
           /\ Tail(q) \in Seq(Items) /\ Len(Tail(q)) = Len(q) - 1
           /\ \A i \in 1 .. Len(q) - 1 : i + 1 \in 1 .. Len(q) /\ Tail(q)[i] = q[i + 1]
  <1>1. Len(q) \in Nat /\ Len(q) # 0
    BY SlotTypes
  <1>2. Tail(q) \in Seq(Items) /\ Len(Tail(q)) = Len(q) - 1 /\ Head(q) = q[1]
    BY <1>1, HeadTailProperties
  <1>3. \A i \in 1 .. Len(q) - 1 : i + 1 \in 1 .. Len(q) /\ Tail(q)[i] = q[i + 1]
    BY <1>1, <1>2
  <1>4. 1 \in 1 .. Len(q) /\ q[1] \in Items
    BY <1>1
  <1>5. QED
    BY <1>1, <1>2, <1>3, <1>4

\* An empty queue is in order, and so is the rest of one in order, past the
\* front that was taken from it.
LEMMA RestInOrder ==
    ASSUME NEW q \in Seq(Items), NEW d \in Nat, NEW n \in Nat, QueueInOrder(q, d, n)
    PROVE  /\ QueueInOrder(<<>>, d, n)
           /\ q # <<>> => /\ QueueInOrder(Tail(q), d, n)
                          /\ \A i \in 1 .. Len(Tail(q)) : q[1].t < Tail(q)[i].t
                          /\ d < q[1].t /\ q[1].t <= n
                          /\ QueueInOrder(Tail(q), q[1].t, n)
  <1>1. QueueInOrder(<<>>, d, n)
    BY Constants DEF QueueInOrder
  <1>2. ASSUME q # <<>>
        PROVE  /\ QueueInOrder(Tail(q), d, n)
               /\ \A i \in 1 .. Len(Tail(q)) : q[1].t < Tail(q)[i].t
               /\ d < q[1].t /\ q[1].t <= n
               /\ QueueInOrder(Tail(q), q[1].t, n)
    <2>1. PICK k \in Nat : k = Len(q)
      BY SlotTypes
    <2>2. PICK s : s = Tail(q)
      OBVIOUS
    <2>3. /\ 1 \in 1 .. k /\ Len(s) = k - 1
          /\ \A i \in 1 .. k - 1 : i + 1 \in 1 .. k /\ s[i] = q[i + 1]
      BY <1>2, <2>1, <2>2, FrontAndRest
    <2>4. /\ k <= Capacity /\ d <= n
          /\ \A i, j \in 1 .. k : i < j => q[i].t < q[j].t
          /\ \A i \in 1 .. k : d < q[i].t /\ q[i].t <= n /\ q[i].t \in Nat
      BY <2>1, SlotTypes DEF QueueInOrder
    <2>5. \A i \in 1 .. k - 1 : q[1].t < s[i].t
      BY <2>3, <2>4
    <2>6. ASSUME NEW i \in 1 .. k - 1, NEW j \in 1 .. k - 1, i < j PROVE s[i].t < s[j].t
      <3>1. i + 1 \in 1 .. k /\ j + 1 \in 1 .. k /\ i + 1 < j + 1
        BY <2>6
      <3>2. q[i + 1].t < q[j + 1].t
        BY <2>4, <3>1
      <3>3. QED
        BY <2>3, <3>2
    <2>7. \A i \in 1 .. k - 1 : d < s[i].t /\ s[i].t <= n
      BY <2>3, <2>4
    <2>8. k - 1 <= Capacity
      BY <2>4, Constants
    <2>9. QueueInOrder(s, d, n) /\ QueueInOrder(s, q[1].t, n)
      BY <2>3, <2>4, <2>5, <2>6, <2>7, <2>8 DEF QueueInOrder
    <2>10. QED
      BY <2>2, <2>3, <2>4, <2>5, <2>9
  <1>3. QED
    BY <1>1, <1>2

-----------------------------------------------------------------------------
\* What the steps make of one entry.  A writer that has ended is joined.
LEMMA JoinSound ==
    ASSUME NEW r \in EntryRecords, NEW f, NEW d, NEW n, Sound(r, f, d, n),
           r.writer = "none" \/ r.done
    PROVE  LET j == [r EXCEPT !.writer = "none"] IN
           /\ j \in EntryRecords /\ Sound(j, f, d, n)
           /\ FrontClaimed(r, f) => FrontClaimed(j, f)
           /\ \A p : Kept(p, r, f) => Kept(p, j, f)
           /\ j.stopping = r.stopping /\ j.handle = r.handle /\ j.detached = r.detached
           /\ j.writer = "none"
  <1> DEFINE j == [r EXCEPT !.writer = "none"]
  <1>1. j \in EntryRecords
    BY DEF EntryRecords
  <1>2. /\ j.handle = r.handle /\ j.queue = r.queue /\ j.stopping = r.stopping /\ j.done = r.done
        /\ j.async_mode = r.async_mode /\ j.delivering = r.delivering
        /\ j.detached = r.detached /\ j.writer = "none" /\ j.chain = r.chain
    BY DEF EntryRecords
  <1> HIDE DEF j
  <1>3. r.writer # "send"
    BY DEF Sound, Steady
  <1>4. Steady(j) /\ Holding(j, f) /\ HandInOrder(j, f, d, n) /\ QueueInOrder(j.queue, d, n)
    BY <1>2, <1>3 DEF Sound, Steady, Holding, HandInOrder
  <1>5. FrontClaimed(r, f) => FrontClaimed(j, f)
    BY <1>2 DEF FrontClaimed
  <1>6. \A p : Kept(p, r, f) => Kept(p, j, f)
    BY <1>2, <1>3 DEF Kept
  <1>7. QED
    BY <1>1, <1>2, <1>4, <1>5, <1>6 DEF Sound, j

\* An entry stopped for good, its queue taken.
LEMMA StopSound ==
    ASSUME NEW r \in EntryRecords, NEW f, NEW d \in Nat, NEW n \in Nat, Sound(r, f, d, n)
    PROVE  LET s == [r EXCEPT !.stopping = TRUE, !.queue = <<>>] IN
           /\ s \in EntryRecords /\ Sound(s, f, d, n) /\ s.stopping /\ s.handle = r.handle
           /\ s.writer = r.writer /\ s.done = r.done /\ s.detached = r.detached
  <1> DEFINE s == [r EXCEPT !.stopping = TRUE, !.queue = <<>>]
  <1>0. <<>> \in Seq(Items)
    OBVIOUS
  <1>1. s \in EntryRecords
    BY <1>0, EntryFields DEF EntryRecords
  <1>2. /\ s.handle = r.handle /\ s.queue = <<>> /\ s.stopping = TRUE /\ s.done = r.done
        /\ s.async_mode = r.async_mode /\ s.delivering = r.delivering
        /\ s.detached = r.detached /\ s.writer = r.writer /\ s.chain = r.chain
    BY DEF EntryRecords
  <1> HIDE DEF s
  <1>3. r.queue \in Seq(Items)
    BY EntryFields
  <1>4. QueueInOrder(s.queue, d, n)
    BY <1>2, <1>3, RestInOrder DEF Sound
  <1>5. Steady(s) /\ Holding(s, f)
    BY <1>2 DEF Sound, Steady, Holding
  <1>6. HandInOrder(s, f, d, n)
    BY <1>2 DEF Sound, HandInOrder
  <1>7. QED
    BY <1>1, <1>2, <1>4, <1>5, <1>6 DEF Sound, s

\* ClaimLocked: the front goes in flight, or the chain idles.
LEMMA ClaimSound ==
    ASSUME NEW r \in EntryRecords, NEW d \in Nat, NEW n \in Nat, Steady(r), r.async_mode,
           QueueInOrder(r.queue, d, n)
    PROVE  /\ Claim(r) \in EntryRecords /\ Claimed(r) \in Flights
           /\ Sound(Claim(r), Claimed(r), d, n) /\ FrontClaimed(Claim(r), Claimed(r))
           /\ Claim(r).queue = r.queue /\ Claim(r).handle = r.handle
           /\ Claim(r).stopping = r.stopping /\ Claim(r).detached = r.detached
           /\ Claim(r).writer = r.writer
  <1>0. r.queue \in Seq(Items) /\ r.writer = "none"
    BY EntryFields DEF Steady
  <1>1. CASE r.stopping \/ r.queue = <<>>
    <2> DEFINE s == [r EXCEPT !.delivering = FALSE, !.chain = "idle"]
    <2>1. Claim(r) = s /\ Claimed(r) = Idle
      BY <1>1, Zenon DEF Claim, Claimed
    <2>2. s \in EntryRecords
      BY DEF EntryRecords
    <2>3. /\ s.handle = r.handle /\ s.queue = r.queue /\ s.stopping = r.stopping
          /\ s.done = r.done /\ s.async_mode = r.async_mode /\ s.delivering = FALSE
          /\ s.detached = r.detached /\ s.writer = r.writer /\ s.chain = "idle"
      BY DEF EntryRecords
    <2> HIDE DEF s
    <2>4. Steady(s) /\ Holding(s, Idle) /\ HandInOrder(s, Idle, d, n) /\ FrontClaimed(s, Idle)
      BY <1>0, <2>3, IdleHand DEF Steady, Holding, HandInOrder, FrontClaimed
    <2>5. QED
      BY <2>1, <2>2, <2>3, <2>4, IdleHand DEF Sound
  <1>2. CASE ~(r.stopping \/ r.queue = <<>>)
    <2> DEFINE s == [r EXCEPT !.delivering = TRUE, !.chain = "claimed"]
               g == [item |-> Head(r.queue), conn |-> None]
    <2>1. Claim(r) = s /\ Claimed(r) = g
      BY <1>2, Zenon DEF Claim, Claimed
    <2>2. s \in EntryRecords
      BY DEF EntryRecords
    <2>3. /\ s.handle = r.handle /\ s.queue = r.queue /\ s.stopping = r.stopping
          /\ s.done = r.done /\ s.async_mode = r.async_mode /\ s.delivering = TRUE
          /\ s.detached = r.detached /\ s.writer = r.writer /\ s.chain = "claimed"
      BY DEF EntryRecords
    <2>4. Head(r.queue) = r.queue[1] /\ r.queue[1] \in Items /\ r.queue # <<>>
      BY <1>0, <1>2, FrontAndRest
    <2>5. g \in Flights /\ g.item = r.queue[1]
      BY <2>4 DEF Flights
    <2> HIDE DEF s, g
    <2>6. Steady(s) /\ Holding(s, g) /\ FrontClaimed(s, g)
      BY <1>0, <2>3, <2>4, <2>5 DEF Steady, Holding, FrontClaimed
    <2>7. HandInOrder(s, g, d, n)
      <3>1. PICK k \in Nat : k = Len(r.queue) /\ k # 0
        BY <1>0, <2>4, SlotTypes
      <3>2. /\ \A i, j \in 1 .. k : i < j => r.queue[i].t < r.queue[j].t
            /\ \A i \in 1 .. k : d < r.queue[i].t /\ r.queue[i].t <= n /\ r.queue[i].t \in Nat
        BY <1>0, <3>1, SlotTypes DEF QueueInOrder
      <3>3. \A i \in 1 .. k : r.queue[1].t <= r.queue[i].t
        BY <3>1, <3>2
      <3>4. d < r.queue[1].t /\ r.queue[1].t <= n
        BY <3>1, <3>2
      <3>5. QED
        BY <1>0, <2>3, <2>5, <3>1, <3>3, <3>4 DEF HandInOrder
    <2>8. QED
      BY <2>1, <2>2, <2>3, <2>5, <2>6, <2>7 DEF Sound
  <1>3. QED
    BY <1>1, <1>2

\* A detached entry: delivery told to stop, its events retained or dropped.
LEMMA DetachSound ==
    ASSUME NEW r \in EntryRecords, NEW f, NEW d \in Nat, NEW n \in Nat, Sound(r, f, d, n)
    PROVE  LET s == [r EXCEPT !.detached = TRUE, !.stopping = TRUE,
                              !.queue = IF Retain THEN r.queue ELSE <<>>] IN
           /\ s \in EntryRecords /\ Sound(s, f, d, n)
           /\ FrontClaimed(r, f) => FrontClaimed(s, f)
           /\ \A p : Kept(p, r, f) /\ (Retain \/ \A x \in Slots(r.queue) : x.v # p.v)
                       => Kept(p, s, f)
           /\ s.stopping /\ s.detached /\ s.handle = r.handle /\ s.writer = r.writer
  <1> DEFINE s == [r EXCEPT !.detached = TRUE, !.stopping = TRUE,
                            !.queue = IF Retain THEN r.queue ELSE <<>>]
  <1>0. r.queue \in Seq(Items) /\ Retain \in BOOLEAN
    BY EntryFields, Constants
  <1>1. (IF Retain THEN r.queue ELSE <<>>) \in Seq(Items)
    BY <1>0
  <1>2. s \in EntryRecords
    BY <1>1, EntryFields DEF EntryRecords
  <1>3. /\ s.handle = r.handle /\ s.queue = (IF Retain THEN r.queue ELSE <<>>)
        /\ s.stopping = TRUE /\ s.done = r.done
        /\ s.async_mode = r.async_mode /\ s.delivering = r.delivering
        /\ s.detached = TRUE /\ s.writer = r.writer /\ s.chain = r.chain
    BY DEF EntryRecords
  <1> HIDE DEF s
  <1>4. QueueInOrder(s.queue, d, n)
    BY <1>0, <1>3, RestInOrder DEF Sound
  <1>5. Steady(s) /\ Holding(s, f)
    BY <1>3 DEF Sound, Steady, Holding
  <1>6. HandInOrder(s, f, d, n)
    BY <1>0, <1>3 DEF Sound, HandInOrder
  <1>7. FrontClaimed(r, f) => FrontClaimed(s, f)
    BY <1>0, <1>3 DEF FrontClaimed
  <1>8. ASSUME NEW p, Kept(p, r, f), Retain \/ \A x \in Slots(r.queue) : x.v # p.v
        PROVE  Kept(p, s, f)
    <2>1. CASE Retain
      BY <1>3, <1>8, <2>1 DEF Kept
    <2>2. CASE ~Retain
      <3>1. \A i \in 1 .. Len(r.queue) : ~Keeps(r.queue[i], p)
        BY <1>0, <1>8, <2>2, SlotTypes DEF Keeps
      <3>2. QED
        BY <1>3, <1>8, <3>1 DEF Kept
    <2>3. QED
      BY <1>0, <2>1, <2>2
  <1>9. QED
    BY <1>2, <1>3, <1>4, <1>5, <1>6, <1>7, <1>8 DEF Sound, s

\* An entry as Add makes it.
LEMMA NewSound ==
    ASSUME NEW c \in Conns, NEW async \in BOOLEAN, NEW d \in Nat, NEW n \in Nat, d <= n
    PROVE  LET s == NewEntry(c, async) IN
           /\ s \in EntryRecords /\ Sound(s, Idle, d, n) /\ FrontClaimed(s, Idle)
           /\ s.handle = c /\ ~s.detached
  <1> DEFINE s == NewEntry(c, async)
  <1>0. <<>> \in Seq(Items) /\ Len(<<>>) = 0
    OBVIOUS
  <1>1. s \in EntryRecords
    BY <1>0 DEF NewEntry, EntryRecords
  <1>2. /\ s.handle = c /\ s.queue = <<>> /\ s.stopping = FALSE /\ s.done = FALSE
        /\ s.async_mode = async /\ s.delivering = FALSE /\ s.detached = FALSE
        /\ s.writer = (IF async THEN "none" ELSE "loop") /\ s.chain = "idle"
    BY DEF NewEntry
  <1> HIDE DEF s
  <1>3. QueueInOrder(s.queue, d, n)
    BY <1>0, <1>2, Constants DEF QueueInOrder
  <1>4. Steady(s) /\ Holding(s, Idle) /\ HandInOrder(s, Idle, d, n) /\ FrontClaimed(s, Idle)
    BY <1>2, IdleHand DEF Steady, Holding, HandInOrder, FrontClaimed
  <1>5. QED
    BY <1>1, <1>2, <1>3, <1>4 DEF Sound, s

\* An entry Resume has given a new connection: its old writer has ended, its
\* chain is idle, and delivery starts again with what it retained.
Swapped(r, c, async) ==
    [r EXCEPT !.handle = c, !.detached = FALSE, !.stopping = FALSE, !.done = FALSE,
              !.async_mode = async, !.writer = IF async THEN "none" ELSE "loop"]
\* Such an entry is sound, and has kept what it retained.
LEMMA SwapSound ==
    ASSUME NEW r \in EntryRecords, NEW f, NEW d \in Nat, NEW n \in Nat, Sound(r, f, d, n),
           NEW c \in Conns, NEW async \in BOOLEAN,
           r.writer = "none" \/ r.done, ~r.delivering,
           NEW s, s = IF async THEN Claim(Swapped(r, c, async)) ELSE Swapped(r, c, async),
           NEW g, g = IF async THEN Claimed(Swapped(r, c, async)) ELSE f
    PROVE  /\ s \in EntryRecords /\ (f \in Flights => g \in Flights) /\ Sound(s, g, d, n)
           /\ FrontClaimed(s, g) /\ s.handle = c /\ ~s.detached
           /\ \A p : Kept(p, r, f) => Kept(p, s, g)
  <1> DEFINE w == Swapped(r, c, async)
  <1>1. w \in EntryRecords
    BY EntryFields, ZenonT(30) DEF EntryRecords, Swapped
  <1>2. /\ w.handle = c /\ w.queue = r.queue /\ w.stopping = FALSE /\ w.done = FALSE
        /\ w.async_mode = async /\ w.delivering = r.delivering /\ w.detached = FALSE
        /\ w.writer = (IF async THEN "none" ELSE "loop") /\ w.chain = r.chain
    BY DEF EntryRecords, Swapped
  <1> HIDE DEF w
  <1>3. r.writer # "send" /\ r.chain = "idle" /\ f = Idle
    BY EntryFields DEF Sound, Steady, Holding
  <1>4. Steady(w) /\ QueueInOrder(w.queue, d, n)
    BY <1>2 DEF Sound, Steady
  <1>5. \A p : Kept(p, r, f) => \E i \in 1 .. Len(r.queue) : Keeps(r.queue[i], p)
    BY <1>3 DEF Kept
  <1>6. CASE async
    <2>1. s = Claim(w) /\ g = Claimed(w)
      BY <1>6 DEF w
    <2>2. /\ Claim(w) \in EntryRecords /\ Claimed(w) \in Flights
          /\ Sound(Claim(w), Claimed(w), d, n) /\ FrontClaimed(Claim(w), Claimed(w))
          /\ Claim(w).queue = w.queue /\ Claim(w).handle = w.handle
          /\ Claim(w).detached = w.detached
      BY <1>1, <1>2, <1>4, <1>6, ClaimSound
    <2>3. QED
      BY <1>2, <1>5, <2>1, <2>2 DEF Kept
  <1>7. CASE ~async
    <2>1. s = w /\ g = Idle
      BY <1>3, <1>7 DEF w
    <2>2. Holding(w, Idle) /\ HandInOrder(w, Idle, d, n) /\ FrontClaimed(w, Idle)
      BY <1>2, <1>3, <1>7, IdleHand DEF Sound, Holding, HandInOrder, FrontClaimed
    <2>3. QED
      BY <1>1, <1>2, <1>4, <1>5, <2>1, <2>2, IdleHand DEF Kept, Sound
  <1>8. QED
    BY <1>6, <1>7

-----------------------------------------------------------------------------
\* Steps of one entry's deliverer.

\* Entry e becomes r and its hand f, with d delivered last; the rest of the
\* registry does not move, and promises are kept or settled.
Delivers(e, r, f, d) ==
    /\ r \in EntryRecords /\ f \in Flights /\ d \in Nat
    /\ entry' = [entry EXCEPT ![e] = r]
    /\ flight' = [flight EXCEPT ![e] = f]
    /\ last' = [last EXCEPT ![e] = d]
    /\ Sound(r, f, d, enqueued)
    /\ e \in Registered => FrontClaimed(r, f)
    /\ r.handle = entry[e].handle /\ r.detached = entry[e].detached
    /\ entry[e].stopping => r.stopping
    /\ r.writer # "none" => Joinable(e) \/ ~entry[e].stopping
    /\ promised' \subseteq promised
    /\ e \in Registered => \A p \in promised' : p.e = e => Kept(p, r, f)
    /\ UNCHANGED <<sessions, retired, entries, resuming, callers, io_blocked, firing, expiries,
                   to_close, life, dials, open, calls, enqueued>>

\* What is known of one entry.
LEMMA EntryFacts ==
    ASSUME IInv, NEW e \in Entries
    PROVE  /\ entry[e] \in EntryRecords /\ flight[e] \in Flights
           /\ last[e] \in Nat /\ enqueued \in Nat
           /\ Sound(entry[e], flight[e], last[e], enqueued)
           /\ e \in Registered => FrontClaimed(entry[e], flight[e])
           /\ e \in Registered => \A p \in promised : p.e = e => Kept(p, entry[e], flight[e])
  <1>1. entry[e] \in EntryRecords /\ flight[e] \in Flights /\ last[e] \in Nat /\ enqueued \in Nat
    BY DEF IInv, TypeOK, Flights
  <1>2. QED
    BY <1>1 DEF IInv, EntryInv, PromiseInv

\* A deliverer at work belongs to an entry that was made.
LEMMA DelivererMade ==
    ASSUME IInv, NEW e \in Entries, Joinable(e) \/ entry[e].chain # "idle"
    PROVE  e <= entries /\ e \in 1 .. entries
  <1>0. entries \in Nat /\ e \in Nat /\ e >= 1
    BY Constants DEF IInv, TypeOK, Entries
  <1>1. CASE Joinable(e)
    <2>1. e \in Registered \cup retired
      BY <1>1 DEF IInv, NoOrphanWriter
    <2>2. Registered \subseteq 1 .. entries /\ retired \subseteq 1 .. entries
      BY <1>0 DEF IInv, TypeOK, Registered, None
    <2>3. QED
      BY <2>1, <2>2
  <1>2. CASE entry[e].chain # "idle"
    <2>1. flight[e].item \in Items
      BY <1>2, EntryFacts DEF Sound, Holding
    <2>2. flight[e] # Idle
      BY <2>1, IdleHand
    <2>3. ~(e > entries)
      BY <2>2 DEF IInv, MapInv
    <2>4. QED
      BY <1>0, <2>3
  <1>3. QED
    BY <1>1, <1>2

\* Such a step keeps the invariant.
LEMMA DeliversStep ==
    ASSUME IInv, NEW e \in Entries, Joinable(e) \/ entry[e].chain # "idle",
           NEW r, NEW f, NEW d, Delivers(e, r, f, d)
    PROVE  IInv'
  <1>0. TypeOK /\ MapInv /\ NoOrphanWriter /\ ExpiryOrResume /\ EntryInv /\ PromiseInv
    BY DEF IInv
  <1>1. e \in 1 .. entries /\ entries \in Nat
    BY <1>0, DelivererMade DEF TypeOK
  <1>2. /\ r \in EntryRecords /\ f \in Flights /\ d \in Nat
        /\ entry' = [entry EXCEPT ![e] = r]
        /\ flight' = [flight EXCEPT ![e] = f]
        /\ last' = [last EXCEPT ![e] = d]
        /\ Sound(r, f, d, enqueued)
        /\ e \in Registered => FrontClaimed(r, f)
        /\ r.handle = entry[e].handle /\ r.detached = entry[e].detached
        /\ entry[e].stopping => r.stopping
        /\ r.writer # "none" => Joinable(e) \/ ~entry[e].stopping
        /\ promised' \subseteq promised
        /\ e \in Registered => \A p \in promised' : p.e = e => Kept(p, r, f)
        /\ sessions' = sessions /\ retired' = retired /\ entries' = entries
        /\ resuming' = resuming /\ callers' = callers /\ io_blocked' = io_blocked
        /\ firing' = firing /\ expiries' = expiries /\ to_close' = to_close /\ life' = life
        /\ dials' = dials /\ open' = open /\ calls' = calls /\ enqueued' = enqueued
    BY Zenon DEF Delivers
  <1>3. /\ entry' \in [Entries -> EntryRecords] /\ flight' \in [Entries -> Flights]
        /\ last' \in [Entries -> Nat]
        /\ \A x \in Entries : /\ entry'[x] = IF x = e THEN r ELSE entry[x]
                              /\ flight'[x] = IF x = e THEN f ELSE flight[x]
                              /\ last'[x] = IF x = e THEN d ELSE last[x]
    BY <1>0, <1>2 DEF TypeOK, Flights
  <1>4. Registered' = Registered
    BY <1>2 DEF Registered
  <1>5. TypeOK'
    BY <1>0, <1>2, <1>3 DEF TypeOK, Flights
  <1>6. MapInv'
    <2>1. ASSUME NEW x \in Entries
          PROVE  /\ ~entry'[x].stopping => x \in Registered
                 /\ x <= entries => entry'[x].handle \in 1 .. dials
                 /\ x > entries => expiries[x] = 0 /\ flight'[x] = Idle
      BY <1>0, <1>1, <1>2, <1>3 DEF MapInv
    <2>2. resuming # None => entry'[resuming].detached
      <3>1. resuming # None => resuming \in Entries /\ entry[resuming].detached
        BY <1>0, Constants DEF TypeOK, MapInv, Entries, None
      <3>2. QED
        BY <1>2, <1>3, <3>1
    <2>3. QED
      BY <1>0, <1>2, <1>4, <2>1, <2>2 DEF MapInv
  <1>7. NoOrphanWriter'
    <2> SUFFICES ASSUME NEW x \in Entries
                 PROVE  /\ Joinable(x)' => x \in Registered \cup retired
                        /\ x \in retired => entry'[x].stopping
      BY <1>2, <1>4 DEF NoOrphanWriter
    <2>1. /\ Joinable(x) => x \in Registered \cup retired
          /\ x \in retired => entry[x].stopping
          /\ ~entry[x].stopping => x \in Registered
      BY <1>0 DEF NoOrphanWriter, MapInv
    <2>2. QED
      BY <1>2, <1>3, <2>1 DEF Joinable
  <1>8. ExpiryOrResume'
    BY <1>0, <1>2, <1>3, <1>4 DEF ExpiryOrResume
  <1>9. EntryInv'
    BY <1>0, <1>2, <1>3, <1>4 DEF EntryInv
  <1>10. PromiseInv'
    <2> SUFFICES ASSUME NEW p \in promised'
                 PROVE  p.e <= entries /\ (p.e \in Registered => Kept(p, entry'[p.e], flight'[p.e]))
      BY <1>2, <1>4 DEF PromiseInv
    <2>1. p.e \in Entries
      BY <1>0, <1>2 DEF TypeOK
    <2>2. p.e <= entries /\ (p.e \in Registered => Kept(p, entry[p.e], flight[p.e]))
      BY <1>0, <1>2 DEF PromiseInv
    <2>3. QED
      BY <1>2, <1>3, <2>1, <2>2
  <1>11. QED
    BY <1>5, <1>6, <1>7, <1>8, <1>9, <1>10 DEF IInv

\* The variables a deliverer's step leaves alone.
Elsewhere ==
    UNCHANGED <<sessions, retired, entries, resuming, callers, io_blocked, firing, expiries,
                to_close, life, dials, open, calls, enqueued>>

\* The writer takes the front of the queue in hand, or leaves its loop.
LEMMA WriterTakesStep ==
    ASSUME IInv, NEW e \in Entries, WriterTakes(e)
    PROVE  IInv'
  <1>0. /\ entry \in [Entries -> EntryRecords] /\ flight \in [Entries -> Flights]
        /\ last \in [Entries -> Nat]
    BY DEF IInv, TypeOK, Flights
  <1>1. PICK r : r = entry[e]
    OBVIOUS
  <1>2. PICK f : f = flight[e]
    OBVIOUS
  <1>3. PICK d \in Nat : d = last[e]
    BY <1>0
  <1>4. PICK n \in Nat : n = enqueued
    BY EntryFacts
  <1>5. /\ r \in EntryRecords /\ f \in Flights /\ Sound(r, f, d, n)
        /\ e \in Registered => \A p \in promised : p.e = e => Kept(p, r, f)
    BY <1>1, <1>2, <1>3, <1>4, EntryFacts
  <1>6. /\ r.writer = "loop" /\ (r.stopping \/ r.queue # <<>>)
        /\ Elsewhere /\ UNCHANGED <<promised, last>>
    BY <1>1, Zenon DEF WriterTakes, Elsewhere, maps, graces, wires, history
  <1>7. Joinable(e) /\ last' = [last EXCEPT ![e] = d]
    BY <1>0, <1>1, <1>3, <1>6 DEF Joinable
  <1>8. f = Idle /\ r.chain = "idle" /\ ~r.async_mode /\ ~r.delivering /\ ~r.done
    BY <1>5, <1>6, EntryFields DEF Sound, Steady, Holding
  <1>9. CASE r.stopping
    <2> DEFINE s == [r EXCEPT !.writer = "exit"]
    <2>1. entry' = [entry EXCEPT ![e] = s] /\ flight' = [flight EXCEPT ![e] = f]
      <3>1. entry' = [entry EXCEPT ![e].writer = "exit"] /\ UNCHANGED flight
        BY <1>1, <1>9, Zenon DEF WriterTakes
      <3>2. QED
        BY <1>0, <1>1, <1>2, <3>1
    <2>2. s \in EntryRecords
      BY <1>5 DEF EntryRecords
    <2>3. /\ s.handle = r.handle /\ s.queue = r.queue /\ s.stopping = r.stopping
          /\ s.done = r.done /\ s.async_mode = r.async_mode /\ s.delivering = r.delivering
          /\ s.detached = r.detached /\ s.writer = "exit" /\ s.chain = r.chain
      BY <1>5 DEF EntryRecords
    <2> HIDE DEF s
    <2>4. Steady(s) /\ Holding(s, f) /\ HandInOrder(s, f, d, n) /\ FrontClaimed(s, f)
      BY <1>5, <1>8, <1>9, <2>3, IdleHand DEF Sound, Steady, Holding, HandInOrder, FrontClaimed
    <2>5. \A p : Kept(p, r, f) => Kept(p, s, f)
      BY <1>6, <2>3 DEF Kept
    <2>6. Delivers(e, s, f, d)
      BY <1>1, <1>4, <1>5, <1>6, <1>7, <1>9, <2>1, <2>2, <2>3, <2>4, <2>5
         DEF Delivers, Elsewhere, Sound
    <2>7. QED
      BY <1>7, <2>6, DeliversStep
  <1>10. CASE ~r.stopping
    <2> DEFINE s == [r EXCEPT !.writer = "send", !.queue = Tail(r.queue)]
               g == [item |-> Head(r.queue), conn |-> r.handle]
    <2>0. r.queue \in Seq(Items) /\ r.queue # <<>> /\ r.handle \in Conns \cup {None}
      BY <1>5, <1>6, <1>10, EntryFields
    <2>1. entry' = [entry EXCEPT ![e] = s] /\ flight' = [flight EXCEPT ![e] = g]
      <3>1. /\ entry' = [entry EXCEPT ![e].writer = "send", ![e].queue = Tail(@)]
            /\ flight' = [flight EXCEPT ![e] = g]
        BY <1>1, <1>10, Zenon DEF WriterTakes
      <3>2. QED
        BY <1>0, <1>1, <3>1
    <2>2. /\ Head(r.queue) = r.queue[1] /\ r.queue[1] \in Items /\ Tail(r.queue) \in Seq(Items)
          /\ Len(Tail(r.queue)) = Len(r.queue) - 1
          /\ \A i \in 1 .. Len(r.queue) - 1 : Tail(r.queue)[i] = r.queue[i + 1]
      BY <2>0, FrontAndRest
    <2>3. s \in EntryRecords /\ g \in Flights
      BY <1>5, <2>0, <2>2, EntryFields DEF EntryRecords, Flights
    <2>4. /\ s.handle = r.handle /\ s.queue = Tail(r.queue) /\ s.stopping = r.stopping
          /\ s.done = r.done /\ s.async_mode = r.async_mode /\ s.delivering = r.delivering
          /\ s.detached = r.detached /\ s.writer = "send" /\ s.chain = r.chain
          /\ g.item = r.queue[1] /\ g.conn = r.handle
      BY <1>5, <2>2 DEF EntryRecords
    <2> HIDE DEF s, g
    <2>5. Steady(s) /\ Holding(s, g) /\ FrontClaimed(s, g)
      BY <1>5, <1>8, <1>10, <2>2, <2>4 DEF Sound, Steady, Holding, FrontClaimed
    <2>6. QueueInOrder(s.queue, d, n) /\ HandInOrder(s, g, d, n)
      BY <1>5, <1>8, <2>0, <2>4, RestInOrder DEF Sound, HandInOrder
    <2>7. ASSUME NEW p, Kept(p, r, f) PROVE Kept(p, s, g)
      <3>1. PICK i \in 1 .. Len(r.queue) : Keeps(r.queue[i], p)
        BY <1>6, <2>7 DEF Kept
      <3>2. CASE i = 1
        BY <2>4, <3>1, <3>2 DEF Kept
      <3>3. CASE i # 1
        <4>1. i - 1 \in 1 .. Len(s.queue) /\ s.queue[i - 1] = r.queue[i]
          BY <2>0, <2>2, <2>4, <3>1, <3>3, SlotTypes
        <4>2. QED
          BY <3>1, <4>1 DEF Kept
      <3>4. QED
        BY <3>2, <3>3
    <2>8. Delivers(e, s, g, d)
      BY <1>1, <1>4, <1>5, <1>6, <1>7, <1>10, <2>1, <2>3, <2>4, <2>5, <2>6, <2>7
         DEF Delivers, Elsewhere, Sound
    <2>9. QED
      BY <1>7, <2>8, DeliversStep
  <1>11. QED
    BY <1>5, <1>9, <1>10, EntryFields

\* The writer's send succeeds, or fails and ends the entry's delivery.
LEMMA WriterSendStep ==
    ASSUME IInv, NEW e \in Entries, WriterSent(e) \/ WriterFails(e)
    PROVE  IInv'
  <1>0. /\ entry \in [Entries -> EntryRecords] /\ flight \in [Entries -> Flights]
        /\ last \in [Entries -> Nat]
    BY DEF IInv, TypeOK, Flights
  <1>1. PICK r : r = entry[e]
    OBVIOUS
  <1>2. PICK f : f = flight[e]
    OBVIOUS
  <1>3. PICK d \in Nat : d = last[e]
    BY <1>0
  <1>4. PICK n \in Nat : n = enqueued
    BY EntryFacts
  <1>5. /\ r \in EntryRecords /\ f \in Flights /\ Sound(r, f, d, n)
        /\ e \in Registered => \A p \in promised : p.e = e => Kept(p, r, f)
    BY <1>1, <1>2, <1>3, <1>4, EntryFacts
  <1>6. r.writer = "send" /\ Elsewhere
    BY <1>1, Zenon DEF WriterSent, WriterFails, Elsewhere, maps, graces, wires
  <1>7. Joinable(e)
    BY <1>1, <1>6 DEF Joinable
  <1>8. /\ f.item \in Items /\ r.chain = "idle" /\ ~r.async_mode /\ ~r.delivering /\ ~r.done
        /\ f.item.t \in Nat /\ d < f.item.t /\ f.item.t <= n
        /\ \A i \in 1 .. Len(r.queue) : f.item.t < r.queue[i].t
    BY <1>5, <1>6, EntryFields DEF Sound, Steady, Holding, HandInOrder, Items
  <1>9. CASE WriterSent(e)
    <2> DEFINE s == [r EXCEPT !.writer = "loop"]
    <2>1. /\ entry' = [entry EXCEPT ![e] = s] /\ flight' = [flight EXCEPT ![e] = Idle]
          /\ last' = [last EXCEPT ![e] = f.item.t] /\ Settle({f.item})
      <3>1. /\ entry' = [entry EXCEPT ![e].writer = "loop"]
            /\ flight' = [flight EXCEPT ![e] = Idle]
            /\ last' = [last EXCEPT ![e] = f.item.t] /\ Settle({f.item})
        BY <1>2, <1>9, Zenon DEF WriterSent
      <3>2. QED
        BY <1>0, <1>1, <3>1
    <2>2. s \in EntryRecords
      BY <1>5 DEF EntryRecords
    <2>3. /\ s.handle = r.handle /\ s.queue = r.queue /\ s.stopping = r.stopping
          /\ s.done = r.done /\ s.async_mode = r.async_mode /\ s.delivering = r.delivering
          /\ s.detached = r.detached /\ s.writer = "loop" /\ s.chain = r.chain
      BY <1>5 DEF EntryRecords
    <2> HIDE DEF s
    <2>4. /\ Steady(s) /\ Holding(s, Idle) /\ HandInOrder(s, Idle, f.item.t, n)
          /\ FrontClaimed(s, Idle)
      BY <1>5, <1>8, <2>3, IdleHand DEF Sound, Steady, Holding, HandInOrder, FrontClaimed
    <2>5. QueueInOrder(s.queue, f.item.t, n)
      BY <1>5, <1>8, <2>3 DEF Sound, QueueInOrder
    <2>6. promised' \subseteq promised /\ \A p \in promised' : p.v # f.item.v
      BY <2>1 DEF Settle
    <2>7. \A p \in promised' : Kept(p, r, f) => Kept(p, s, Idle)
      BY <2>3, <2>6 DEF Kept, Keeps
    <2>8. Delivers(e, s, Idle, f.item.t)
      BY <1>1, <1>4, <1>5, <1>6, <1>7, <1>8, <2>1, <2>2, <2>3, <2>4, <2>5, <2>6, <2>7, IdleHand
         DEF Delivers, Elsewhere, Sound
    <2>9. QED
      BY <1>7, <2>8, DeliversStep
  <1>10. CASE WriterFails(e)
    <2> DEFINE s == [Failed(r) EXCEPT !.writer = "exit"]
    <2>1. /\ entry' = [entry EXCEPT ![e] = s] /\ flight' = [flight EXCEPT ![e] = Idle]
          /\ UNCHANGED last /\ Settle(FailedTail(r) \cup {f.item})
      BY <1>1, <1>2, <1>10, Zenon DEF WriterFails
    <2>2. last' = [last EXCEPT ![e] = d]
      BY <1>0, <1>3, <2>1
    <2>3. r.queue \in Seq(Items) /\ <<>> \in Seq(Items) /\ r.detached \in BOOLEAN
      BY <1>5, EntryFields
    <2>4. s \in EntryRecords
      BY <1>5, <2>3, EntryFields DEF EntryRecords, Failed
    <2>5. /\ s.handle = r.handle /\ s.queue = (IF r.detached THEN r.queue ELSE <<>>)
          /\ s.stopping = TRUE
          /\ s.done = r.done /\ s.async_mode = r.async_mode /\ s.delivering = r.delivering
          /\ s.detached = r.detached /\ s.writer = "exit" /\ s.chain = r.chain
      BY <1>5 DEF EntryRecords, Failed
    <2> HIDE DEF s
    <2>6. /\ Steady(s) /\ Holding(s, Idle) /\ HandInOrder(s, Idle, d, n) /\ FrontClaimed(s, Idle)
      BY <1>5, <1>8, <2>5, IdleHand DEF Sound, Steady, Holding, HandInOrder, FrontClaimed
    <2>7. QueueInOrder(s.queue, d, n)
      BY <1>5, <2>3, <2>5, RestInOrder DEF Sound
    <2>8. /\ promised' \subseteq promised /\ \A p \in promised' : p.v # f.item.v
          /\ r.detached \/ \A p \in promised' : \A x \in Slots(r.queue) : x.v # p.v
      BY <2>1, <2>3 DEF Settle, FailedTail
    <2>9. ASSUME NEW p \in promised', Kept(p, r, f) PROVE Kept(p, s, Idle)
      <3>1. PICK i \in 1 .. Len(r.queue) : Keeps(r.queue[i], p)
        BY <2>8, <2>9 DEF Kept, Keeps
      <3>2. r.queue[i] \in Slots(r.queue)
        BY <2>3, SlotTypes
      <3>3. r.detached
        BY <2>8, <3>1, <3>2 DEF Keeps
      <3>4. QED
        BY <2>5, <3>1, <3>3 DEF Kept
    <2>10. Delivers(e, s, Idle, d)
      BY <1>1, <1>4, <1>5, <1>6, <1>7, <2>1, <2>2, <2>4, <2>5, <2>6, <2>7, <2>8, <2>9, IdleHand
         DEF Delivers, Elsewhere, Sound
    <2>11. QED
      BY <1>7, <2>10, DeliversStep
  <1>11. QED
    BY <1>9, <1>10

\* A writer out of its loop is done.
LEMMA WriterExitsStep ==
    ASSUME IInv, NEW e \in Entries, WriterExits(e)
    PROVE  IInv'
  <1>0. /\ entry \in [Entries -> EntryRecords] /\ flight \in [Entries -> Flights]
        /\ last \in [Entries -> Nat]
    BY DEF IInv, TypeOK, Flights
  <1>1. PICK r : r = entry[e]
    OBVIOUS
  <1>2. PICK f : f = flight[e]
    OBVIOUS
  <1>3. PICK d \in Nat : d = last[e]
    BY <1>0
  <1>4. PICK n \in Nat : n = enqueued
    BY EntryFacts
  <1>5. /\ r \in EntryRecords /\ f \in Flights /\ Sound(r, f, d, n)
        /\ e \in Registered => FrontClaimed(r, f)
        /\ e \in Registered => \A p \in promised : p.e = e => Kept(p, r, f)
    BY <1>1, <1>2, <1>3, <1>4, EntryFacts
  <1> DEFINE s == [r EXCEPT !.writer = "ended", !.done = TRUE]
  <1>6. r.writer = "exit" /\ Elsewhere /\ UNCHANGED <<promised, last, flight>>
    BY <1>1, Zenon DEF WriterExits, Elsewhere, maps, graces, wires, history
  <1>7. /\ Joinable(e) /\ last' = [last EXCEPT ![e] = d] /\ flight' = [flight EXCEPT ![e] = f]
    BY <1>0, <1>1, <1>2, <1>3, <1>6 DEF Joinable
  <1>8. entry' = [entry EXCEPT ![e] = s]
    <2>1. entry' = [entry EXCEPT ![e].writer = "ended", ![e].done = TRUE]
      BY Zenon DEF WriterExits
    <2>2. QED
      BY <1>0, <1>1, <2>1
  <1>9. s \in EntryRecords
    BY <1>5 DEF EntryRecords
  <1>10. /\ s.handle = r.handle /\ s.queue = r.queue /\ s.stopping = r.stopping
         /\ s.done = TRUE /\ s.async_mode = r.async_mode /\ s.delivering = r.delivering
         /\ s.detached = r.detached /\ s.writer = "ended" /\ s.chain = r.chain
    BY <1>5 DEF EntryRecords
  <1> HIDE DEF s
  <1>11. /\ Steady(s) /\ Holding(s, f) /\ HandInOrder(s, f, d, n)
         /\ FrontClaimed(r, f) => FrontClaimed(s, f)
    BY <1>5, <1>6, <1>10 DEF Sound, Steady, Holding, HandInOrder, FrontClaimed
  <1>12. \A p : Kept(p, r, f) => Kept(p, s, f)
    BY <1>6, <1>10 DEF Kept
  <1>13. Delivers(e, s, f, d)
    BY <1>1, <1>4, <1>5, <1>6, <1>7, <1>8, <1>9, <1>10, <1>11, <1>12
       DEF Delivers, Elsewhere, Sound
  <1>14. QED
    BY <1>7, <1>13, DeliversStep

\* SubmitAsync puts what the chain claimed on the entry's own handle.
LEMMA SubmitStep ==
    ASSUME IInv, NEW e \in Entries, SubmitAsync(e)
    PROVE  IInv'
  <1>0. /\ entry \in [Entries -> EntryRecords] /\ flight \in [Entries -> Flights]
        /\ last \in [Entries -> Nat]
    BY DEF IInv, TypeOK, Flights
  <1>1. PICK r : r = entry[e]
    OBVIOUS
  <1>2. PICK f : f = flight[e]
    OBVIOUS
  <1>3. PICK d \in Nat : d = last[e]
    BY <1>0
  <1>4. PICK n \in Nat : n = enqueued
    BY EntryFacts
  <1>5. /\ r \in EntryRecords /\ f \in Flights /\ Sound(r, f, d, n)
        /\ e \in Registered => FrontClaimed(r, f)
        /\ e \in Registered => \A p \in promised : p.e = e => Kept(p, r, f)
    BY <1>1, <1>2, <1>3, <1>4, EntryFacts
  <1> DEFINE s == [r EXCEPT !.chain = "flying"]
             g == [f EXCEPT !.conn = r.handle]
  <1>6. r.chain = "claimed" /\ Elsewhere /\ UNCHANGED <<promised, last>>
    BY <1>1, Zenon DEF SubmitAsync, Elsewhere, maps, graces, wires, history
  <1>7. entry[e].chain # "idle" /\ last' = [last EXCEPT ![e] = d]
    BY <1>0, <1>1, <1>3, <1>6
  <1>8. entry' = [entry EXCEPT ![e] = s] /\ flight' = [flight EXCEPT ![e] = g]
    <2>1. /\ entry' = [entry EXCEPT ![e].chain = "flying"]
          /\ flight' = [flight EXCEPT ![e].conn = r.handle]
      BY <1>1, Zenon DEF SubmitAsync
    <2>2. QED
      BY <1>0, <1>1, <1>2, <2>1
  <1>9. s \in EntryRecords /\ g \in Flights
    BY <1>5, EntryFields DEF EntryRecords, Flights
  <1>10. /\ s.handle = r.handle /\ s.queue = r.queue /\ s.stopping = r.stopping
         /\ s.done = r.done /\ s.async_mode = r.async_mode /\ s.delivering = r.delivering
         /\ s.detached = r.detached /\ s.writer = r.writer /\ s.chain = "flying"
         /\ g.item = f.item /\ g.conn = r.handle
    BY <1>5 DEF EntryRecords, Flights
  <1> HIDE DEF s, g
  <1>11. /\ Steady(s) /\ Holding(s, g) /\ HandInOrder(s, g, d, n)
         /\ FrontClaimed(r, f) => FrontClaimed(s, g)
    BY <1>5, <1>6, <1>10 DEF Sound, Steady, Holding, HandInOrder, FrontClaimed
  <1>12. \A p : Kept(p, r, f) => Kept(p, s, g)
    BY <1>6, <1>10 DEF Kept
  <1>13. Delivers(e, s, g, d)
    BY <1>1, <1>4, <1>5, <1>6, <1>7, <1>8, <1>9, <1>10, <1>11, <1>12
       DEF Delivers, Elsewhere, Sound, Joinable
  <1>14. QED
    BY <1>7, <1>13, DeliversStep

\* The chain's send succeeds: its front is retired and the next one claimed.
LEMMA ChainSentStep ==
    ASSUME IInv, NEW e \in Entries, ChainSent(e)
    PROVE  IInv'
  <1>0. /\ entry \in [Entries -> EntryRecords] /\ flight \in [Entries -> Flights]
        /\ last \in [Entries -> Nat]
    BY DEF IInv, TypeOK, Flights
  <1>1. PICK r : r = entry[e]
    OBVIOUS
  <1>2. PICK f : f = flight[e]
    OBVIOUS
  <1>3. PICK d \in Nat : d = last[e]
    BY <1>0
  <1>4. PICK n \in Nat : n = enqueued
    BY EntryFacts
  <1>5. /\ r \in EntryRecords /\ f \in Flights /\ Sound(r, f, d, n)
        /\ e \in Registered => FrontClaimed(r, f)
        /\ e \in Registered => \A p \in promised : p.e = e => Kept(p, r, f)
    BY <1>1, <1>2, <1>3, <1>4, EntryFacts
  <1> DEFINE q == IF r.queue = <<>> THEN r.queue ELSE Tail(r.queue)
             w == [r EXCEPT !.queue = q]
  <1>6. /\ r.chain = "flying" /\ Elsewhere
        /\ entry' = [entry EXCEPT ![e] = Claim(Popped(r))]
        /\ flight' = [flight EXCEPT ![e] = Claimed(Popped(r))]
        /\ last' = [last EXCEPT ![e] = f.item.t] /\ Settle({f.item})
    BY <1>1, <1>2, Zenon DEF ChainSent, Elsewhere, maps, graces, wires
  <1>7. Popped(r) = w
    BY DEF Popped
  <1>8. /\ f.item \in Items /\ r.async_mode /\ r.writer = "none" /\ f.item.t \in Nat
        /\ d < f.item.t /\ f.item.t <= n
        /\ \A i \in 1 .. Len(r.queue) : f.item.t <= r.queue[i].t
    BY <1>5, <1>6, EntryFields DEF Sound, Steady, Holding, HandInOrder, Items
  <1>9. r.queue \in Seq(Items) /\ QueueInOrder(r.queue, d, n)
    BY <1>5, EntryFields DEF Sound
  <1>10. q \in Seq(Items) /\ QueueInOrder(q, f.item.t, n)
    <2>1. CASE r.queue = <<>>
      BY <1>8, <1>9, <2>1, Constants DEF QueueInOrder
    <2>2. CASE r.queue # <<>>
      <3>1. q \in Seq(Items) /\ q = Tail(r.queue) /\ 1 \in 1 .. Len(r.queue)
        BY <1>9, <2>2, FrontAndRest
      <3>2. /\ QueueInOrder(Tail(r.queue), d, n)
            /\ \A i \in 1 .. Len(Tail(r.queue)) : r.queue[1].t < Tail(r.queue)[i].t
        BY <1>9, <2>2, RestInOrder
      <3>3. f.item.t <= r.queue[1].t /\ r.queue[1].t \in Nat
        BY <1>8, <1>9, <3>1, SlotTypes
      <3> HIDE DEF q
      <3>4. \A i \in 1 .. Len(q) : q[i].t \in Nat
        BY <3>1, SlotTypes
      <3>5. ASSUME NEW i \in 1 .. Len(q) PROVE f.item.t < q[i].t
        <4>1. PICK a \in Nat : a = f.item.t
          BY <1>8
        <4>2. PICK b \in Nat : b = r.queue[1].t
          BY <3>3
        <4>3. PICK c \in Nat : c = q[i].t
          BY <3>4
        <4>4. a <= b /\ b < c
          BY <3>1, <3>2, <3>3, <4>1, <4>2, <4>3
        <4>5. QED
          BY <4>1, <4>3, <4>4
      <3>6. QED
        BY <1>8, <3>1, <3>2, <3>5 DEF QueueInOrder
    <2>3. QED
      BY <2>1, <2>2
  <1> HIDE DEF q
  <1>11. w \in EntryRecords
    BY <1>5, <1>10, EntryFields DEF EntryRecords
  <1>12. /\ w.handle = r.handle /\ w.queue = q /\ w.stopping = r.stopping
         /\ w.done = r.done /\ w.async_mode = r.async_mode
         /\ w.detached = r.detached /\ w.writer = r.writer
    BY <1>5 DEF EntryRecords
  <1> HIDE DEF w
  <1>13. Steady(w)
    BY <1>5, <1>12 DEF Sound, Steady
  <1>14. /\ Claim(w) \in EntryRecords /\ Claimed(w) \in Flights
         /\ Sound(Claim(w), Claimed(w), f.item.t, n) /\ FrontClaimed(Claim(w), Claimed(w))
         /\ Claim(w).queue = w.queue /\ Claim(w).handle = w.handle
         /\ Claim(w).stopping = w.stopping /\ Claim(w).detached = w.detached
         /\ Claim(w).writer = w.writer
    BY <1>8, <1>10, <1>11, <1>12, <1>13, ClaimSound
  <1>15. promised' \subseteq promised /\ \A p \in promised' : p.v # f.item.v
    BY <1>6 DEF Settle
  <1>16. ASSUME NEW p \in promised', Kept(p, r, f), FrontClaimed(r, f)
         PROVE  Kept(p, Claim(w), Claimed(w))
    <2>1. PICK i \in 1 .. Len(r.queue) : Keeps(r.queue[i], p)
      BY <1>8, <1>16 DEF Kept
    <2>2. r.queue # <<>>
      BY <1>9, SlotTypes
    <2>3. r.queue[1] = f.item
      BY <1>6, <1>16, <2>2 DEF FrontClaimed
    <2>4. i # 1
      BY <1>15, <2>1, <2>3 DEF Keeps
    <2>5. q = Tail(r.queue)
      BY <2>2 DEF q
    <2>6. i - 1 \in 1 .. Len(q) /\ q[i - 1] = r.queue[i]
      <3>1. /\ Len(Tail(r.queue)) = Len(r.queue) - 1
            /\ \A k \in 1 .. Len(r.queue) - 1 : Tail(r.queue)[k] = r.queue[k + 1]
        BY <1>9, <2>2, FrontAndRest
      <3>2. Len(r.queue) \in Nat
        BY <1>9, SlotTypes
      <3>3. i - 1 \in 1 .. Len(r.queue) - 1 /\ (i - 1) + 1 = i
        BY <2>4, <3>2
      <3>4. QED
        BY <2>5, <3>1, <3>3
    <2>7. QED
      BY <1>12, <1>14, <2>1, <2>6 DEF Kept
  <1>17. entry[e].chain # "idle"
    BY <1>1, <1>6
  <1>18. Delivers(e, Claim(w), Claimed(w), f.item.t)
    BY <1>1, <1>4, <1>5, <1>6, <1>7, <1>8, <1>12, <1>14, <1>15, <1>16
       DEF Delivers, Elsewhere, Joinable
  <1>19. QED
    BY <1>17, <1>18, DeliversStep

\* The chain's send is refused, and a writer takes over unless the entry is
\* stopping; or it fails, and the entry's delivery ends.
LEMMA ChainEndsStep ==
    ASSUME IInv, NEW e \in Entries, ChainRefused(e) \/ ChainFails(e)
    PROVE  IInv'
  <1>0. /\ entry \in [Entries -> EntryRecords] /\ flight \in [Entries -> Flights]
        /\ last \in [Entries -> Nat]
    BY DEF IInv, TypeOK, Flights
  <1>1. PICK r : r = entry[e]
    OBVIOUS
  <1>2. PICK f : f = flight[e]
    OBVIOUS
  <1>3. PICK d \in Nat : d = last[e]
    BY <1>0
  <1>4. PICK n \in Nat : n = enqueued
    BY EntryFacts
  <1>5. /\ r \in EntryRecords /\ f \in Flights /\ Sound(r, f, d, n)
        /\ e \in Registered => \A p \in promised : p.e = e => Kept(p, r, f)
    BY <1>1, <1>2, <1>3, <1>4, EntryFacts
  <1>6. r.chain = "flying" /\ Elsewhere /\ UNCHANGED last /\ flight' = [flight EXCEPT ![e] = Idle]
    BY <1>1, Zenon DEF ChainRefused, ChainFails, Elsewhere, maps, graces, wires, history
  <1>7. entry[e].chain # "idle" /\ last' = [last EXCEPT ![e] = d]
    BY <1>0, <1>1, <1>3, <1>6
  <1>8. r.async_mode /\ r.writer = "none"
    BY <1>5, <1>6, EntryFields DEF Sound, Steady, Holding
  <1>9. CASE ChainRefused(e)
    <2> DEFINE m == MaySpawn(r)
               s == [r EXCEPT !.delivering = FALSE, !.chain = "idle",
                              !.async_mode = r.async_mode /\ ~m,
                              !.writer = IF m THEN "loop" ELSE r.writer]
    <2>0. m \in BOOLEAN /\ (m <=> ~r.stopping)
      BY <1>5, <1>8, EntryFields DEF MaySpawn
    <2>1. entry' = [entry EXCEPT ![e] = s] /\ UNCHANGED promised
      <3>1. /\ entry' = [entry EXCEPT ![e].delivering = FALSE, ![e].chain = "idle",
                          ![e].async_mode = @ /\ ~MaySpawn(r),
                          ![e].writer = IF MaySpawn(r) THEN "loop" ELSE @]
            /\ UNCHANGED promised
        BY <1>1, <1>9, Zenon DEF ChainRefused, history
      <3>2. QED
        BY <1>0, <1>1, <3>1
    <2> HIDE DEF m
    <2>2. (r.async_mode /\ ~m) \in BOOLEAN
      BY <1>8, <2>0
    <2>3. s \in EntryRecords
      BY <1>5, <2>0, <2>2, EntryFields DEF EntryRecords
    <2>4. /\ s.handle = r.handle /\ s.queue = r.queue /\ s.stopping = r.stopping
          /\ s.done = r.done /\ s.async_mode = (r.async_mode /\ ~m) /\ s.delivering = FALSE
          /\ s.detached = r.detached /\ s.writer = (IF m THEN "loop" ELSE r.writer)
          /\ s.chain = "idle"
      BY <1>5 DEF EntryRecords
    <2> HIDE DEF s
    <2>5. Steady(s)
      BY <1>5, <1>8, <2>0, <2>4 DEF Sound, Steady
    <2>6. Holding(s, Idle) /\ HandInOrder(s, Idle, d, n) /\ FrontClaimed(s, Idle)
      BY <1>8, <2>4, IdleHand DEF Holding, HandInOrder, FrontClaimed
    <2>7. \A p : Kept(p, r, f) => Kept(p, s, Idle)
      BY <1>8, <2>4 DEF Kept
    <2>8. s.writer # "none" => Joinable(e) \/ ~entry[e].stopping
      BY <1>1, <1>8, <2>0, <2>4
    <2>9. QueueInOrder(s.queue, d, n)
      BY <1>5, <2>4 DEF Sound
    <2>10. Delivers(e, s, Idle, d)
      BY <1>1, <1>4, <1>5, <1>6, <1>7, <2>1, <2>3, <2>4, <2>5, <2>6, <2>7, <2>8, <2>9, IdleHand
         DEF Delivers, Elsewhere, Sound
    <2>11. QED
      BY <1>7, <2>10, DeliversStep
  <1>10. CASE ChainFails(e)
    <2> DEFINE s == [Failed(r) EXCEPT !.delivering = FALSE, !.chain = "idle"]
    <2>1. entry' = [entry EXCEPT ![e] = s] /\ Settle(FailedTail(r))
      BY <1>1, <1>10, Zenon DEF ChainFails
    <2>2. r.queue \in Seq(Items) /\ <<>> \in Seq(Items) /\ r.detached \in BOOLEAN
      BY <1>5, EntryFields
    <2>3. s \in EntryRecords
      BY <1>5, <2>2, EntryFields DEF EntryRecords, Failed
    <2>4. /\ s.handle = r.handle /\ s.queue = (IF r.detached THEN r.queue ELSE <<>>)
          /\ s.stopping = TRUE
          /\ s.done = r.done /\ s.async_mode = r.async_mode /\ s.delivering = FALSE
          /\ s.detached = r.detached /\ s.writer = r.writer /\ s.chain = "idle"
      BY <1>5 DEF EntryRecords, Failed
    <2> HIDE DEF s
    <2>5. Steady(s) /\ Holding(s, Idle) /\ HandInOrder(s, Idle, d, n) /\ FrontClaimed(s, Idle)
      BY <1>5, <1>8, <2>4, IdleHand DEF Sound, Steady, Holding, HandInOrder, FrontClaimed
    <2>6. QueueInOrder(s.queue, d, n)
      BY <1>5, <2>2, <2>4, RestInOrder DEF Sound
    <2>7. /\ promised' \subseteq promised
          /\ r.detached \/ \A p \in promised' : \A x \in Slots(r.queue) : x.v # p.v
      BY <2>1, <2>2 DEF Settle, FailedTail
    <2>8. ASSUME NEW p \in promised', Kept(p, r, f) PROVE Kept(p, s, Idle)
      <3>1. PICK i \in 1 .. Len(r.queue) : Keeps(r.queue[i], p)
        BY <1>8, <2>8 DEF Kept
      <3>2. r.queue[i] \in Slots(r.queue)
        BY <2>2, SlotTypes
      <3>3. r.detached
        BY <2>7, <3>1, <3>2 DEF Keeps
      <3>4. QED
        BY <2>4, <3>1, <3>3 DEF Kept
    <2>9. Delivers(e, s, Idle, d)
      BY <1>1, <1>4, <1>5, <1>6, <1>7, <1>8, <2>1, <2>3, <2>4, <2>5, <2>6, <2>7, <2>8, IdleHand
         DEF Delivers, Elsewhere, Sound, Joinable
    <2>10. QED
      BY <1>7, <2>9, DeliversStep
  <1>11. QED
    BY <1>9, <1>10

-----------------------------------------------------------------------------
\* PlaceLocked: what an enqueue makes of a queue.

\* The oldest of some slots is one of them.
LEMMA OldestIsOne ==
    ASSUME NEW is, is \subseteq Nat, is # {}
    PROVE  Oldest(is) \in is
  <1> DEFINE less == {ss \in Nat \X Nat : ss[1] < ss[2]}
  <1>1. IsWellFoundedOn(less, Nat)
    BY NatLessThanWellFounded DEF OpToRel
  <1>2. PICK i \in is : \A j \in is : <<j, i>> \notin less
    <2> HIDE DEF less
    <2>1. QED
      BY <1>1, WFMin
  <1>3. \A j \in is : i <= j
    <2>1. ASSUME NEW j \in is PROVE i <= j
      <3>1. i \in Nat /\ j \in Nat /\ <<j, i>> \notin less
        BY <1>2
      <3>2. ~(j < i)
        BY <3>1
      <3>3. QED
        BY <3>1, <3>2
    <2>2. QED
      BY <2>1
  <1>4. \E k \in is : \A j \in is : k <= j
    BY <1>3
  <1>5. QED
    BY <1>4 DEF Oldest

\* A queue without its i-th slot: the slots before it, then those after it.
LEMMA WithoutSlots ==
    ASSUME NEW q \in Seq(Items), NEW i \in 1 .. Len(q)
    PROVE  /\ Without(q, i) \in Seq(Items) /\ Len(Without(q, i)) = Len(q) - 1
           /\ \A k \in 1 .. Len(q) - 1 : Without(q, i)[k] = IF k < i THEN q[k] ELSE q[k + 1]
  <1>1. PICK m \in Nat : m = Len(q)
    BY SlotTypes
  <1>2. i \in 1 .. m /\ i \in Nat /\ i >= 1 /\ i <= m
    BY <1>1
  <1>3. \A k \in 1 .. m : q[k] \in Items
    BY <1>1, SlotTypes
  <1> DEFINE a == SubSeq(q, 1, i - 1)
             b == SubSeq(q, i + 1, m)
  <1>4. /\ a \in Seq(Items) /\ Len(a) = i - 1 /\ \A k \in 1 .. i - 1 : a[k] = q[k]
    <2>1. \A k \in 1 .. i - 1 : q[k] \in Items
      BY <1>2, <1>3
    <2>2. 1 \in Int /\ i - 1 \in Int
      BY <1>2
    <2>3. /\ a \in Seq(Items) /\ Len(a) = IF 1 <= i - 1 THEN (i - 1) - 1 + 1 ELSE 0
          /\ \A k \in 1 .. (i - 1) - 1 + 1 : a[k] = q[1 + k - 1]
      BY <2>1, <2>2, SubSeqProperties
    <2> HIDE DEF a
    <2>4. QED
      BY <1>2, <2>3
  <1>5. /\ b \in Seq(Items) /\ Len(b) = m - i /\ \A k \in 1 .. m - i : b[k] = q[i + k]
    <2>1. \A k \in i + 1 .. m : q[k] \in Items
      BY <1>2, <1>3
    <2>2. i + 1 \in Int /\ m \in Int
      BY <1>2
    <2>3. /\ b \in Seq(Items) /\ Len(b) = IF i + 1 <= m THEN m - (i + 1) + 1 ELSE 0
          /\ \A k \in 1 .. m - (i + 1) + 1 : b[k] = q[i + 1 + k - 1]
      BY <2>1, <2>2, SubSeqProperties
    <2> HIDE DEF b
    <2>4. QED
      BY <1>2, <2>3
  <1>6. Without(q, i) = a \o b
    BY <1>1 DEF Without
  <1> HIDE DEF a, b
  <1>7. /\ a \o b \in Seq(Items) /\ Len(a \o b) = (i - 1) + (m - i)
        /\ \A k \in 1 .. (i - 1) + (m - i) : (a \o b)[k] =
             IF k <= i - 1 THEN a[k] ELSE b[k - (i - 1)]
    <2>1. /\ a \o b \in Seq(Items) /\ Len(a \o b) = Len(a) + Len(b)
          /\ \A k \in 1 .. Len(a) + Len(b) : (a \o b)[k] =
               IF k <= Len(a) THEN a[k] ELSE b[k - Len(a)]
      BY <1>4, <1>5, ConcatProperties
    <2>2. QED
      BY <1>4, <1>5, <2>1, Zenon
  <1>8. Len(a \o b) = m - 1
    BY <1>2, <1>7
  <1>9. ASSUME NEW k \in 1 .. m - 1 PROVE (a \o b)[k] = IF k < i THEN q[k] ELSE q[k + 1]
    <2>1. k \in 1 .. (i - 1) + (m - i)
      BY <1>2
    <2>2. CASE k < i
      <3>1. k <= i - 1 /\ k \in 1 .. i - 1
        BY <1>2, <2>2
      <3>2. QED
        BY <1>4, <1>7, <2>1, <2>2, <3>1
    <2>3. CASE ~(k < i)
      <3>1. ~(k <= i - 1) /\ k - (i - 1) \in 1 .. m - i /\ i + (k - (i - 1)) = k + 1
        BY <1>2, <2>3
      <3>2. QED
        BY <1>5, <1>7, <2>1, <2>3, <3>1
    <2>4. QED
      BY <2>2, <2>3
  <1>10. QED
    BY <1>1, <1>6, <1>7, <1>8, <1>9

\* What an enqueue of event v may make of a queue: the slots stay in order,
\* none is older than it was, a claimed front is still the front, no promised
\* event goes (but for the coalescing one v replaces), and v is in it.
InOrder(q) == \A i, j \in 1 .. Len(q) : i < j => q[i].t < q[j].t
KeptIn(q, p) == \E i \in 1 .. Len(q) : Keeps(q[i], p)
Takes(old, q, busy, v, class) ==
    /\ q \in Seq(Items) /\ q # <<>> /\ Len(q) <= Capacity /\ InOrder(q)
    /\ \A i \in 1 .. Len(q) : q[i].t = v \/ \E j \in 1 .. Len(old) : q[i].t = old[j].t
    /\ busy /\ old # <<>> => q[1] = old[1]
    /\ \A p : KeptIn(old, p) /\ ~(class = "coalesce" /\ p.newest) => KeptIn(q, p)
    /\ \E i \in 1 .. Len(q) : q[i].v = v /\ q[i].class = class

\* A queue with room: the event goes to its end.
LEMMA AppendTakes ==
    ASSUME NEW old \in Seq(Items), NEW v \in Nat \ {0}, NEW class \in Classes, NEW busy,
           InOrder(old), \A i \in 1 .. Len(old) : old[i].t < v, Len(old) < Capacity
    PROVE  Takes(old, Append(old, [t |-> v, v |-> v, class |-> class]), busy, v, class)
  <1> DEFINE item == [t |-> v, v |-> v, class |-> class]
             q == Append(old, item)
  <1>1. item \in Items /\ item.t = v /\ item.v = v /\ item.class = class
    BY DEF Items
  <1> HIDE DEF item
  <1>2. PICK m \in Nat : m = Len(old)
    BY SlotTypes
  <1>3. /\ q \in Seq(Items) /\ q # <<>> /\ Len(q) = m + 1
        /\ \A i \in 1 .. m : q[i] = old[i]
        /\ q[m + 1] = item
    BY <1>1, <1>2, AppendProperties
  <1> HIDE DEF q
  <1>4. \A i \in 1 .. m + 1 : i \in 1 .. m \/ i = m + 1
    BY <1>2
  <1>5. m + 1 \in 1 .. m + 1 /\ \A i \in 1 .. m : i \in 1 .. m + 1
    BY <1>2
  <1>6. Len(q) <= Capacity
    BY <1>2, <1>3, Constants
  <1>7. InOrder(q)
    <2>1. ASSUME NEW i \in 1 .. m + 1, NEW j \in 1 .. m + 1, i < j PROVE q[i].t < q[j].t
      <3>1. i \in 1 .. m
        BY <2>1, <1>2
      <3>2. CASE j = m + 1
        BY <1>1, <1>2, <1>3, <3>1, <3>2
      <3>3. CASE j \in 1 .. m
        BY <1>2, <1>3, <2>1, <3>1, <3>3 DEF InOrder
      <3>4. QED
        BY <1>4, <3>2, <3>3
    <2>2. QED
      BY <1>3, <2>1 DEF InOrder
  <1>8. \A i \in 1 .. Len(q) : q[i].t = v \/ \E j \in 1 .. Len(old) : q[i].t = old[j].t
    BY <1>1, <1>2, <1>3, <1>4
  <1>9. old # <<>> => q[1] = old[1]
    <2>1. old # <<>> => 1 \in 1 .. m
      BY <1>2, SlotTypes
    <2>2. QED
      BY <1>3, <2>1
  <1>10. \A p : KeptIn(old, p) => KeptIn(q, p)
    BY <1>2, <1>3, <1>5 DEF KeptIn
  <1>11. \E i \in 1 .. Len(q) : q[i].v = v /\ q[i].class = class
    BY <1>1, <1>3, <1>5
  <1>12. QED
    BY <1>3, <1>6, <1>7, <1>8, <1>9, <1>10, <1>11 DEF Takes, q, item

\* A pending coalescing event: the newcomer takes its slot.
LEMMA ReplaceTakes ==
    ASSUME NEW old \in Seq(Items), NEW v \in Nat \ {0}, NEW busy,
           InOrder(old), Len(old) <= Capacity,
           NEW i \in 1 .. Len(old), i > 1 \/ ~busy, old[i].class = "coalesce"
    PROVE  Takes(old, [old EXCEPT ![i].v = v], busy, v, "coalesce")
  <1> DEFINE item == [old[i] EXCEPT !.v = v]
             q == [old EXCEPT ![i] = item]
  <1>1. old[i] \in Items /\ DOMAIN old = 1 .. Len(old)
    BY SlotTypes
  <1>2. item \in Items /\ item.t = old[i].t /\ item.v = v /\ item.class = "coalesce"
    BY <1>1 DEF Items
  <1>3. [old EXCEPT ![i].v = v] = q
    OBVIOUS
  <1> HIDE DEF item
  <1>4. PICK m \in Nat : m = Len(old)
    BY SlotTypes
  <1>5. /\ q \in Seq(Items) /\ Len(q) = m
        /\ \A j \in 1 .. m : q[j] = IF j = i THEN item ELSE old[j]
    BY <1>2, <1>4, ExceptSeq
  <1> HIDE DEF q
  <1>6. q # <<>>
    BY <1>4, <1>5, SlotTypes
  <1>7. \A j \in 1 .. m : q[j].t = old[j].t
    BY <1>2, <1>5
  <1>8. InOrder(q)
    BY <1>4, <1>5, <1>7 DEF InOrder
  <1>9. busy => q[1] = old[1]
    <2>1. busy => i > 1 /\ 1 \in 1 .. m
      BY <1>4
    <2>2. QED
      BY <1>4, <1>5, <2>1
  <1>10. ASSUME NEW p, KeptIn(old, p), ~p.newest PROVE KeptIn(q, p)
    <2>1. PICK j \in 1 .. m : Keeps(old[j], p)
      BY <1>4, <1>10 DEF KeptIn
    <2>2. j # i
      BY <1>10, <2>1 DEF Keeps
    <2>3. QED
      BY <1>5, <2>1, <2>2 DEF KeptIn
  <1>11. Takes(old, q, busy, v, "coalesce")
    BY <1>2, <1>4, <1>5, <1>6, <1>7, <1>8, <1>9, <1>10 DEF Takes
  <1>12. QED
    BY <1>3, <1>11

\* A full queue: the newcomer evicts a pending droppable event.
LEMMA EvictTakes ==
    ASSUME NEW old \in Seq(Items), NEW v \in Nat \ {0}, NEW class \in Classes, NEW busy,
           InOrder(old), \A j \in 1 .. Len(old) : old[j].t < v, Len(old) <= Capacity,
           NEW i \in 1 .. Len(old), i > 1 \/ ~busy, old[i].class = "droppable"
    PROVE  Takes(old, Append(Without(old, i), [t |-> v, v |-> v, class |-> class]),
                 busy, v, class)
  <1>1. PICK m \in Nat : m = Len(old)
    BY SlotTypes
  <1>2. PICK w : w = Without(old, i)
    OBVIOUS
  <1>3. /\ w \in Seq(Items) /\ Len(w) = m - 1
        /\ \A k \in 1 .. m - 1 : w[k] = IF k < i THEN old[k] ELSE old[k + 1]
    BY <1>1, <1>2, WithoutSlots
  <1>4. i \in Nat /\ i >= 1 /\ i <= m /\ m <= Capacity
    BY <1>1
  <1>5. \A k \in 1 .. m - 1 : k \in 1 .. m /\ k + 1 \in 1 .. m
    BY <1>1
  <1>6. \A k \in 1 .. m : old[k].t \in Nat
    BY <1>1, SlotTypes
  <1>7. \A k, j \in 1 .. m : k < j => old[k].t < old[j].t
    BY <1>1 DEF InOrder
  <1>8. InOrder(w)
    <2>1. ASSUME NEW k \in 1 .. m - 1, NEW j \in 1 .. m - 1, k < j PROVE w[k].t < w[j].t
      <3>1. PICK a \in 1 .. m : a = IF k < i THEN k ELSE k + 1
        BY <1>4, <1>5
      <3>2. PICK b \in 1 .. m : b = IF j < i THEN j ELSE j + 1
        BY <1>4, <1>5
      <3>3. a < b
        BY <1>4, <2>1, <3>1, <3>2
      <3>4. w[k] = old[a] /\ w[j] = old[b]
        BY <1>3, <3>1, <3>2
      <3>5. QED
        BY <1>7, <3>3, <3>4
    <2>2. QED
      BY <1>3, <2>1 DEF InOrder
  <1>9. \A k \in 1 .. m - 1 : w[k].t < v /\ \E j \in 1 .. m : w[k].t = old[j].t
    BY <1>1, <1>3, <1>5
  <1>10. Len(w) < Capacity
    BY <1>3, <1>4, Constants
  <1> DEFINE q == Append(w, [t |-> v, v |-> v, class |-> class])
  <1>11. Takes(w, q, TRUE, v, class)
    BY <1>3, <1>8, <1>9, <1>10, AppendTakes
  <1> HIDE DEF q
  <1>12. busy => q[1] = old[1]
    <2>1. ASSUME busy PROVE q[1] = old[1]
      <3>1. i > 1 /\ 1 \in 1 .. m - 1 /\ 1 < i
        BY <1>4, <2>1
      <3>2. w # <<>> /\ w[1] = old[1]
        BY <1>3, <3>1, SlotTypes
      <3>3. QED
        BY <1>11, <3>2 DEF Takes
    <2>2. QED
      BY <2>1
  <1>13. ASSUME NEW p, KeptIn(old, p) PROVE KeptIn(w, p)
    <2>1. PICK j \in 1 .. m : Keeps(old[j], p)
      BY <1>1, <1>13 DEF KeptIn
    <2>2. j # i
      BY <2>1 DEF Keeps
    <2>3. PICK k : k = IF j < i THEN j ELSE j - 1
      OBVIOUS
    <2>4. k \in 1 .. m - 1 /\ (IF k < i THEN k ELSE k + 1) = j
      BY <1>4, <2>2, <2>3
    <2>5. w[k] = old[j]
      <3>1. CASE k < i
        BY <1>3, <2>4, <3>1
      <3>2. CASE ~(k < i)
        BY <1>3, <2>4, <3>2
      <3>3. QED
        BY <3>1, <3>2
    <2>6. QED
      BY <1>3, <2>1, <2>4, <2>5 DEF KeptIn
  <1>14. /\ q \in Seq(Items) /\ q # <<>> /\ Len(q) <= Capacity /\ InOrder(q)
         /\ \A k \in 1 .. Len(q) : q[k].t = v \/ \E j \in 1 .. m - 1 : q[k].t = w[j].t
         /\ \A p : KeptIn(w, p) /\ ~(class = "coalesce" /\ p.newest) => KeptIn(q, p)
         /\ \E k \in 1 .. Len(q) : q[k].v = v /\ q[k].class = class
    <2>1. /\ q \in Seq(Items) /\ q # <<>> /\ Len(q) <= Capacity /\ InOrder(q)
          /\ \A k \in 1 .. Len(q) : q[k].t = v \/ \E j \in 1 .. Len(w) : q[k].t = w[j].t
          /\ \A p : KeptIn(w, p) /\ ~(class = "coalesce" /\ p.newest) => KeptIn(q, p)
          /\ \E k \in 1 .. Len(q) : q[k].v = v /\ q[k].class = class
      BY <1>11, Zenon DEF Takes
    <2>2. QED
      BY <1>3, <2>1, Zenon
  <1>15. \A k \in 1 .. Len(q) : q[k].t = v \/ \E j \in 1 .. Len(old) : q[k].t = old[j].t
    <2>1. \A j \in 1 .. m - 1 : \E k \in 1 .. Len(old) : w[j].t = old[k].t
      BY <1>1, <1>9
    <2>2. QED
      <3>1. ASSUME NEW k \in 1 .. Len(q), q[k].t # v
            PROVE  \E j \in 1 .. Len(old) : q[k].t = old[j].t
        <4>1. PICK j \in 1 .. m - 1 : q[k].t = w[j].t
          BY <1>14, <3>1, Zenon
        <4>2. PICK l \in 1 .. Len(old) : w[j].t = old[l].t
          BY <2>1
        <4>3. QED
          BY <4>1, <4>2, Zenon
      <3>2. QED
        BY <3>1
  <1>16. Takes(old, q, busy, v, class)
    BY <1>12, <1>13, <1>14, <1>15 DEF Takes
  <1>17. QED
    BY <1>2, <1>16 DEF q

\* PlaceLocked on a sound entry, when the event is queued.
LEMMA PlaceTakes ==
    ASSUME NEW r \in EntryRecords, NEW f, NEW d \in Nat, NEW n \in Nat, Sound(r, f, d, n),
           NEW v, v = n + 1, NEW class \in Classes, Place(r, v, class).placed = "queued"
    PROVE  Takes(r.queue, Place(r, v, class).queue, r.delivering, v, class)
  <1> DEFINE match == {i \in Pending(r) : r.queue[i].class = "coalesce"}
             victim == {i \in Pending(r) : r.queue[i].class = "droppable"}
             item == [t |-> v, v |-> v, class |-> class]
  <1>1. PICK old \in Seq(Items) : old = r.queue
    BY EntryFields
  <1>2. PICK m \in Nat : m = Len(old)
    BY SlotTypes
  <1>3. v \in Nat \ {0}
    OBVIOUS
  <1>4. /\ InOrder(old) /\ Len(old) <= Capacity /\ \A i \in 1 .. Len(old) : old[i].t < v
    <2>1. QueueInOrder(old, d, n)
      BY <1>1 DEF Sound
    <2>2. InOrder(old) /\ Len(old) <= Capacity /\ \A i \in 1 .. Len(old) : old[i].t <= n
      BY <2>1 DEF QueueInOrder, InOrder
    <2>3. \A i \in 1 .. Len(old) : old[i].t \in Nat
      BY SlotTypes
    <2>4. ASSUME NEW i \in 1 .. Len(old) PROVE old[i].t < v
      <3>1. PICK k \in Nat : k = old[i].t
        BY <2>3
      <3>2. k <= n
        BY <2>2, <3>1
      <3>3. QED
        BY <3>1, <3>2
    <2>5. QED
      BY <2>2, <2>4
  <1>5. /\ match \subseteq 1 .. Len(old) /\ victim \subseteq 1 .. Len(old)
        /\ \A i \in match : (i > 1 \/ ~r.delivering) /\ old[i].class = "coalesce"
        /\ \A i \in victim : (i > 1 \/ ~r.delivering) /\ old[i].class = "droppable"
    BY <1>1, SlotTypes DEF Pending
  <1>6. Place(r, v, class) =
           IF class = "coalesce" /\ match # {}
           THEN [placed |-> "queued", queue |-> [old EXCEPT ![Oldest(match)].v = v]]
           ELSE IF Len(old) < Capacity
           THEN [placed |-> "queued", queue |-> Append(old, item)]
           ELSE IF victim # {}
           THEN [placed |-> "queued", queue |-> Append(Without(old, Oldest(victim)), item)]
           ELSE [placed |-> IF class = "droppable" THEN "dropped" ELSE "full", queue |-> old]
    BY <1>1, Zenon DEF Place
  <1> HIDE DEF match, victim
  <1>7. CASE class = "coalesce" /\ match # {}
    <2>0. match \subseteq Nat
      BY <1>2, <1>5
    <2>1. Oldest(match) \in match
      BY <1>7, <2>0, OldestIsOne
    <2>2. Takes(old, [old EXCEPT ![Oldest(match)].v = v], r.delivering, v, "coalesce")
      BY <1>3, <1>4, <1>5, <2>1, ReplaceTakes
    <2>3. Place(r, v, class).queue = [old EXCEPT ![Oldest(match)].v = v]
      <3>1. PICK z : z = [old EXCEPT ![Oldest(match)].v = v]
        OBVIOUS
      <3>2. Place(r, v, class) = [placed |-> "queued", queue |-> z]
        BY <1>6, <1>7, <3>1, Zenon
      <3>3. Place(r, v, class).queue = z
        BY <3>2
      <3>4. QED
        BY <3>1, <3>3, Zenon
    <2>4. QED
      BY <1>1, <1>7, <2>2, <2>3
  <1>8. CASE ~(class = "coalesce" /\ match # {}) /\ Len(old) < Capacity
    <2>1. Takes(old, Append(old, item), r.delivering, v, class)
      BY <1>3, <1>4, <1>8, AppendTakes
    <2>2. Place(r, v, class).queue = Append(old, item)
      BY <1>6, <1>8
    <2>3. QED
      BY <1>1, <2>1, <2>2
  <1>9. CASE ~(class = "coalesce" /\ match # {}) /\ ~(Len(old) < Capacity) /\ victim # {}
    <2>1. Oldest(victim) \in victim
      BY <1>2, <1>5, <1>9, OldestIsOne
    <2>2. Takes(old, Append(Without(old, Oldest(victim)), item), r.delivering, v, class)
      BY <1>3, <1>4, <1>5, <2>1, EvictTakes
    <2>3. Place(r, v, class).queue = Append(Without(old, Oldest(victim)), item)
      BY <1>6, <1>9
    <2>4. QED
      BY <1>1, <2>2, <2>3
  <1>10. CASE ~(class = "coalesce" /\ match # {}) /\ ~(Len(old) < Capacity) /\ victim = {}
    <2>1. Place(r, v, class) = [placed |-> IF class = "droppable" THEN "dropped" ELSE "full",
                                queue |-> old]
      BY <1>6, <1>10, Zenon
    <2>2. Place(r, v, class).placed # "queued"
      BY <2>1
    <2>3. QED
      BY <2>2
  <1>11. QED
    BY <1>7, <1>8, <1>9, <1>10

\* An enqueue into one entry: a claim follows when its chain is idle.
LEMMA EnqueueSound ==
    ASSUME NEW r \in EntryRecords, NEW f \in Flights, NEW d \in Nat, NEW n \in Nat,
           Sound(r, f, d, n), ~Refuses(r), NEW v, v = n + 1, NEW class \in Classes, NEW q,
           Takes(r.queue, q, r.delivering, v, class),
           NEW w, w = [r EXCEPT !.queue = q],
           NEW claims, claims = (~r.detached /\ r.async_mode /\ ~r.delivering),
           NEW s, s = IF claims THEN Claim(w) ELSE w,
           NEW g, g = IF claims THEN Claimed(w) ELSE f
    PROVE  /\ s \in EntryRecords /\ g \in Flights /\ Sound(s, g, d, v)
           /\ FrontClaimed(r, f) => FrontClaimed(s, g)
           /\ s.handle = r.handle /\ s.stopping = r.stopping /\ s.detached = r.detached
           /\ s.writer = r.writer
           /\ \A p : Kept(p, r, f) /\ ~(class = "coalesce" /\ p.newest) => Kept(p, s, g)
           /\ \A p : p.v = v /\ class = (IF p.newest THEN "coalesce" ELSE "reliable")
                       => Kept(p, s, g)
  <1>1. PICK old \in Seq(Items) : old = r.queue
    BY EntryFields
  <1>2. /\ q \in Seq(Items) /\ q # <<>> /\ Len(q) <= Capacity /\ InOrder(q)
        /\ \A i \in 1 .. Len(q) : q[i].t = v \/ \E j \in 1 .. Len(old) : q[i].t = old[j].t
        /\ r.delivering /\ old # <<>> => q[1] = old[1]
        /\ \A p : KeptIn(old, p) /\ ~(class = "coalesce" /\ p.newest) => KeptIn(q, p)
        /\ \E i \in 1 .. Len(q) : q[i].v = v /\ q[i].class = class
    BY <1>1, Zenon DEF Takes
  <1>3. w \in EntryRecords
    BY <1>2, EntryFields DEF EntryRecords
  <1>4. /\ w.handle = r.handle /\ w.queue = q /\ w.stopping = r.stopping /\ w.done = r.done
        /\ w.async_mode = r.async_mode /\ w.delivering = r.delivering
        /\ w.detached = r.detached /\ w.writer = r.writer /\ w.chain = r.chain
    BY DEF EntryRecords
  <1>5. v \in Nat /\ n < v
    OBVIOUS
  <1>6. Steady(w) /\ Holding(w, f)
    BY <1>4 DEF Sound, Steady, Holding
  <1>7. /\ \A i \in 1 .. Len(old) : d < old[i].t /\ old[i].t <= n /\ old[i].t \in Nat
        /\ d <= n
    BY <1>1, SlotTypes DEF Sound, QueueInOrder
  <1>8. ASSUME NEW i \in 1 .. Len(q)
        PROVE  q[i].t \in Nat /\ d < q[i].t /\ q[i].t <= v
    <2>1. CASE q[i].t = v
      BY <1>5, <1>7, <2>1
    <2>2. CASE q[i].t # v
      <3>1. PICK j \in 1 .. Len(old) : q[i].t = old[j].t
        BY <1>2, <2>2
      <3>2. PICK k \in Nat : k = old[j].t
        BY <1>7
      <3>3. d < k /\ k <= n
        BY <1>7, <3>2
      <3>4. QED
        BY <1>5, <3>1, <3>2, <3>3
    <2>3. QED
      BY <2>1, <2>2
  <1>9. QueueInOrder(w.queue, d, v)
    BY <1>2, <1>4, <1>5, <1>7, <1>8 DEF QueueInOrder, InOrder
  <1>10. /\ \A p : KeptIn(old, p) /\ ~(class = "coalesce" /\ p.newest) => KeptIn(w.queue, p)
         /\ \A p : p.v = v /\ class = (IF p.newest THEN "coalesce" ELSE "reliable")
                     => KeptIn(w.queue, p)
    BY <1>2, <1>4 DEF KeptIn, Keeps
  <1>11. CASE claims
    <2>1. s = Claim(w) /\ g = Claimed(w) /\ w.async_mode /\ r.async_mode
      BY <1>4, <1>11
    <2>2. /\ Claim(w) \in EntryRecords /\ Claimed(w) \in Flights
          /\ Sound(Claim(w), Claimed(w), d, v) /\ FrontClaimed(Claim(w), Claimed(w))
          /\ Claim(w).queue = w.queue /\ Claim(w).handle = w.handle
          /\ Claim(w).stopping = w.stopping /\ Claim(w).detached = w.detached
          /\ Claim(w).writer = w.writer
      BY <1>3, <1>5, <1>6, <1>9, <2>1, ClaimSound, ZenonT(30)
    <2>3. r.writer = "none"
      BY <2>1 DEF Sound, Steady
    <2>4. \A p : Kept(p, r, f) => KeptIn(old, p)
      BY <1>1, <2>3 DEF Kept, KeptIn
    <2>5. \A p : KeptIn(w.queue, p) => Kept(p, s, g)
      BY <2>1, <2>2 DEF Kept, KeptIn
    <2>6. QED
      BY <1>4, <1>10, <2>1, <2>2, <2>4, <2>5
  <1>12. CASE ~claims
    <2>1. s = w /\ g = f
      BY <1>12
    <2>2. HandInOrder(w, f, d, v)
      <3>1. HandInOrder(r, f, d, n)
        BY DEF Sound
      <3>2. f.item \in Items => f.item.t \in Nat
        BY DEF Items
      <3>3. f.item \in Items => d < f.item.t /\ f.item.t <= n /\ f.item.t <= v
        BY <1>5, <3>1, <3>2 DEF HandInOrder
      <3>4. ASSUME f.item \in Items, NEW i \in 1 .. Len(q)
            PROVE  /\ (\A j \in 1 .. Len(old) : f.item.t < old[j].t) => f.item.t < q[i].t
                   /\ (\A j \in 1 .. Len(old) : f.item.t <= old[j].t) => f.item.t <= q[i].t
        <4>1. PICK a \in Nat : a = f.item.t
          BY <3>2, <3>4
        <4>2. a <= n
          BY <3>3, <3>4, <4>1
        <4>3. CASE q[i].t = v
          BY <1>5, <4>1, <4>2, <4>3
        <4>4. CASE q[i].t # v
          <5>1. PICK j \in 1 .. Len(old) : q[i].t = old[j].t
            BY <1>2, <4>4
          <5>2. QED
            BY <5>1
        <4>5. QED
          BY <4>3, <4>4
      <3>5. w.writer = "send" \/ w.chain # "idle" => f.item \in Items
        BY <1>6 DEF Holding
      <3>6. /\ w.writer = "send" => \A j \in 1 .. Len(old) : f.item.t < old[j].t
            /\ w.chain # "idle" => \A j \in 1 .. Len(old) : f.item.t <= old[j].t
        BY <1>1, <1>4, <3>1 DEF HandInOrder
      <3>7. /\ w.writer = "send" => \A i \in 1 .. Len(q) : f.item.t < q[i].t
            /\ w.chain # "idle" => \A i \in 1 .. Len(q) : f.item.t <= q[i].t
        BY <3>4, <3>5, <3>6
      <3>8. QED
        BY <1>4, <3>3, <3>7 DEF HandInOrder
    <2>3. FrontClaimed(r, f) => FrontClaimed(w, f)
      <3>1. ASSUME FrontClaimed(r, f), r.chain # "idle" PROVE q[1] = f.item
        <4>1. old # <<>>
          BY <1>1, <3>1, EntryFields, Constants DEF FrontClaimed, Refuses
        <4>2. old[1] = f.item
          BY <1>1, <3>1, <4>1 DEF FrontClaimed
        <4>3. r.delivering
          BY <3>1, EntryFields DEF Sound, Holding
        <4>4. QED
          BY <1>2, <4>1, <4>2, <4>3
      <3>2. QED
        BY <1>2, <1>4, <3>1 DEF FrontClaimed
    <2>4. \A p : Kept(p, r, f) <=> KeptIn(old, p) \/ (r.writer = "send" /\ Keeps(f.item, p))
      BY <1>1 DEF Kept, KeptIn
    <2>5. \A p : Kept(p, w, f) <=> KeptIn(w.queue, p) \/ (r.writer = "send" /\ Keeps(f.item, p))
      BY <1>4 DEF Kept, KeptIn
    <2>6. Sound(w, f, d, v)
      BY <1>6, <1>9, <2>2 DEF Sound
    <2>7. QED
      BY <1>3, <1>4, <1>10, <2>1, <2>3, <2>4, <2>5, <2>6
  <1>13. QED
    BY <1>11, <1>12

-----------------------------------------------------------------------------
\* Steps that leave the entries alone.

\* What is known of the map.
LEMMA MapFacts ==
    ASSUME IInv
    PROVE  /\ entries \in Nat /\ dials \in Nat /\ entries <= dials /\ dials <= Dials
           /\ 1 .. entries \subseteq Entries /\ 1 .. dials \subseteq Conns
           /\ Registered \subseteq 1 .. entries /\ retired \subseteq 1 .. entries
           /\ firing \subseteq 1 .. entries
           /\ \A id \in Ids : sessions[id] # None => sessions[id] \in Registered
           /\ \A e \in Registered : e # None /\ e \in Entries /\ e \notin firing
                                    /\ expiries[e] = 0 /\ e \notin retired
                                    /\ entry[e].handle \in 1 .. dials
  <1>1. /\ entries \in Nat /\ dials \in Nat /\ entries <= dials /\ dials <= Dials
        /\ retired \subseteq 1 .. entries /\ firing \subseteq 1 .. entries
        /\ sessions \in [Ids -> 0 .. entries]
    BY Constants DEF IInv, TypeOK, MapInv
  <1>2. 1 .. entries \subseteq Entries /\ 1 .. dials \subseteq Conns
    BY <1>1, Constants DEF Entries, Conns
  <1>3. Registered \subseteq 1 .. entries
    BY <1>1 DEF Registered, None
  <1>4. \A id \in Ids : sessions[id] # None => sessions[id] \in Registered
    BY DEF Registered
  <1>5. ASSUME NEW e \in Registered
        PROVE  /\ e # None /\ e \in Entries /\ e \notin firing /\ expiries[e] = 0
               /\ e \notin retired /\ entry[e].handle \in 1 .. dials
    <2>1. e # None /\ e \in Entries /\ e <= entries /\ e \in Nat
      BY <1>1, <1>2, <1>3 DEF None
    <2>2. expiries[e] \in Nat
      BY <2>1 DEF IInv, TypeOK
    <2>3. ~(e \in firing \/ expiries[e] > 0)
      BY <2>1 DEF IInv, ExpiryOrResume
    <2>4. e \notin retired /\ entry[e].handle \in 1 .. dials
      BY <2>1 DEF IInv, MapInv
    <2>5. QED
      BY <2>1, <2>2, <2>3, <2>4
  <1>6. QED
    BY <1>1, <1>2, <1>3, <1>4, <1>5

\* A call in progress is at entries that were made, or at one that was full.
CallerOK(c, made) ==
    /\ c \in Callers /\ c.targets \cup {c.full} \subseteq 0 .. made
    /\ c.targets # {} \/ c.full # None
\* So is every call in progress.
LEMMA CallersOK ==
    ASSUME IInv
    PROVE  \A c \in callers : CallerOK(c, entries)
  BY DEF IInv, TypeOK, MapInv, CallerOK, Callers

\* Connections, calls and threads may change, and a detached registered entry
\* may be resumed.
Quiet ==
    /\ UNCHANGED <<sessions, retired, entry, entries, flight, firing, expiries, life,
                   enqueued, promised, last>>
    /\ dials' \in 0 .. Dials /\ dials <= dials' /\ open' \subseteq 1 .. dials'
    /\ to_close' \subseteq 1 .. dials' /\ io_blocked' \in 0 .. IoCallers /\ calls' \in 0 .. Calls
    /\ \A c \in callers' : CallerOK(c, entries)
    /\ resuming' = resuming \/ (resuming' \in Registered /\ entry[resuming'].detached /\ life = "up")

\* Such a step keeps the invariant.
LEMMA QuietStep ==
    ASSUME IInv, Quiet
    PROVE  IInv'
  <1>0. TypeOK /\ MapInv /\ NoOrphanWriter /\ ExpiryOrResume /\ EntryInv /\ PromiseInv
    BY DEF IInv
  <1>1. /\ sessions' = sessions /\ retired' = retired /\ entry' = entry /\ entries' = entries
        /\ flight' = flight /\ firing' = firing /\ expiries' = expiries /\ life' = life
        /\ enqueued' = enqueued /\ promised' = promised /\ last' = last
        /\ dials' \in 0 .. Dials /\ dials <= dials' /\ open' \subseteq 1 .. dials'
        /\ to_close' \subseteq 1 .. dials' /\ io_blocked' \in 0 .. IoCallers
        /\ calls' \in 0 .. Calls
        /\ \A c \in callers' : CallerOK(c, entries)
        /\ resuming' = resuming \/ (resuming' \in Registered /\ entry[resuming'].detached
                                    /\ life = "up")
    BY Zenon DEF Quiet
  <1>2. Registered' = Registered
    BY <1>1 DEF Registered
  <1>3. /\ \A c \in callers' : c \in Callers /\ (c.targets # {} \/ c.full # None)
        /\ \A c \in callers' : c.targets \cup {c.full} \subseteq 0 .. entries
    BY <1>1 DEF CallerOK
  <1>4. /\ entries \in Nat /\ dials \in Nat /\ dials' \in Nat /\ entries <= dials'
        /\ 1 .. dials \subseteq 1 .. dials'
    BY <1>1, MapFacts, Constants
  <1>5. /\ resuming' \in 0 .. entries
        /\ resuming' # None => resuming' \in Registered /\ entry[resuming'].detached /\ life = "up"
    BY <1>0, <1>1, MapFacts DEF TypeOK, MapInv
  <1>6. TypeOK'
    <2>1. callers' \subseteq Callers
      BY <1>3
    <2>2. QED
      BY <1>0, <1>1, <1>3, <1>5, <2>1 DEF TypeOK, Callers
  <1>7. MapInv'
    <2>1. ASSUME NEW e \in Entries, e <= entries PROVE entry[e].handle \in 1 .. dials'
      BY <1>0, <1>4, <2>1 DEF MapInv
    <2>2. QED
      BY <1>0, <1>1, <1>2, <1>3, <1>4, <1>5, <2>1 DEF MapInv
  <1>8. NoOrphanWriter'
    BY <1>0, <1>1, <1>2 DEF NoOrphanWriter, Joinable
  <1>9. ExpiryOrResume'
    <2> SUFFICES ASSUME NEW e \in Entries
                 PROVE  /\ expiries[e] + (IF e \in firing THEN 1 ELSE 0) <= 1
                        /\ (e \in firing \/ expiries[e] > 0) =>
                             e \notin Registered /\ e # resuming' /\ entry[e].detached
      BY <1>1, <1>2 DEF ExpiryOrResume
    <2>1. QED
      BY <1>0, <1>1 DEF ExpiryOrResume
  <1>10. EntryInv' /\ PromiseInv'
    BY <1>0, <1>1, <1>2 DEF EntryInv, PromiseInv
  <1>11. QED
    BY <1>6, <1>7, <1>8, <1>9, <1>10 DEF IInv

\* Nothing at all happens.
LEMMA StutterStep ==
    ASSUME IInv, UNCHANGED vars
    PROVE  IInv'
  <1>1. /\ UNCHANGED <<sessions, retired, entry, entries, flight, firing, expiries, life,
                       enqueued, promised, last>>
        /\ UNCHANGED <<resuming, callers, io_blocked, to_close, dials, open, calls>>
    BY Zenon DEF vars
  <1>2. /\ dials \in 0 .. Dials /\ dials <= dials /\ open \subseteq 1 .. dials
        /\ to_close \subseteq 1 .. dials /\ io_blocked \in 0 .. IoCallers /\ calls \in 0 .. Calls
    BY MapFacts DEF IInv, TypeOK
  <1>3. Quiet
    BY <1>1, <1>2, CallersOK DEF Quiet
  <1>4. QED
    BY <1>3, QuietStep

\* An id is resumed: the registry lock is held for it until its deliverer is
\* quiet.
LEMMA ResumeStep ==
    ASSUME IInv, NEW id \in Ids, Resume(id)
    PROVE  IInv'
  <1>1. /\ UNCHANGED <<sessions, retired, entry, entries, flight, firing, expiries, life,
                       enqueued, promised, last>>
        /\ UNCHANGED <<callers, io_blocked, to_close, calls>>
        /\ life = "up" /\ dials < Dials /\ dials' = dials + 1
        /\ open' = open \cup {dials + 1} /\ resuming' = sessions[id]
        /\ sessions[id] # None /\ entry[sessions[id]].detached
    BY Zenon DEF Resume, LockFree, maps, graces, history
  <1>2. /\ open \subseteq 1 .. dials /\ to_close \subseteq 1 .. dials
        /\ io_blocked \in 0 .. IoCallers /\ calls \in 0 .. Calls
    BY DEF IInv, TypeOK
  <1>3. dials \in Nat /\ dials + 1 \in 0 .. Dials /\ dials <= dials + 1
    BY <1>1, MapFacts, Constants
  <1>4. open' \subseteq 1 .. dials' /\ to_close \subseteq 1 .. dials'
    BY <1>1, <1>2, <1>3
  <1>5. Quiet
    BY <1>1, <1>2, <1>3, <1>4, MapFacts, CallersOK DEF Quiet
  <1>6. QED
    BY <1>5, QuietStep

\* A connection is closed or dies, whoever closes it; a thread of the
\* transport waits for the lock.
LEMMA ConnectionStep ==
    ASSUME IInv,
           \/ \E id \in Ids : CloseOrKick(id)
           \/ \E c \in Conns : ConnectionDies(c)
           \/ \E c \in to_close : CloseHandle(c)
           \/ CloseAll \/ IoCallBlocks
    PROVE  IInv'
  <1>1. /\ UNCHANGED <<sessions, retired, entry, entries, flight, firing, expiries, life,
                       enqueued, promised, last>>
        /\ UNCHANGED <<resuming, callers, calls, dials>>
    BY Zenon DEF CloseOrKick, ConnectionDies, CloseHandle, CloseAll, IoCallBlocks, maps, graces,
                 wires, history
  <1>2. open' \subseteq open /\ to_close' \subseteq to_close
    BY DEF CloseOrKick, ConnectionDies, CloseHandle, CloseAll, IoCallBlocks, wires
  <1>3. io_blocked \in 0 .. IoCallers
    BY DEF IInv, TypeOK
  <1>4. io_blocked' \in 0 .. IoCallers
    BY <1>3, Constants DEF CloseOrKick, ConnectionDies, CloseHandle, CloseAll, IoCallBlocks
  <1>5. /\ dials \in 0 .. Dials /\ dials <= dials /\ open \subseteq 1 .. dials
        /\ to_close \subseteq 1 .. dials /\ calls \in 0 .. Calls
    BY MapFacts DEF IInv, TypeOK
  <1>6. Quiet
    BY <1>1, <1>2, <1>4, <1>5, CallersOK DEF Quiet
  <1>7. QED
    BY <1>6, QuietStep

\* SendTo and Broadcast look their recipients up.
LEMMA BroadcastStep ==
    ASSUME IInv, NEW ids \in SUBSET Ids, NEW class \in Classes, Broadcast(ids, class)
    PROVE  IInv'
  <1> DEFINE targets == {sessions[id] : id \in ids} \ {None}
             c == [call |-> calls + 1, class |-> class, targets |-> targets, full |-> None]
  <1>1. /\ UNCHANGED <<sessions, retired, entry, entries, flight, firing, expiries, life,
                       enqueued, promised, last>>
        /\ UNCHANGED <<resuming, io_blocked, to_close, dials, open>>
        /\ calls < Calls /\ calls' = calls + 1
        /\ callers' = IF targets = {} THEN callers ELSE callers \cup {c}
    BY Zenon DEF Broadcast, maps, graces, wires
  <1>2. targets \subseteq 1 .. entries /\ targets \subseteq Entries
    BY MapFacts
  <1>3. calls + 1 \in 1 .. Calls /\ calls + 1 \in 0 .. Calls
    BY <1>1, Constants DEF IInv, TypeOK
  <1> HIDE DEF targets
  <1>4. c \in Callers /\ c.targets = targets /\ c.full = None
    BY <1>2, <1>3 DEF Callers
  <1> HIDE DEF c
  <1>5. entries \in Nat /\ None \in 0 .. entries
    BY MapFacts DEF None
  <1>6. targets # {} => CallerOK(c, entries)
    <2>1. targets \cup {None} \subseteq 0 .. entries
      BY <1>2, <1>5
    <2>2. QED
      BY <1>4, <2>1 DEF CallerOK
  <1>7. \A x \in callers' : CallerOK(x, entries)
    BY <1>1, <1>6, CallersOK
  <1>8. /\ dials \in 0 .. Dials /\ dials <= dials /\ open \subseteq 1 .. dials
        /\ to_close \subseteq 1 .. dials /\ io_blocked \in 0 .. IoCallers
    BY MapFacts DEF IInv, TypeOK
  <1>9. Quiet
    BY <1>1, <1>3, <1>7, <1>8 DEF Quiet
  <1>10. QED
    BY <1>9, QuietStep

\* A caller's next step: without a recipient, with the full one or without.
LEMMA CallerGoesOn ==
    ASSUME NEW made \in Nat, NEW c, CallerOK(c, made),
           NEW x \in Callers, x.targets \subseteq c.targets, x.full \in c.targets \cup {None},
           x.targets # {} \/ x.full # None
    PROVE  CallerOK(x, made)
  <1>1. c.targets \subseteq 0 .. made /\ None \in 0 .. made
    BY DEF CallerOK, None
  <1>2. x.targets \cup {x.full} \subseteq 0 .. made
    BY <1>1
  <1>3. QED
    BY <1>2 DEF CallerOK

\* Close-on-full closes the full entry's handle and the call goes on.
LEMMA SlowConsumerStep ==
    ASSUME IInv, NEW c \in callers, SlowConsumer(c)
    PROVE  IInv'
  <1>1. /\ UNCHANGED <<sessions, retired, entry, entries, flight, firing, expiries, life,
                       enqueued, promised, last>>
        /\ UNCHANGED <<resuming, calls, dials, to_close, io_blocked>>
        /\ open' = open \ {entry[c.full].handle}
        /\ callers' = (callers \ {c}) \cup
                      (IF c.targets = {} THEN {} ELSE {[c EXCEPT !.full = None]})
    BY Zenon DEF SlowConsumer, maps, graces, history
  <1>2. CallerOK(c, entries) /\ c \in Callers /\ entries \in Nat
    BY CallersOK, MapFacts DEF CallerOK
  <1>3. PICK x : x = [c EXCEPT !.full = None]
    OBVIOUS
  <1>4. c.targets # {} => CallerOK(x, entries)
    <2>1. x \in Callers /\ x.targets = c.targets /\ x.full = None
      BY <1>2, <1>3 DEF Callers
    <2>2. QED
      BY <1>2, <2>1, CallerGoesOn
  <1>5. \A y \in callers' : CallerOK(y, entries)
    BY <1>1, <1>3, <1>4, CallersOK
  <1>6. /\ dials \in 0 .. Dials /\ dials <= dials /\ open \subseteq 1 .. dials
        /\ to_close \subseteq 1 .. dials /\ io_blocked \in 0 .. IoCallers /\ calls \in 0 .. Calls
    BY MapFacts DEF IInv, TypeOK
  <1>7. Quiet
    BY <1>1, <1>5, <1>6 DEF Quiet
  <1>8. QED
    BY <1>7, QuietStep

-----------------------------------------------------------------------------
\* An enqueue.

\* The call that made it goes on.
LEMMA OnwardOK ==
    ASSUME IInv, NEW c \in callers, NEW e \in c.targets, NEW full \in {e, None},
           Onward(c, e, full)
    PROVE  \A y \in callers' : CallerOK(y, entries)
  <1> DEFINE x == [c EXCEPT !.targets = c.targets \ {e}, !.full = full]
  <1>1. callers' = (callers \ {c}) \cup (IF x.targets = {} /\ full = None THEN {} ELSE {x})
    BY DEF Onward
  <1>2. CallerOK(c, entries) /\ c \in Callers /\ entries \in Nat
    BY CallersOK, MapFacts DEF CallerOK
  <1>3. x \in Callers /\ x.targets = c.targets \ {e} /\ x.full = full
    BY <1>2 DEF Callers
  <1> HIDE DEF x
  <1>4. ~(x.targets = {} /\ full = None) => CallerOK(x, entries)
    <2>1. x.targets \subseteq c.targets /\ x.full \in c.targets \cup {None}
      BY <1>3
    <2>2. QED
      BY <1>2, <1>3, <2>1, CallerGoesOn
  <1>5. QED
    BY <1>1, <1>4, CallersOK

\* More events were taken: what was sound is sound.
LEMMA SoundGrows ==
    ASSUME NEW r \in EntryRecords, NEW f, NEW d \in Nat, NEW n \in Nat, Sound(r, f, d, n)
    PROVE  Sound(r, f, d, n + 1)
  <1>1. PICK q \in Seq(Items) : q = r.queue
    BY EntryFields
  <1>2. QueueInOrder(q, d, n + 1)
    <2>1. QueueInOrder(q, d, n)
      BY <1>1 DEF Sound
    <2>2. \A i \in 1 .. Len(q) : q[i].t \in Nat
      BY SlotTypes
    <2>3. ASSUME NEW i \in 1 .. Len(q) PROVE d < q[i].t /\ q[i].t <= n + 1
      <3>1. PICK k \in Nat : k = q[i].t
        BY <2>2
      <3>2. d < k /\ k <= n
        BY <2>1, <3>1 DEF QueueInOrder
      <3>3. QED
        BY <3>1, <3>2
    <2>4. Len(q) <= Capacity /\ d <= n /\ \A i, j \in 1 .. Len(q) : i < j => q[i].t < q[j].t
      BY <2>1 DEF QueueInOrder
    <2>5. d <= n + 1
      BY <2>4
    <2>6. QED
      BY <2>3, <2>4, <2>5 DEF QueueInOrder
  <1>3. HandInOrder(r, f, d, n + 1)
    <2>1. HandInOrder(r, f, d, n)
      BY DEF Sound
    <2>2. ASSUME f.item \in Items PROVE d < f.item.t /\ f.item.t <= n + 1
      <3>1. PICK k \in Nat : k = f.item.t
        BY <2>2 DEF Items
      <3>2. d < k /\ k <= n
        BY <2>1, <2>2, <3>1 DEF HandInOrder
      <3>3. QED
        BY <3>1, <3>2
    <2>3. QED
      BY <2>1, <2>2 DEF HandInOrder
  <1>4. QED
    BY <1>1, <1>2, <1>3 DEF Sound

\* What is promised after an event was taken.
LEMMA PromiseFacts ==
    ASSUME NEW e \in Entries, NEW v \in Nat \ {0}, NEW class \in Classes
    PROVE  \A p \in Promise(e, v, class) :
             \/ p \in promised /\ ~(class = "coalesce" /\ p.e = e /\ p.newest)
             \/ /\ p \in Promises /\ p.e = e /\ p.v = v
                /\ class = IF p.newest THEN "coalesce" ELSE "reliable"
  <1>1. class \in {"reliable", "droppable", "coalesce"}
    BY Constants
  <1>2. CASE class = "reliable"
    <2>1. Promise(e, v, class) = promised \cup {[e |-> e, v |-> v, newest |-> FALSE]}
      BY <1>2 DEF Promise
    <2>2. PICK x : x = [e |-> e, v |-> v, newest |-> FALSE]
      OBVIOUS
    <2>3. x \in Promises /\ x.e = e /\ x.v = v /\ x.newest = FALSE
      BY <2>2 DEF Promises
    <2>4. QED
      BY <1>2, <2>1, <2>2, <2>3
  <1>3. CASE class = "coalesce"
    <2>1. Promise(e, v, class) = {p \in promised : ~(p.e = e /\ p.newest)}
                                   \cup {[e |-> e, v |-> v, newest |-> TRUE]}
      BY <1>3 DEF Promise
    <2>2. PICK x : x = [e |-> e, v |-> v, newest |-> TRUE]
      OBVIOUS
    <2>3. x \in Promises /\ x.e = e /\ x.v = v /\ x.newest = TRUE
      BY <2>2 DEF Promises
    <2>4. QED
      BY <1>3, <2>1, <2>2, <2>3
  <1>4. CASE class = "droppable"
    BY <1>4 DEF Promise
  <1>5. QED
    BY <1>1, <1>2, <1>3, <1>4

\* An event is enqueued for one recipient, or refused.
LEMMA EnqueueStep ==
    ASSUME IInv, NEW c \in callers, NEW e \in c.targets, Enqueue(c, e)
    PROVE  IInv'
  <1>0. TypeOK /\ MapInv /\ NoOrphanWriter /\ ExpiryOrResume /\ EntryInv /\ PromiseInv
    BY DEF IInv
  <1>1. /\ entry \in [Entries -> EntryRecords] /\ flight \in [Entries -> Flights]
        /\ last \in [Entries -> Nat]
    BY <1>0 DEF TypeOK, Flights
  <1>2. e \in Entries /\ e \in 1 .. entries /\ c.class \in Classes /\ entries \in Nat
    <2>1. c \in Callers /\ c.targets \subseteq 0 .. entries /\ entries \in Nat
      BY CallersOK, MapFacts DEF CallerOK
    <2>2. QED
      BY <2>1 DEF Callers, Entries
  <1>3. PICK class \in Classes : class = c.class
    BY <1>2
  <1>4. PICK r : r = entry[e]
    OBVIOUS
  <1>5. PICK f : f = flight[e]
    OBVIOUS
  <1>6. PICK d \in Nat : d = last[e]
    BY <1>1, <1>2
  <1>7. PICK n \in Nat : n = enqueued
    BY <1>2, EntryFacts
  <1>8. PICK v \in Nat \ {0} : v = n + 1
    OBVIOUS
  <1>9. /\ r \in EntryRecords /\ f \in Flights /\ Sound(r, f, d, n)
        /\ e \in Registered => FrontClaimed(r, f)
        /\ e \in Registered => \A p \in promised : p.e = e => Kept(p, r, f)
    BY <1>2, <1>4, <1>5, <1>6, <1>7, EntryFacts
  <1>10. PICK place : place = Place(r, v, class)
    OBVIOUS
  <1>11. PICK claims : claims = (~r.detached /\ r.async_mode /\ ~r.delivering)
    OBVIOUS
  <1>12. PICK w : w = [r EXCEPT !.queue = place.queue]
    OBVIOUS
  <1>13. /\ UNCHANGED <<sessions, retired, entries, resuming, io_blocked, firing, expiries,
                        to_close, life, dials, open, calls, last>>
         /\ IF Refuses(r) \/ place.placed # "queued"
            THEN /\ Onward(c, e, IF ~Refuses(r) /\ ~r.detached /\ place.placed = "full"
                                 THEN e ELSE None)
                 /\ UNCHANGED <<entry, flight, enqueued, promised>>
            ELSE /\ Onward(c, e, None)
                 /\ enqueued' = v
                 /\ promised' = Promise(e, v, class)
                 /\ entry' = [entry EXCEPT ![e] = IF claims THEN Claim(w) ELSE w]
                 /\ flight' = [flight EXCEPT ![e] = IF claims THEN Claimed(w) ELSE flight[e]]
    BY <1>3, <1>4, <1>7, <1>8, <1>10, <1>11, <1>12, Zenon DEF Enqueue, maps, graces, wires
  <1>14. \A y \in callers' : CallerOK(y, entries)
    <2>1. PICK full \in {e, None} : Onward(c, e, full)
      BY <1>13
    <2>2. QED
      BY <2>1, OnwardOK
  <1>15. CASE Refuses(r) \/ place.placed # "queued"
    <2>1. UNCHANGED <<entry, flight, enqueued, promised>>
      BY <1>13, <1>15, Zenon
    <2>2. /\ dials \in 0 .. Dials /\ dials <= dials /\ open \subseteq 1 .. dials
          /\ to_close \subseteq 1 .. dials /\ io_blocked \in 0 .. IoCallers /\ calls \in 0 .. Calls
      BY <1>0, MapFacts DEF TypeOK
    <2>3. Quiet
      BY <1>13, <1>14, <2>1, <2>2 DEF Quiet
    <2>4. QED
      BY <2>3, QuietStep
  <1>16. CASE ~Refuses(r) /\ place.placed = "queued"
    <2>1. PICK s : s = IF claims THEN Claim(w) ELSE w
      OBVIOUS
    <2>2. PICK g : g = IF claims THEN Claimed(w) ELSE f
      OBVIOUS
    <2>3. /\ enqueued' = v /\ promised' = Promise(e, v, class)
          /\ entry' = [entry EXCEPT ![e] = s] /\ flight' = [flight EXCEPT ![e] = g]
      BY <1>5, <1>13, <1>16, <2>1, <2>2, Zenon
    <2>4. Takes(r.queue, place.queue, r.delivering, v, class)
      BY <1>8, <1>9, <1>10, <1>16, PlaceTakes
    <2>5. /\ s \in EntryRecords /\ g \in Flights /\ Sound(s, g, d, v)
          /\ FrontClaimed(r, f) => FrontClaimed(s, g)
          /\ s.handle = r.handle /\ s.stopping = r.stopping /\ s.detached = r.detached
          /\ s.writer = r.writer
          /\ \A p : Kept(p, r, f) /\ ~(class = "coalesce" /\ p.newest) => Kept(p, s, g)
          /\ \A p : p.v = v /\ class = (IF p.newest THEN "coalesce" ELSE "reliable")
                      => Kept(p, s, g)
      BY <1>8, <1>9, <1>11, <1>12, <1>16, <2>1, <2>2, <2>4, EnqueueSound
    <2>6. /\ entry' \in [Entries -> EntryRecords] /\ flight' \in [Entries -> Flights]
          /\ \A x \in Entries : /\ entry'[x] = IF x = e THEN s ELSE entry[x]
                                /\ flight'[x] = IF x = e THEN g ELSE flight[x]
      BY <1>1, <2>3, <2>5
    <2>7. Registered' = Registered
      BY <1>13 DEF Registered
    <2>8. \A p \in promised' :
             \/ p \in promised /\ ~(class = "coalesce" /\ p.e = e /\ p.newest)
             \/ /\ p \in Promises /\ p.e = e /\ p.v = v
                /\ class = IF p.newest THEN "coalesce" ELSE "reliable"
      BY <1>2, <2>3, PromiseFacts
    <2>9. TypeOK'
      <3>1. promised' \subseteq Promises
        BY <1>0, <2>8 DEF TypeOK, Promises
      <3>2. callers' \subseteq Callers /\ \A y \in callers' : y.targets # {} \/ y.full # None
        BY <1>14 DEF CallerOK
      <3>3. enqueued' \in Nat
        BY <2>3
      <3>4. QED
        BY <1>0, <1>13, <2>6, <3>1, <3>2, <3>3 DEF TypeOK, Flights, Promises, Callers
    <2>10. MapInv'
      <3>1. ASSUME NEW x \in Entries
            PROVE  /\ ~entry'[x].stopping => x \in Registered
                   /\ x <= entries => entry'[x].handle \in 1 .. dials
                   /\ x > entries => expiries[x] = 0 /\ flight'[x] = Idle
        BY <1>0, <1>2, <1>4, <2>5, <2>6 DEF MapInv
      <3>2. resuming # None => entry'[resuming].detached
        <4>1. resuming # None => resuming \in Entries /\ entry[resuming].detached
          BY <1>0, Constants DEF TypeOK, MapInv, Entries, None
        <4>2. QED
          BY <1>4, <2>5, <2>6, <4>1
      <3>3. \A y \in callers' : y.targets \cup {y.full} \subseteq 0 .. entries
        BY <1>14 DEF CallerOK
      <3>4. QED
        BY <1>0, <1>13, <2>7, <3>1, <3>2, <3>3 DEF MapInv
    <2>11. NoOrphanWriter'
      <3> SUFFICES ASSUME NEW x \in Entries
                   PROVE  /\ Joinable(x)' => x \in Registered \cup retired
                          /\ x \in retired => entry'[x].stopping
        BY <1>13, <2>7 DEF NoOrphanWriter
      <3>1. /\ Joinable(x) => x \in Registered \cup retired
            /\ x \in retired => entry[x].stopping
        BY <1>0 DEF NoOrphanWriter
      <3>2. QED
        BY <1>4, <2>5, <2>6, <3>1 DEF Joinable
    <2>12. ExpiryOrResume'
      BY <1>0, <1>4, <1>13, <2>5, <2>6, <2>7 DEF ExpiryOrResume
    <2>13. EntryInv'
      <3> SUFFICES ASSUME NEW x \in Entries
                   PROVE  /\ Sound(entry'[x], flight'[x], last[x], v)
                          /\ x \in Registered => FrontClaimed(entry'[x], flight'[x])
        BY <1>13, <2>3, <2>7 DEF EntryInv
      <3>1. CASE x = e
        BY <1>6, <1>9, <2>5, <2>6, <3>1
      <3>2. CASE x # e
        <4>1. /\ Sound(entry[x], flight[x], last[x], n) /\ entry[x] \in EntryRecords
              /\ last[x] \in Nat
              /\ x \in Registered => FrontClaimed(entry[x], flight[x])
          BY <1>7, EntryFacts
        <4>2. Sound(entry[x], flight[x], last[x], v)
          BY <1>8, <4>1, SoundGrows
        <4>3. QED
          BY <2>6, <3>2, <4>1, <4>2
      <3>3. QED
        BY <3>1, <3>2
    <2>14. PromiseInv'
      <3> SUFFICES ASSUME NEW p \in promised'
                   PROVE  p.e <= entries /\ (p.e \in Registered => Kept(p, entry'[p.e], flight'[p.e]))
        BY <1>13, <2>7 DEF PromiseInv
      <3>1. CASE p \in promised /\ ~(class = "coalesce" /\ p.e = e /\ p.newest)
        <4>1. p.e \in Entries
          BY <1>0, <3>1 DEF TypeOK
        <4>2. p.e <= entries /\ (p.e \in Registered => Kept(p, entry[p.e], flight[p.e]))
          BY <1>0, <3>1 DEF PromiseInv
        <4>3. CASE p.e = e
          <5>1. p.e \in Registered => Kept(p, s, g)
            BY <1>4, <1>5, <2>5, <3>1, <4>2, <4>3
          <5>2. QED
            BY <1>2, <2>6, <4>2, <4>3, <5>1
        <4>4. CASE p.e # e
          BY <2>6, <4>1, <4>2, <4>4
        <4>5. QED
          BY <4>3, <4>4
      <3>2. CASE /\ p.e = e /\ p.v = v
                 /\ class = IF p.newest THEN "coalesce" ELSE "reliable"
        <4>1. Kept(p, s, g)
          BY <2>5, <3>2
        <4>2. QED
          BY <1>2, <2>6, <3>2, <4>1
      <3>3. QED
        BY <2>8, <3>1, <3>2
    <2>15. QED
      BY <2>9, <2>10, <2>11, <2>12, <2>13, <2>14 DEF IInv
  <1>17. QED
    BY <1>15, <1>16

\* on_expired runs for an entry expiry claimed.
LEMMA FireExpiryStep ==
    ASSUME IInv, NEW e \in Entries, FireExpiry(e)
    PROVE  IInv'
  <1>0. TypeOK /\ MapInv /\ NoOrphanWriter /\ ExpiryOrResume /\ EntryInv /\ PromiseInv
    BY DEF IInv
  <1>1. /\ e \in firing /\ firing' = firing \ {e}
        /\ expiries' = [expiries EXCEPT ![e] = expiries[e] + 1]
        /\ sessions' = sessions /\ retired' = retired /\ entry' = entry /\ entries' = entries
        /\ flight' = flight /\ resuming' = resuming /\ callers' = callers
        /\ io_blocked' = io_blocked /\ to_close' = to_close /\ life' = life
        /\ dials' = dials /\ open' = open /\ calls' = calls /\ enqueued' = enqueued
        /\ promised' = promised /\ last' = last
    BY Zenon DEF FireExpiry, maps, wires, history
  <1>2. expiries \in [Entries -> Nat] /\ expiries[e] \in Nat
    BY <1>0 DEF TypeOK
  <1>3. expiries' \in [Entries -> Nat]
        /\ \A x \in Entries : expiries'[x] = IF x = e THEN expiries[e] + 1 ELSE expiries[x]
    BY <1>1, <1>2
  <1>4. Registered' = Registered
    BY <1>1 DEF Registered
  <1>5. TypeOK'
    BY <1>0, <1>1, <1>3 DEF TypeOK
  <1>6. MapInv'
    <2>1. e \in 1 .. entries /\ entries \in Nat
      BY <1>0, <1>1 DEF TypeOK
    <2>2. QED
      BY <1>0, <1>1, <1>3, <1>4, <2>1 DEF MapInv
  <1>7. NoOrphanWriter'
    BY <1>0, <1>1, <1>4 DEF NoOrphanWriter, Joinable
  <1>8. ExpiryOrResume'
    <2> SUFFICES ASSUME NEW x \in Entries
                 PROVE  /\ expiries'[x] + (IF x \in firing' THEN 1 ELSE 0) <= 1
                        /\ (x \in firing' \/ expiries'[x] > 0) =>
                             x \notin Registered /\ x # resuming /\ entry[x].detached
      BY <1>1, <1>4 DEF ExpiryOrResume
    <2>1. /\ expiries[x] + (IF x \in firing THEN 1 ELSE 0) <= 1
          /\ (x \in firing \/ expiries[x] > 0) =>
               x \notin Registered /\ x # resuming /\ entry[x].detached
      BY <1>0 DEF ExpiryOrResume
    <2>2. QED
      BY <1>1, <1>2, <1>3, <2>1
  <1>9. EntryInv' /\ PromiseInv'
    BY <1>0, <1>1, <1>4 DEF EntryInv, PromiseInv
  <1>10. QED
    BY <1>5, <1>6, <1>7, <1>8, <1>9 DEF IInv

-----------------------------------------------------------------------------
\* Steps by which entries leave the map, are told to stop or are joined.

\* Entry r becomes s, its hand f staying what it is.
Yields(r, s, f, d, n) ==
    /\ s \in EntryRecords /\ Sound(s, f, d, n)
    /\ s.handle = r.handle /\ (r.detached => s.detached)
Shrinks ==
    /\ UNCHANGED <<entries, flight, resuming, callers, io_blocked, expiries, dials, calls,
                   enqueued, last>>
    /\ resuming = None /\ open' \subseteq open /\ to_close' \subseteq 1 .. dials
    /\ life' \in {"up", "expiring", "joining", "gone"}
    /\ sessions' \in [Ids -> 0 .. entries]
    /\ \A id \in Ids : sessions'[id] \in {sessions[id], None}
    /\ retired' \subseteq 1 .. entries /\ Registered' \cap retired' = {}
    /\ firing' \subseteq 1 .. entries
    /\ \A x \in firing' : x \in firing \/ (x \in Registered /\ x \notin Registered'
                                           /\ entry[x].detached)
    /\ entry' \in [Entries -> EntryRecords]
    /\ \A x \in Entries : /\ Yields(entry[x], entry'[x], flight[x], last[x], enqueued)
                          /\ x \in Registered' => FrontClaimed(entry'[x], flight[x])
                          /\ entry'[x].writer # "none" => x \in Registered' \cup retired'
                          /\ x \in retired' => entry'[x].stopping
                          /\ ~entry'[x].stopping => x \in Registered'
    /\ promised' \subseteq promised
    /\ \A p \in promised' : p.e \in Registered' => Kept(p, entry'[p.e], flight[p.e])

\* Such a step keeps the invariant.
LEMMA ShrinksStep ==
    ASSUME IInv, Shrinks
    PROVE  IInv'
  <1>0. TypeOK /\ MapInv /\ NoOrphanWriter /\ ExpiryOrResume /\ EntryInv /\ PromiseInv
    BY DEF IInv
  <1>1. /\ entries' = entries /\ flight' = flight /\ resuming' = resuming
        /\ callers' = callers /\ io_blocked' = io_blocked /\ expiries' = expiries
        /\ dials' = dials /\ calls' = calls /\ enqueued' = enqueued /\ last' = last
        /\ resuming = None /\ open' \subseteq open /\ to_close' \subseteq 1 .. dials
        /\ life' \in {"up", "expiring", "joining", "gone"}
        /\ sessions' \in [Ids -> 0 .. entries]
        /\ \A id \in Ids : sessions'[id] \in {sessions[id], None}
        /\ retired' \subseteq 1 .. entries /\ Registered' \cap retired' = {}
        /\ firing' \subseteq 1 .. entries
        /\ \A x \in firing' : x \in firing \/ (x \in Registered /\ x \notin Registered'
                                               /\ entry[x].detached)
        /\ entry' \in [Entries -> EntryRecords]
        /\ promised' \subseteq promised
        /\ \A p \in promised' : p.e \in Registered' => Kept(p, entry'[p.e], flight[p.e])
    BY Zenon DEF Shrinks
  <1>2. \A x \in Entries : /\ Yields(entry[x], entry'[x], flight[x], last[x], enqueued)
                           /\ x \in Registered' => FrontClaimed(entry'[x], flight[x])
                           /\ entry'[x].writer # "none" => x \in Registered' \cup retired'
                           /\ x \in retired' => entry'[x].stopping
                           /\ ~entry'[x].stopping => x \in Registered'
    BY Zenon DEF Shrinks
  <1>3. Registered' \subseteq Registered
    BY <1>1 DEF Registered
  <1>4. TypeOK'
    BY <1>0, <1>1 DEF TypeOK
  <1>5. MapInv'
    <2>1. \A x \in Entries : x <= entries => entry'[x].handle \in 1 .. dials
      BY <1>0, <1>2 DEF MapInv, Yields
    <2>2. \A id, jd \in Ids : sessions'[id] = sessions'[jd] /\ sessions'[id] # None => id = jd
      BY <1>0, <1>1 DEF MapInv
    <2>3. QED
      BY <1>0, <1>1, <1>2, <2>1, <2>2 DEF MapInv
  <1>6. NoOrphanWriter'
    BY <1>2 DEF NoOrphanWriter, Joinable
  <1>7. ExpiryOrResume'
    <2> SUFFICES ASSUME NEW x \in Entries
                 PROVE  /\ expiries[x] + (IF x \in firing' THEN 1 ELSE 0) <= 1
                        /\ (x \in firing' \/ expiries[x] > 0) =>
                             x \notin Registered' /\ x # resuming /\ entry'[x].detached
      BY <1>1 DEF ExpiryOrResume
    <2>1. /\ expiries[x] + (IF x \in firing THEN 1 ELSE 0) <= 1
          /\ (x \in firing \/ expiries[x] > 0) =>
               x \notin Registered /\ x # resuming /\ entry[x].detached
      BY <1>0 DEF ExpiryOrResume
    <2>2. entry[x].detached => entry'[x].detached
      BY <1>2 DEF Yields
    <2>3. x # None /\ x \in Nat
      BY Constants DEF Entries, None
    <2>4. x \in Registered => expiries[x] = 0
      BY MapFacts
    <2>5. expiries[x] \in Nat
      BY <1>0 DEF TypeOK
    <2>6. CASE x \in firing \/ x \notin firing'
      BY <1>1, <1>3, <2>1, <2>2, <2>3, <2>5, <2>6
    <2>7. CASE x \notin firing /\ x \in firing'
      <3>1. x \in Registered /\ x \notin Registered' /\ entry[x].detached
        BY <1>1, <2>7
      <3>2. QED
        BY <1>1, <2>2, <2>3, <2>4, <2>7, <3>1
    <2>8. QED
      BY <2>6, <2>7
  <1>8. EntryInv'
    BY <1>0, <1>1, <1>2, <1>3 DEF EntryInv, Yields
  <1>9. PromiseInv'
    BY <1>0, <1>1 DEF PromiseInv
  <1>10. QED
    BY <1>4, <1>5, <1>6, <1>7, <1>8, <1>9 DEF IInv

\* An entry that does not change.
LEMMA StaysSound ==
    ASSUME IInv, NEW x \in Entries
    PROVE  Yields(entry[x], entry[x], flight[x], last[x], enqueued)
  BY EntryFacts DEF Yields

\* ReapLocked joins the writers of some entries that have ended.
LEMMA JoinedSound ==
    ASSUME NEW es \in [Entries -> EntryRecords], NEW from, NEW x \in Entries,
           NEW r, NEW f, NEW d, NEW n, Yields(r, es[x], f, d, n),
           NEW j, j = Joined(from, es)[x]
    PROVE  /\ Yields(r, j, f, d, n) /\ j.stopping = es[x].stopping
           /\ j.handle = es[x].handle /\ j.detached = es[x].detached
           /\ FrontClaimed(es[x], f) => FrontClaimed(j, f)
           /\ \A p : Kept(p, es[x], f) => Kept(p, j, f)
           /\ j.writer # "none" => es[x].writer # "none" /\ x \notin Reapable(from, es)
  <1>1. j = IF x \in Reapable(from, es) THEN [es[x] EXCEPT !.writer = "none"] ELSE es[x]
    BY DEF Joined
  <1>2. es[x] \in EntryRecords /\ Sound(es[x], f, d, n)
    BY DEF Yields
  <1>3. CASE x \in Reapable(from, es)
    <2>1. es[x].writer = "none" \/ es[x].done
      BY <1>3 DEF Reapable
    <2>2. PICK k : k = [es[x] EXCEPT !.writer = "none"]
      OBVIOUS
    <2>3. /\ k \in EntryRecords /\ Sound(k, f, d, n)
          /\ FrontClaimed(es[x], f) => FrontClaimed(k, f)
          /\ \A p : Kept(p, es[x], f) => Kept(p, k, f)
          /\ k.stopping = es[x].stopping /\ k.handle = es[x].handle
          /\ k.detached = es[x].detached /\ k.writer = "none"
      BY <1>2, <2>1, <2>2, JoinSound
    <2>4. j = k
      BY <1>1, <1>3, <2>2, Zenon
    <2>5. QED
      BY <2>3, <2>4 DEF Yields
  <1>4. CASE x \notin Reapable(from, es)
    <2>1. j = es[x]
      BY <1>1, <1>4
    <2>2. QED
      BY <1>4, <2>1 DEF Yields
  <1>5. QED
    BY <1>3, <1>4

\* What Joined makes of the entries is entries.
LEMMA JoinedType ==
    ASSUME NEW es \in [Entries -> EntryRecords], NEW from,
           \A x \in Entries : Joined(from, es)[x] \in EntryRecords
    PROVE  Joined(from, es) \in [Entries -> EntryRecords]
  BY DEF Joined

\* ... and of one that was as it is.
LEMMA JoinedEntry ==
    ASSUME IInv, NEW es \in [Entries -> EntryRecords], NEW from, NEW x \in Entries,
           es[x] = entry[x], NEW j, j = Joined(from, es)[x]
    PROVE  /\ Yields(entry[x], j, flight[x], last[x], enqueued)
           /\ j.stopping = entry[x].stopping /\ j.detached = entry[x].detached
           /\ x \in Registered => FrontClaimed(j, flight[x])
           /\ \A p : Kept(p, entry[x], flight[x]) => Kept(p, j, flight[x])
           /\ j.writer # "none" => Joinable(x) /\ x \notin Reapable(from, es)
  <1>1. Yields(entry[x], es[x], flight[x], last[x], enqueued)
    BY StaysSound
  <1>2. /\ Yields(entry[x], j, flight[x], last[x], enqueued) /\ j.stopping = es[x].stopping
        /\ j.detached = es[x].detached
        /\ FrontClaimed(es[x], flight[x]) => FrontClaimed(j, flight[x])
        /\ \A p : Kept(p, es[x], flight[x]) => Kept(p, j, flight[x])
        /\ j.writer # "none" => es[x].writer # "none" /\ x \notin Reapable(from, es)
    BY <1>1, JoinedSound
  <1>3. x \in Registered => FrontClaimed(entry[x], flight[x])
    BY EntryFacts
  <1>4. QED
    BY <1>2, <1>3, Zenon DEF Joinable

\* An entry and its id leave the map; its writer, if any, retires.
LEMMA RemoveStep ==
    ASSUME IInv, NEW id \in Ids, Remove(id)
    PROVE  IInv'
  <1>0. TypeOK /\ MapInv /\ NoOrphanWriter /\ ExpiryOrResume /\ EntryInv /\ PromiseInv
    BY DEF IInv
  <1>1. PICK e : e = sessions[id]
    OBVIOUS
  <1>2. PICK es : es = Stopped(e)
    OBVIOUS
  <1>3. PICK from : from = Retires(e)
    OBVIOUS
  <1>4. /\ UNCHANGED <<entries, flight, resuming, callers, io_blocked, firing, expiries, to_close,
                       life, dials, open, calls, enqueued, last>>
        /\ resuming = None /\ e # None
        /\ sessions' = [sessions EXCEPT ![id] = None]
        /\ Settle(Slots(entry[e].queue))
        /\ retired' = from \ Reapable(from, es)
        /\ entry' = Joined(from, es)
    BY <1>1, <1>2, <1>3, Zenon DEF Remove, LockFree, graces, wires
  <1>5. /\ e \in Registered /\ e \in Entries /\ e \in 1 .. entries
        /\ retired \subseteq 1 .. entries /\ 1 .. entries \subseteq Entries
    BY <1>1, <1>4, MapFacts
  <1>6. entry \in [Entries -> EntryRecords] /\ sessions \in [Ids -> 0 .. entries]
    BY <1>0 DEF TypeOK
  <1>7. PICK s : s = [entry[e] EXCEPT !.stopping = TRUE, !.queue = <<>>]
    OBVIOUS
  <1>8. es = [entry EXCEPT ![e] = s]
    BY <1>2, <1>5, <1>6, <1>7 DEF Stopped
  <1>9. /\ s \in EntryRecords /\ Sound(s, flight[e], last[e], enqueued) /\ s.stopping
        /\ s.handle = entry[e].handle /\ s.writer = entry[e].writer /\ s.done = entry[e].done
        /\ s.detached = entry[e].detached
    <2>1. PICK r : r = entry[e]
      OBVIOUS
    <2>2. PICK f : f = flight[e]
      OBVIOUS
    <2>3. PICK d \in Nat : d = last[e]
      BY <1>5, EntryFacts
    <2>4. PICK n \in Nat : n = enqueued
      BY <1>5, EntryFacts
    <2>5. r \in EntryRecords /\ Sound(r, f, d, n)
      BY <1>5, <2>1, <2>2, <2>3, <2>4, EntryFacts
    <2>6. s = [r EXCEPT !.stopping = TRUE, !.queue = <<>>]
      BY <1>7, <2>1, Zenon
    <2>7. /\ s \in EntryRecords /\ Sound(s, f, d, n) /\ s.stopping /\ s.handle = r.handle
          /\ s.writer = r.writer /\ s.done = r.done /\ s.detached = r.detached
      BY <2>5, <2>6, StopSound, Zenon
    <2>8. QED
      BY <2>1, <2>2, <2>3, <2>4, <2>7
  <1>10. /\ es \in [Entries -> EntryRecords]
         /\ \A x \in Entries : es[x] = IF x = e THEN s ELSE entry[x]
    BY <1>6, <1>8, <1>9
  <1>11. sessions' \in [Ids -> 0 .. entries]
         /\ \A jd \in Ids : sessions'[jd] = IF jd = id THEN None ELSE sessions[jd]
    <2>1. None \in 0 .. entries
      BY MapFacts DEF None
    <2>2. QED
      BY <1>4, <1>6, <2>1
  <1>12. Registered' = Registered \ {e}
    <2>1. \A jd \in Ids : sessions[jd] = e => jd = id
      BY <1>0, <1>1, <1>4 DEF MapInv
    <2>2. QED
      BY <1>1, <1>11, <2>1 DEF Registered
  <1>13. /\ retired \subseteq from /\ from \subseteq retired \cup {e}
         /\ entry[e].writer # "none" => e \in from
    BY <1>3 DEF Retires, Joinable
  <1>14. retired' \subseteq 1 .. entries /\ Registered' \cap retired' = {}
    <2>1. Registered \cap retired = {}
      BY <1>0 DEF MapInv
    <2>2. QED
      BY <1>4, <1>5, <1>12, <1>13, <2>1
  <1>15. ASSUME NEW x \in Entries
         PROVE  /\ entry'[x] \in EntryRecords
                /\ Yields(entry[x], entry'[x], flight[x], last[x], enqueued)
                /\ x \in Registered' => FrontClaimed(entry'[x], flight[x])
                /\ entry'[x].writer # "none" => x \in Registered' \cup retired'
                /\ x \in retired' => entry'[x].stopping
                /\ ~entry'[x].stopping => x \in Registered'
                /\ x # e => \A p : Kept(p, entry[x], flight[x]) => Kept(p, entry'[x], flight[x])
    <2>1. /\ Joinable(x) => x \in Registered \cup retired
          /\ x \in retired => entry[x].stopping
          /\ ~entry[x].stopping => x \in Registered
      BY <1>0 DEF NoOrphanWriter, MapInv
    <2>2. CASE x = e
      <3>1. Yields(s, es[e], flight[e], last[e], enqueued)
        BY <1>5, <1>9, <1>10 DEF Yields
      <3>2. PICK j : j = entry'[e] /\ j = Joined(from, es)[e] /\ es[e] = s
        BY <1>4, <1>5, <1>10
      <3>3. /\ Yields(s, j, flight[e], last[e], enqueued) /\ j.stopping = s.stopping
            /\ j.handle = s.handle /\ j.detached = s.detached
            /\ j.writer # "none" => s.writer # "none" /\ e \notin Reapable(from, es)
        <4>1. /\ Yields(s, j, flight[e], last[e], enqueued) /\ j.stopping = es[e].stopping
              /\ j.handle = es[e].handle /\ j.detached = es[e].detached
              /\ j.writer # "none" => es[e].writer # "none" /\ e \notin Reapable(from, es)
          <5>1. j = Joined(from, es)[e] /\ es \in [Entries -> EntryRecords] /\ e \in Entries
            BY <1>5, <1>10, <3>2
          <5>2. QED
            BY <3>1, <5>1, JoinedSound, SMTT(30)
        <4>2. QED
          BY <3>2, <4>1, Zenon
      <3>4. j.writer # "none" => e \in retired'
        BY <1>4, <1>9, <1>13, <3>3
      <3>5. entry'[x] = j /\ x \notin Registered'
        BY <1>12, <2>2, <3>2
      <3>6. Yields(entry[e], j, flight[e], last[e], enqueued)
        BY <1>9, <3>3 DEF Yields
      <3>7. QED
        BY <1>9, <2>2, <3>3, <3>4, <3>5, <3>6 DEF Yields
    <2>3. CASE x # e
      <3>1. es[x] = entry[x] /\ es \in [Entries -> EntryRecords]
        BY <1>10, <2>3
      <3>2. PICK j : j = entry'[x] /\ j = Joined(from, es)[x]
        BY <1>4
      <3>3. /\ Yields(entry[x], j, flight[x], last[x], enqueued) /\ j.stopping = entry[x].stopping
            /\ x \in Registered => FrontClaimed(j, flight[x])
            /\ \A p : Kept(p, entry[x], flight[x]) => Kept(p, j, flight[x])
            /\ j.writer # "none" => Joinable(x) /\ x \notin Reapable(from, es)
        BY <3>1, <3>2, JoinedEntry
      <3>4. j.writer # "none" => x \in Registered' \cup retired'
        BY <1>4, <1>12, <1>13, <2>1, <2>3, <3>3 DEF Joinable
      <3>5. x \in Registered' => FrontClaimed(j, flight[x])
        BY <1>12, <3>3, EntryFacts
      <3>6. QED
        BY <1>4, <1>12, <1>13, <2>1, <2>3, <3>2, <3>3, <3>4, <3>5 DEF Yields
    <2>4. QED
      BY <2>2, <2>3
  <1>16. entry' \in [Entries -> EntryRecords]
    BY <1>4, <1>10, <1>15, JoinedType
  <1>17. promised' \subseteq promised
    BY <1>4 DEF Settle
  <1>18. \A p \in promised' : p.e \in Registered' => Kept(p, entry'[p.e], flight[p.e])
    <2>1. ASSUME NEW p \in promised', p.e \in Registered'
          PROVE  Kept(p, entry'[p.e], flight[p.e])
      <3>1. p.e \in Registered /\ p.e # e /\ p.e \in Entries
        BY <1>12, <2>1, MapFacts
      <3>2. Kept(p, entry[p.e], flight[p.e])
        BY <1>0, <1>17, <3>1 DEF PromiseInv
      <3>3. QED
        BY <1>15, <3>1, <3>2
    <2>2. QED
      BY <2>1
  <1>19. /\ open' \subseteq open /\ to_close' \subseteq 1 .. dials
         /\ life' \in {"up", "expiring", "joining", "gone"} /\ firing' \subseteq 1 .. entries
    BY <1>0, <1>4 DEF TypeOK
  <1>20. Shrinks
    BY <1>4, <1>11, <1>14, <1>15, <1>16, <1>17, <1>18, <1>19 DEF Shrinks
  <1>21. QED
    BY <1>20, ShrinksStep

\* Some detached entries expire: they leave the map, their writers retire.
LEMMA TakeExpiredStep ==
    ASSUME IInv, NEW claims, claims \subseteq Ghosts, TakeExpired(claims), resuming = None,
           UNCHANGED <<entries, flight, resuming, callers, io_blocked, to_close, dials, open, calls,
                       enqueued, promised, last, expiries>>,
           life' \in {"up", "expiring", "joining", "gone"}
    PROVE  IInv'
  <1>0. TypeOK /\ MapInv /\ NoOrphanWriter /\ ExpiryOrResume /\ EntryInv /\ PromiseInv
    BY DEF IInv
  <1>1. entry \in [Entries -> EntryRecords] /\ sessions \in [Ids -> 0 .. entries]
    BY <1>0 DEF TypeOK
  <1>2. PICK from : from = retired \cup {e \in claims : Joinable(e)}
    OBVIOUS
  <1>3. /\ sessions' = [id \in Ids |-> IF sessions[id] \in claims THEN None ELSE sessions[id]]
        /\ firing' = firing \cup claims
        /\ IF claims = {} THEN UNCHANGED <<retired, entry>>
           ELSE retired' = from \ Reapable(from, entry) /\ entry' = Joined(from, entry)
    BY <1>2, Zenon DEF TakeExpired
  <1>4. /\ claims \subseteq Registered /\ \A e \in claims : entry[e].detached
        /\ claims \subseteq 1 .. entries /\ retired \subseteq 1 .. entries
        /\ firing \subseteq 1 .. entries /\ 1 .. entries \subseteq Entries
        /\ Registered \cap retired = {}
    BY <1>0, MapFacts DEF Ghosts, MapInv
  <1>5. /\ sessions' \in [Ids -> 0 .. entries]
        /\ \A id \in Ids : sessions'[id] = IF sessions[id] \in claims THEN None ELSE sessions[id]
    <2>1. None \in 0 .. entries
      BY MapFacts DEF None
    <2>2. QED
      BY <1>1, <1>3, <2>1
  <1>6. Registered' = Registered \ claims
    <2>1. None \notin claims
      BY <1>4, MapFacts
    <2>2. QED
      BY <1>5, <2>1 DEF Registered
  <1>7. \A e \in claims : entry[e].stopping
    <2>1. ASSUME NEW e \in claims PROVE entry[e].stopping
      <3>1. e \in Entries /\ entry[e].detached
        BY <1>4
      <3>2. QED
        BY <3>1, EntryFacts DEF Sound, Steady
    <2>2. QED
      BY <2>1
  <1>8. /\ retired' \subseteq 1 .. entries /\ Registered' \cap retired' = {}
        /\ retired' \subseteq retired \cup claims
    BY <1>2, <1>3, <1>4, <1>6
  <1>9. ASSUME NEW x \in Entries
        PROVE  /\ entry'[x] \in EntryRecords
               /\ Yields(entry[x], entry'[x], flight[x], last[x], enqueued)
               /\ x \in Registered' => FrontClaimed(entry'[x], flight[x])
               /\ entry'[x].writer # "none" => x \in Registered' \cup retired'
               /\ x \in retired' => entry'[x].stopping
               /\ ~entry'[x].stopping => x \in Registered'
               /\ \A p : Kept(p, entry[x], flight[x]) => Kept(p, entry'[x], flight[x])
    <2>1. /\ Joinable(x) => x \in Registered \cup retired
          /\ x \in retired => entry[x].stopping
          /\ ~entry[x].stopping => x \in Registered
      BY <1>0 DEF NoOrphanWriter, MapInv
    <2>2. CASE claims = {}
      <3>1. entry' = entry /\ retired' = retired
        BY <1>3, <2>2, Zenon
      <3>2. QED
        BY <1>1, <1>6, <2>1, <2>2, <3>1, StaysSound, EntryFacts DEF Joinable
    <2>3. CASE claims # {}
      <3>1. retired' = from \ Reapable(from, entry) /\ entry' = Joined(from, entry)
        BY <1>3, <2>3, Zenon
      <3>2. PICK j : j = entry'[x] /\ j = Joined(from, entry)[x]
        BY <3>1
      <3>3. /\ Yields(entry[x], j, flight[x], last[x], enqueued) /\ j.stopping = entry[x].stopping
            /\ x \in Registered => FrontClaimed(j, flight[x])
            /\ \A p : Kept(p, entry[x], flight[x]) => Kept(p, j, flight[x])
            /\ j.writer # "none" => Joinable(x) /\ x \notin Reapable(from, entry)
        BY <1>1, <3>2, JoinedEntry
      <3>4. j.writer # "none" => x \in Registered' \cup retired'
        BY <1>2, <1>6, <2>1, <3>1, <3>3
      <3>5. (x \in retired' => j.stopping) /\ (~j.stopping => x \in Registered')
        BY <1>6, <1>7, <1>8, <2>1, <3>3
      <3>6. QED
        BY <1>6, <3>2, <3>3, <3>4, <3>5 DEF Yields
    <2>4. QED
      BY <2>2, <2>3
  <1>10. entry' \in [Entries -> EntryRecords]
    <2>1. CASE claims = {}
      BY <1>1, <1>3, <2>1
    <2>2. CASE claims # {}
      BY <1>1, <1>3, <1>9, <2>2, JoinedType
    <2>3. QED
      BY <2>1, <2>2
  <1>11. \A p \in promised' : p.e \in Registered' => Kept(p, entry'[p.e], flight[p.e])
    <2>1. ASSUME NEW p \in promised, p.e \in Registered'
          PROVE  Kept(p, entry'[p.e], flight[p.e])
      <3>1. p.e \in Registered /\ p.e \in Entries
        BY <1>6, <2>1, MapFacts
      <3>2. Kept(p, entry[p.e], flight[p.e])
        BY <1>0, <3>1 DEF PromiseInv
      <3>3. QED
        BY <1>9, <3>1, <3>2
    <2>2. QED
      BY <2>1
  <1>12. /\ open' \subseteq open /\ to_close' \subseteq 1 .. dials /\ promised' \subseteq promised
    BY <1>0 DEF TypeOK
  <1>13. /\ firing' \subseteq 1 .. entries
         /\ \A x \in firing' : x \in firing \/ (x \in Registered /\ x \notin Registered'
                                                /\ entry[x].detached)
         /\ \A id \in Ids : sessions'[id] \in {sessions[id], None}
    BY <1>3, <1>4, <1>5, <1>6
  <1>14. Shrinks
    BY <1>5, <1>8, <1>9, <1>10, <1>11, <1>12, <1>13 DEF Shrinks
  <1>15. QED
    BY <1>14, ShrinksStep

\* The expiry thread, ExpireDetachedNow and the destructor's first part.
LEMMA ExpiryStep ==
    ASSUME IInv, ExpiryLoop \/ ExpireDetachedNow \/ Destroy
    PROVE  IInv'
  <1>1. PICK claims : claims \subseteq Ghosts /\ TakeExpired(claims)
    BY DEF ExpiryLoop, ExpireDetachedNow, Destroy
  <1>2. /\ resuming = None
        /\ UNCHANGED <<entries, flight, resuming, callers, io_blocked, to_close, dials, open, calls,
                       enqueued, promised, last, expiries>>
    BY Zenon DEF ExpiryLoop, ExpireDetachedNow, Destroy, ExpiryMayClaim, LockFree, wires, history
  <1>3. life \in {"up", "expiring", "joining", "gone"}
    BY DEF IInv, TypeOK
  <1>4. life' \in {"up", "expiring", "joining", "gone"}
    BY <1>3 DEF ExpiryLoop, ExpireDetachedNow, Destroy
  <1>5. QED
    BY <1>1, <1>2, <1>4, TakeExpiredStep

\* The destructor closes and stops every entry left.
LEMMA DestroyStopsStep ==
    ASSUME IInv, DestroyStops
    PROVE  IInv'
  <1>0. TypeOK /\ MapInv /\ NoOrphanWriter /\ ExpiryOrResume /\ EntryInv /\ PromiseInv
    BY DEF IInv
  <1>1. entry \in [Entries -> EntryRecords]
    BY <1>0 DEF TypeOK
  <1>2. PICK all : all = Registered \cup retired
    OBVIOUS
  <1>3. /\ life = "expiring" /\ life' = "joining" /\ retired' = all
        /\ sessions' = [id \in Ids |-> None]
        /\ UNCHANGED <<entries, flight, resuming, callers, io_blocked, firing, expiries, to_close,
                       dials, calls, enqueued, last>>
    BY <1>2, Zenon DEF DestroyStops, graces
  <1>4. entry' = [e \in Entries |-> IF e \in all
                     THEN [entry[e] EXCEPT !.stopping = TRUE, !.queue = <<>>] ELSE entry[e]]
    BY <1>2, Zenon DEF DestroyStops
  <1>5. open' \subseteq open /\ promised' \subseteq promised
    <2>1. /\ open' = open \ {entry[e].handle : e \in Registered \cup retired}
          /\ Settle(UNION {Slots(entry[e].queue) : e \in Registered \cup retired})
      BY Zenon DEF DestroyStops
    <2>2. promised' \subseteq promised
      BY <2>1 DEF Settle
    <2>3. QED
      BY <2>1, <2>2
  <1>6. resuming = None
    BY <1>0, <1>3 DEF MapInv
  <1>7. all \subseteq 1 .. entries
    BY <1>2, MapFacts
  <1>8. sessions' \in [Ids -> 0 .. entries] /\ \A id \in Ids : sessions'[id] = None
    <2>1. None \in 0 .. entries
      BY MapFacts DEF None
    <2>2. QED
      BY <1>3, <2>1
  <1>9. Registered' = {}
    BY <1>8 DEF Registered
  <1>10. ASSUME NEW x \in Entries
        PROVE  /\ entry'[x] \in EntryRecords
               /\ Yields(entry[x], entry'[x], flight[x], last[x], enqueued)
               /\ entry'[x].writer # "none" => x \in retired'
               /\ entry'[x].stopping
    <2>1. /\ Joinable(x) => x \in Registered \cup retired
          /\ ~entry[x].stopping => x \in Registered
      BY <1>0 DEF NoOrphanWriter, MapInv
    <2>2. CASE x \in all
      <3>1. PICK r : r = entry[x]
        OBVIOUS
      <3>2. PICK d \in Nat : d = last[x]
        BY EntryFacts
      <3>3. PICK n \in Nat : n = enqueued
        BY EntryFacts
      <3>4. PICK f : f = flight[x]
        OBVIOUS
      <3>5. r \in EntryRecords /\ Sound(r, f, d, n)
        BY <3>1, <3>2, <3>3, <3>4, EntryFacts
      <3>6. PICK s : s = [r EXCEPT !.stopping = TRUE, !.queue = <<>>]
        OBVIOUS
      <3>7. entry'[x] = s
        <4>1. entry'[x] = IF x \in all THEN [entry[x] EXCEPT !.stopping = TRUE, !.queue = <<>>]
                                      ELSE entry[x]
          BY <1>4, Zenon
        <4>2. QED
          BY <2>2, <3>1, <3>6, <4>1, Zenon
      <3>8. /\ s \in EntryRecords /\ Sound(s, f, d, n) /\ s.stopping /\ s.handle = r.handle
            /\ s.detached = r.detached
        BY <3>5, <3>6, StopSound, Zenon
      <3>9. QED
        BY <1>3, <2>2, <3>1, <3>2, <3>3, <3>4, <3>7, <3>8 DEF Yields
    <2>3. CASE x \notin all
      <3>1. entry'[x] = entry[x]
        BY <1>4, <2>3, Zenon
      <3>2. QED
        BY <1>2, <2>1, <2>3, <3>1, StaysSound DEF Joinable, Yields
    <2>4. QED
      BY <2>2, <2>3
  <1>11. entry' \in [Entries -> EntryRecords]
    <2> DEFINE B(e) == IF e \in all THEN [entry[e] EXCEPT !.stopping = TRUE, !.queue = <<>>]
                                    ELSE entry[e]
    <2>1. entry' = [e \in Entries |-> B(e)]
      BY <1>4, Zenon
    <2> HIDE DEF B
    <2>2. QED
      BY <1>10, <2>1
  <1>12. /\ to_close' \subseteq 1 .. dials /\ firing' \subseteq 1 .. entries
    BY <1>0, <1>3 DEF TypeOK
  <1>13. Shrinks
    BY <1>3, <1>6, <1>7, <1>8, <1>9, <1>10, <1>11, <1>12, <1>5 DEF Shrinks
  <1>14. QED
    BY <1>13, ShrinksStep

\* The destructor joins the writers that are left, and nobody is orphaned.
LEMMA DestroyJoinsStep ==
    ASSUME IInv, DestroyJoins
    PROVE  IInv'
  <1>0. TypeOK /\ MapInv /\ NoOrphanWriter /\ ExpiryOrResume /\ EntryInv /\ PromiseInv
    BY DEF IInv
  <1>1. entry \in [Entries -> EntryRecords] /\ sessions \in [Ids -> 0 .. entries]
    BY <1>0 DEF TypeOK
  <1>2. /\ life = "joining" /\ life' = "gone" /\ retired' = {}
        /\ \A e \in retired : Joinable(e) => entry[e].done
        /\ entry' = [e \in Entries |-> IF e \in retired THEN [entry[e] EXCEPT !.writer = "none"]
                                                        ELSE entry[e]]
        /\ UNCHANGED <<sessions, entries, flight, resuming, callers, io_blocked, firing, expiries,
                       to_close, dials, open, calls, enqueued, promised, last>>
    BY Zenon DEF DestroyJoins, graces, wires, history
  <1>3. resuming = None
    BY <1>0, <1>2 DEF MapInv
  <1>4. Registered' = Registered
    BY <1>2 DEF Registered
  <1>5. ASSUME NEW x \in Entries
        PROVE  /\ entry'[x] \in EntryRecords
               /\ Yields(entry[x], entry'[x], flight[x], last[x], enqueued)
               /\ x \in Registered' => FrontClaimed(entry'[x], flight[x])
               /\ entry'[x].writer # "none" => x \in Registered
               /\ ~entry'[x].stopping => x \in Registered
               /\ \A p : Kept(p, entry[x], flight[x]) => Kept(p, entry'[x], flight[x])
    <2>1. /\ Joinable(x) => x \in Registered \cup retired
          /\ ~entry[x].stopping => x \in Registered
      BY <1>0 DEF NoOrphanWriter, MapInv
    <2>2. CASE x \in retired
      <3>1. x \in Reapable(retired, entry)
        BY <1>2, <2>2 DEF Reapable, Joinable
      <3>2. entry'[x] = Joined(retired, entry)[x]
        BY <1>2, <2>2, <3>1 DEF Joined
      <3>3. PICK j : j = entry'[x] /\ j = Joined(retired, entry)[x]
        BY <3>2
      <3>4. /\ Yields(entry[x], j, flight[x], last[x], enqueued) /\ j.stopping = entry[x].stopping
            /\ x \in Registered => FrontClaimed(j, flight[x])
            /\ \A p : Kept(p, entry[x], flight[x]) => Kept(p, j, flight[x])
            /\ j.writer # "none" => Joinable(x) /\ x \notin Reapable(retired, entry)
        BY <1>1, <3>3, JoinedEntry
      <3>5. QED
        BY <1>4, <2>1, <3>1, <3>3, <3>4 DEF Yields
    <2>3. CASE x \notin retired
      <3>1. entry'[x] = entry[x]
        BY <1>2, <2>3
      <3>2. QED
        BY <1>4, <2>1, <2>3, <3>1, StaysSound, EntryFacts DEF Joinable, Yields
    <2>4. QED
      BY <2>2, <2>3
  <1>6. entry' \in [Entries -> EntryRecords]
    BY <1>2, <1>5
  <1>7. \A p \in promised' : p.e \in Registered' => Kept(p, entry'[p.e], flight[p.e])
    <2>1. ASSUME NEW p \in promised, p.e \in Registered
          PROVE  Kept(p, entry'[p.e], flight[p.e])
      <3>1. p.e \in Entries
        BY <2>1, MapFacts
      <3>2. Kept(p, entry[p.e], flight[p.e])
        BY <1>0, <2>1 DEF PromiseInv
      <3>3. QED
        BY <1>5, <3>1, <3>2
    <2>2. QED
      BY <1>2, <1>4, <2>1
  <1>8. /\ to_close' \subseteq 1 .. dials /\ firing' \subseteq 1 .. entries
        /\ open' \subseteq open /\ promised' \subseteq promised
    BY <1>0, <1>2 DEF TypeOK
  <1>9. Shrinks
    BY <1>1, <1>2, <1>3, <1>4, <1>5, <1>6, <1>7, <1>8 DEF Shrinks
  <1>10. QED
    BY <1>9, ShrinksStep

\* An entry is parked: its delivery is told to stop.
LEMMA DetachStep ==
    ASSUME IInv, NEW id \in Ids, Detach(id)
    PROVE  IInv'
  <1>0. TypeOK /\ MapInv /\ NoOrphanWriter /\ ExpiryOrResume /\ EntryInv /\ PromiseInv
    BY DEF IInv
  <1>1. entry \in [Entries -> EntryRecords] /\ sessions \in [Ids -> 0 .. entries]
    BY <1>0 DEF TypeOK
  <1>2. PICK e : e = sessions[id]
    OBVIOUS
  <1>3. PICK r : r = entry[e]
    OBVIOUS
  <1>4. /\ UNCHANGED <<sessions, retired, entries, flight, resuming, callers, io_blocked, firing,
                       expiries, life, dials, open, calls, enqueued, last>>
        /\ resuming = None /\ e # None
        /\ entry' = [entry EXCEPT ![e].detached = TRUE, ![e].stopping = TRUE,
                                  ![e].queue = IF Retain THEN @ ELSE <<>>]
        /\ Settle(IF Retain THEN {} ELSE Slots(r.queue))
        /\ to_close' = to_close \cup {r.handle}
    BY <1>2, <1>3, Zenon DEF Detach, LockFree, maps, graces, wires
  <1>5. e \in Registered /\ e \in Entries /\ r.handle \in 1 .. dials /\ e \notin retired
    BY <1>2, <1>3, <1>4, MapFacts
  <1>6. PICK s : s = [r EXCEPT !.detached = TRUE, !.stopping = TRUE,
                               !.queue = IF Retain THEN r.queue ELSE <<>>]
    OBVIOUS
  <1>7. entry' = [entry EXCEPT ![e] = s]
    BY <1>1, <1>3, <1>4, <1>5, <1>6
  <1>8. PICK f : f = flight[e]
    OBVIOUS
  <1>9. PICK d \in Nat : d = last[e]
    BY <1>5, EntryFacts
  <1>10. PICK n \in Nat : n = enqueued
    BY <1>5, EntryFacts
  <1>11. /\ r \in EntryRecords /\ Sound(r, f, d, n) /\ FrontClaimed(r, f)
         /\ \A p \in promised : p.e = e => Kept(p, r, f)
    BY <1>3, <1>5, <1>8, <1>9, <1>10, EntryFacts
  <1>12. /\ s \in EntryRecords /\ Sound(s, f, d, n)
         /\ FrontClaimed(r, f) => FrontClaimed(s, f)
         /\ \A p : Kept(p, r, f) /\ (Retain \/ \A x \in Slots(r.queue) : x.v # p.v)
                     => Kept(p, s, f)
         /\ s.stopping /\ s.detached /\ s.handle = r.handle /\ s.writer = r.writer
    BY <1>6, <1>11, DetachSound, Zenon
  <1>13. /\ entry' \in [Entries -> EntryRecords]
         /\ \A x \in Entries : entry'[x] = IF x = e THEN s ELSE entry[x]
    BY <1>1, <1>7, <1>12
  <1>14. Registered' = Registered /\ Registered \cap retired = {}
    BY <1>0, <1>4 DEF Registered, MapInv
  <1>15. ASSUME NEW x \in Entries
         PROVE  /\ Yields(entry[x], entry'[x], flight[x], last[x], enqueued)
                /\ x \in Registered' => FrontClaimed(entry'[x], flight[x])
                /\ entry'[x].writer # "none" => x \in Registered' \cup retired'
                /\ x \in retired' => entry'[x].stopping
                /\ ~entry'[x].stopping => x \in Registered'
    <2>1. /\ Joinable(x) => x \in Registered \cup retired
          /\ x \in retired => entry[x].stopping
          /\ ~entry[x].stopping => x \in Registered
      BY <1>0 DEF NoOrphanWriter, MapInv
    <2>2. CASE x = e
      BY <1>3, <1>5, <1>8, <1>9, <1>10, <1>11, <1>12, <1>13, <1>14, <2>2 DEF Yields
    <2>3. CASE x # e
      <3>1. entry'[x] = entry[x]
        BY <1>13, <2>3
      <3>2. QED
        BY <1>4, <1>14, <2>1, <3>1, StaysSound, EntryFacts DEF Joinable
    <2>4. QED
      BY <2>2, <2>3
  <1>16. /\ promised' \subseteq promised
         /\ Retain \/ \A p \in promised' : \A x \in Slots(r.queue) : x.v # p.v
    BY <1>4, Constants DEF Settle
  <1>17. \A p \in promised' : p.e \in Registered' => Kept(p, entry'[p.e], flight[p.e])
    <2>1. ASSUME NEW p \in promised', p.e \in Registered
          PROVE  Kept(p, entry'[p.e], flight[p.e])
      <3>1. p.e \in Entries
        BY <2>1, MapFacts
      <3>2. Kept(p, entry[p.e], flight[p.e])
        BY <1>0, <1>16, <2>1 DEF PromiseInv
      <3>3. CASE p.e = e
        <4>1. Kept(p, s, f)
          BY <1>3, <1>8, <1>12, <1>16, <3>2, <3>3
        <4>2. QED
          BY <1>8, <1>13, <3>1, <3>3, <4>1
      <3>4. CASE p.e # e
        BY <1>13, <3>1, <3>2, <3>4
      <3>5. QED
        BY <3>3, <3>4
    <2>2. QED
      BY <1>14, <2>1
  <1>18. /\ open' \subseteq open /\ to_close' \subseteq 1 .. dials
         /\ life' \in {"up", "expiring", "joining", "gone"} /\ firing' \subseteq 1 .. entries
         /\ retired' \subseteq 1 .. entries
    BY <1>0, <1>4, <1>5 DEF TypeOK
  <1>19. Shrinks
    BY <1>1, <1>4, <1>13, <1>14, <1>15, <1>16, <1>17, <1>18 DEF Shrinks
  <1>20. QED
    BY <1>19, ShrinksStep

-----------------------------------------------------------------------------
\* Steps by which a session gets a connection.

\* A new entry under an id, or the ended writers joined only.
LEMMA AddStep ==
    ASSUME IInv, NEW id \in Ids, NEW supports \in BOOLEAN, Add(id, supports)
    PROVE  IInv'
  <1>0. TypeOK /\ MapInv /\ NoOrphanWriter /\ ExpiryOrResume /\ EntryInv /\ PromiseInv
    BY DEF IInv
  <1>1. /\ entry \in [Entries -> EntryRecords] /\ sessions \in [Ids -> 0 .. entries]
        /\ flight \in [Entries -> Flights] /\ expiries \in [Entries -> Nat]
    BY <1>0 DEF TypeOK, Flights
  <1>2. PICK e : e = entries + 1
    OBVIOUS
  <1>3. PICK async \in BOOLEAN : async = (Async /\ supports)
    BY Constants
  <1>4. PICK s : s = NewEntry(dials + 1, async)
    OBVIOUS
  <1>5. PICK new \in BOOLEAN : new = (sessions[id] = None)
    OBVIOUS
  <1>6. PICK es : es = IF new THEN [entry EXCEPT ![e] = s] ELSE entry
    OBVIOUS
  <1>7. PICK top : top = IF new THEN e ELSE entries
    OBVIOUS
  <1>8. /\ life = "up" /\ resuming = None /\ dials < Dials
        /\ dials' = dials + 1 /\ open' = open \cup {dials + 1}
        /\ retired' = retired \ Reapable(retired, entry)
        /\ UNCHANGED <<flight, resuming, callers, io_blocked, firing, expiries, to_close, life,
                       calls, enqueued, promised, last>>
    BY Zenon DEF Add, LockFree, graces, history
  <1>9. /\ sessions' = IF new THEN [sessions EXCEPT ![id] = e] ELSE sessions
        /\ entries' = top /\ entry' = Joined(retired, es)
    <2>1. CASE new
      BY <1>2, <1>3, <1>4, <1>5, <1>6, <1>7, <2>1, Zenon DEF Add
    <2>2. CASE ~new
      BY <1>2, <1>3, <1>4, <1>5, <1>6, <1>7, <2>2, Zenon DEF Add
    <2>3. QED
      BY <2>1, <2>2
  <1>10. /\ entries \in Nat /\ dials \in Nat /\ dials' \in Nat /\ dials' <= Dials
         /\ e \in Entries /\ e \in Nat /\ e > entries
         /\ dials + 1 \in Conns /\ top \in Nat /\ entries <= top /\ top <= dials'
         /\ top = IF new THEN entries + 1 ELSE entries
    BY <1>2, <1>7, <1>8, MapFacts, Constants DEF Entries, Conns
  <1>11. flight[e] = Idle /\ expiries[e] = 0 /\ e \notin firing /\ e \notin retired /\ e \notin Registered
    <2>1. flight[e] = Idle /\ expiries[e] = 0
      BY <1>0, <1>10 DEF MapInv
    <2>2. QED
      BY <1>10, <2>1, MapFacts
  <1>12. /\ s \in EntryRecords /\ Sound(s, Idle, last[e], enqueued) /\ FrontClaimed(s, Idle)
         /\ s.handle = dials + 1
    <2>1. PICK d \in Nat : d = last[e]
      BY <1>10, EntryFacts
    <2>2. PICK n \in Nat : n = enqueued
      BY <1>10, EntryFacts
    <2>3. d <= n
      BY <1>10, <2>1, <2>2, EntryFacts DEF Sound, QueueInOrder
    <2>4. s \in EntryRecords /\ Sound(s, Idle, d, n) /\ FrontClaimed(s, Idle) /\ s.handle = dials + 1
      <3>1. PICK c \in Conns : c = dials + 1
        BY <1>10
      <3>2. s = NewEntry(c, async)
        BY <1>4, <3>1
      <3>3. s \in EntryRecords /\ Sound(s, Idle, d, n) /\ FrontClaimed(s, Idle) /\ s.handle = c
        BY <2>3, <3>2, NewSound
      <3>4. QED
        BY <3>1, <3>3
    <2>5. QED
      BY <2>1, <2>2, <2>4
  <1>13. /\ es \in [Entries -> EntryRecords]
         /\ \A x \in Entries : es[x] = IF new /\ x = e THEN s ELSE entry[x]
    <2>1. CASE new
      BY <1>1, <1>6, <1>12, <2>1
    <2>2. CASE ~new
      BY <1>1, <1>6, <2>2
    <2>3. QED
      BY <2>1, <2>2
  <1>14. Reapable(retired, es) = Reapable(retired, entry)
    <2>1. \A x \in retired : es[x] = entry[x]
      <3>1. ASSUME NEW x \in retired PROVE es[x] = entry[x]
        <4>1. x \in Entries /\ x # e
          BY <1>11, MapFacts
        <4>2. QED
          BY <1>13, <4>1
      <3>2. QED
        BY <3>1
    <2>2. QED
      BY <2>1 DEF Reapable
  <1>15. /\ sessions' \in [Ids -> 0 .. top]
         /\ \A jd \in Ids : sessions'[jd] = IF new /\ jd = id THEN e ELSE sessions[jd]
    <2>1. \A jd \in Ids : sessions[jd] \in 0 .. top
      BY <1>1, <1>10
    <2>2. CASE new
      <3>1. e \in 0 .. top
        BY <1>2, <1>10, <2>2
      <3>2. QED
        BY <1>1, <1>9, <2>1, <2>2, <3>1
    <2>3. CASE ~new
      BY <1>1, <1>9, <2>1, <2>3
    <2>4. QED
      BY <2>2, <2>3
  <1>16. Registered' = IF new THEN Registered \cup {e} ELSE Registered
    <2>1. e # None
      BY <1>10 DEF None
    <2>2. new => sessions[id] = None
      BY <1>5
    <2>3. QED
      BY <1>15, <2>1, <2>2 DEF Registered
  <1>17. ASSUME new
         PROVE  entry'[e] = s
    <2>1. e \notin Reapable(retired, es)
      BY <1>11 DEF Reapable
    <2>2. QED
      BY <1>9, <1>10, <1>13, <1>17, <2>1 DEF Joined
  <1>18. ASSUME NEW x \in Entries, ~new \/ x # e
         PROVE  /\ Yields(entry[x], entry'[x], flight[x], last[x], enqueued)
                /\ entry'[x].stopping = entry[x].stopping
                /\ entry'[x].detached = entry[x].detached
                /\ x \in Registered => FrontClaimed(entry'[x], flight[x])
                /\ \A p : Kept(p, entry[x], flight[x]) => Kept(p, entry'[x], flight[x])
                /\ entry'[x].writer # "none" => Joinable(x) /\ x \notin Reapable(retired, entry)
    <2>1. es[x] = entry[x]
      BY <1>13, <1>18
    <2>2. PICK j : j = entry'[x] /\ j = Joined(retired, es)[x]
      BY <1>9
    <2>3. /\ Yields(entry[x], j, flight[x], last[x], enqueued)
          /\ j.stopping = entry[x].stopping /\ j.detached = entry[x].detached
          /\ x \in Registered => FrontClaimed(j, flight[x])
          /\ \A p : Kept(p, entry[x], flight[x]) => Kept(p, j, flight[x])
          /\ j.writer # "none" => Joinable(x) /\ x \notin Reapable(retired, es)
      BY <1>13, <2>1, <2>2, JoinedEntry
    <2>4. QED
      BY <1>14, <2>2, <2>3
  <1>19. entry' \in [Entries -> EntryRecords]
    <2>1. \A x \in Entries : entry'[x] \in EntryRecords
      BY <1>12, <1>17, <1>18 DEF Yields
    <2>2. QED
      BY <1>9, <1>13, <2>1, JoinedType
  <1>20. TypeOK'
    <2>1. /\ retired' \subseteq 1 .. top /\ firing \subseteq 1 .. top /\ resuming \in 0 .. top
          /\ top \in 0 .. Dials /\ dials' \in 0 .. Dials /\ open' \subseteq 1 .. dials'
          /\ to_close \subseteq 1 .. dials'
      <3>1. /\ 1 .. entries \subseteq 1 .. top /\ 0 .. entries \subseteq 0 .. top
            /\ 1 .. dials \subseteq 1 .. dials' /\ dials + 1 \in 1 .. dials'
            /\ top \in 0 .. Dials /\ dials' \in 0 .. Dials
        BY <1>8, <1>10, Constants
      <3>2. QED
        BY <1>0, <1>8, <3>1 DEF TypeOK
    <2>2. QED
      BY <1>0, <1>8, <1>9, <1>15, <1>19, <2>1 DEF TypeOK
  <1>21. MapInv'
    <2>1. \A a, b \in Ids : sessions'[a] = sessions'[b] /\ sessions'[a] # None => a = b
      <3>1. \A a \in Ids : sessions[a] # e
        BY <1>1, <1>10
      <3>2. \A a, b \in Ids : sessions[a] = sessions[b] /\ sessions[a] # None => a = b
        BY <1>0 DEF MapInv
      <3>3. QED
        BY <1>15, <3>1, <3>2
    <2>2. Registered' \cap retired' = {}
      BY <1>0, <1>8, <1>11, <1>16 DEF MapInv
    <2>3. ASSUME NEW x \in Entries
          PROVE  /\ ~entry'[x].stopping => x \in Registered'
                 /\ x <= top => entry'[x].handle \in 1 .. dials'
                 /\ x > top => expiries[x] = 0 /\ flight[x] = Idle
      <3>0. x \in Nat
        BY Constants DEF Entries
      <3>1. CASE new /\ x = e
        <4>1. entry'[x].handle \in 1 .. dials' /\ x \in Registered' /\ ~(x > top)
          <5>1. entry'[x].handle = dials + 1
            BY <1>12, <1>17, <3>1
          <5>2. dials + 1 \in 1 .. dials'
            BY <1>8, <1>10
          <5>3. x \in Registered' /\ x = top
            BY <1>7, <1>16, <3>1
          <5>4. QED
            BY <1>10, <5>1, <5>2, <5>3
        <4>2. QED
          BY <4>1
      <3>2. CASE ~(new /\ x = e)
        <4>1. /\ ~entry[x].stopping => x \in Registered
              /\ x <= entries => entry[x].handle \in 1 .. dials
              /\ x > entries => expiries[x] = 0 /\ flight[x] = Idle
          BY <1>0 DEF MapInv
        <4>2. entry'[x].handle = entry[x].handle /\ entry'[x].stopping = entry[x].stopping
          BY <1>18, <3>2 DEF Yields
        <4>3. (x <= top <=> x <= entries) /\ (x > top => x > entries)
          BY <1>2, <1>10, <3>0, <3>2
        <4>4. 1 .. dials \subseteq 1 .. dials'
          BY <1>8, <1>10
        <4>5. QED
          BY <1>16, <4>1, <4>2, <4>3, <4>4
      <3>3. QED
        BY <3>1, <3>2
    <2>4. \A c \in callers : c.targets \cup {c.full} \subseteq 0 .. top
      <3>1. 0 .. entries \subseteq 0 .. top
        BY <1>10
      <3>2. QED
        BY <1>0, <3>1 DEF MapInv
    <2>5. QED
      BY <1>8, <1>9, <1>10, <2>1, <2>2, <2>3, <2>4 DEF MapInv
  <1>22. NoOrphanWriter'
    <2> SUFFICES ASSUME NEW x \in Entries
                 PROVE  /\ Joinable(x)' => x \in Registered' \cup retired'
                        /\ x \in retired' => entry'[x].stopping
      BY DEF NoOrphanWriter
    <2>1. CASE new /\ x = e
      BY <1>8, <1>11, <1>16, <2>1
    <2>2. CASE ~(new /\ x = e)
      <3>1. /\ Joinable(x) => x \in Registered \cup retired
            /\ x \in retired => entry[x].stopping
        BY <1>0 DEF NoOrphanWriter
      <3>2. QED
        BY <1>8, <1>16, <1>18, <2>2, <3>1 DEF Joinable
    <2>3. QED
      BY <2>1, <2>2
  <1>23. ExpiryOrResume'
    <2> SUFFICES ASSUME NEW x \in Entries
                 PROVE  /\ expiries[x] + (IF x \in firing THEN 1 ELSE 0) <= 1
                        /\ (x \in firing \/ expiries[x] > 0) =>
                             x \notin Registered' /\ x # resuming /\ entry'[x].detached
      BY <1>8 DEF ExpiryOrResume
    <2>1. /\ expiries[x] + (IF x \in firing THEN 1 ELSE 0) <= 1
          /\ (x \in firing \/ expiries[x] > 0) =>
               x \notin Registered /\ x # resuming /\ entry[x].detached
      BY <1>0 DEF ExpiryOrResume
    <2>2. CASE x = e
      BY <1>11, <2>1, <2>2
    <2>3. CASE x # e
      BY <1>16, <1>18, <2>1, <2>3
    <2>4. QED
      BY <2>2, <2>3
  <1>24. EntryInv'
    <2> SUFFICES ASSUME NEW x \in Entries
                 PROVE  /\ Sound(entry'[x], flight[x], last[x], enqueued)
                        /\ x \in Registered' => FrontClaimed(entry'[x], flight[x])
      BY <1>8 DEF EntryInv
    <2>1. CASE new /\ x = e
      BY <1>11, <1>12, <1>17, <2>1
    <2>2. CASE ~(new /\ x = e)
      BY <1>16, <1>18, <2>2 DEF Yields
    <2>3. QED
      BY <2>1, <2>2
  <1>25. PromiseInv'
    <2> SUFFICES ASSUME NEW p \in promised
                 PROVE  p.e <= top /\ (p.e \in Registered' => Kept(p, entry'[p.e], flight[p.e]))
      BY <1>8, <1>9 DEF PromiseInv
    <2>1. p.e \in Entries /\ p.e \in Nat
      BY <1>0, Constants DEF TypeOK, Entries
    <2>2. p.e <= entries /\ (p.e \in Registered => Kept(p, entry[p.e], flight[p.e]))
      BY <1>0 DEF PromiseInv
    <2>3. p.e # e /\ p.e <= top
      BY <1>10, <2>1, <2>2
    <2>4. QED
      BY <1>16, <1>18, <2>1, <2>2, <2>3
  <1>26. QED
    BY <1>20, <1>21, <1>22, <1>23, <1>24, <1>25 DEF IInv

\* Resume's swap: the entry has the new connection and delivers again.
LEMMA ResumeSwapsStep ==
    ASSUME IInv, NEW supports \in BOOLEAN, ResumeSwaps(supports)
    PROVE  IInv'
  <1>0. TypeOK /\ MapInv /\ NoOrphanWriter /\ ExpiryOrResume /\ EntryInv /\ PromiseInv
    BY DEF IInv
  <1>1. /\ entry \in [Entries -> EntryRecords] /\ flight \in [Entries -> Flights]
    BY <1>0 DEF TypeOK, Flights
  <1>2. PICK e : e = resuming
    OBVIOUS
  <1>3. PICK r : r = entry[e]
    OBVIOUS
  <1>4. PICK f : f = flight[e]
    OBVIOUS
  <1>5. PICK async \in BOOLEAN : async = (Async /\ supports)
    BY Constants
  <1>6. PICK c : c = dials
    OBVIOUS
  <1>7. PICK s : s = IF async THEN Claim(Swapped(r, c, async)) ELSE Swapped(r, c, async)
    OBVIOUS
  <1>8. PICK g : g = IF async THEN Claimed(Swapped(r, c, async)) ELSE f
    OBVIOUS
  <1>9. /\ e # None /\ Quiesced(e) /\ resuming' = None /\ io_blocked' = 0
        /\ UNCHANGED <<sessions, retired, entries, callers, firing, expiries, to_close, life,
                       dials, open, calls, enqueued, promised, last>>
    BY <1>2, Zenon DEF ResumeSwaps, maps, graces, wires, history
  <1>10. entry' = [entry EXCEPT ![e] = s] /\ flight' = [flight EXCEPT ![e] = g]
    BY <1>2, <1>3, <1>4, <1>5, <1>6, <1>7, <1>8, Zenon DEF ResumeSwaps, Swapped
  <1>11. e \in Registered
    BY <1>0, <1>2, <1>9 DEF MapInv
  <1>12. /\ e \in Entries /\ e \notin firing /\ expiries[e] = 0 /\ e \notin retired
         /\ e \in 1 .. entries /\ entries \in Nat /\ dials \in Nat
    BY <1>11, MapFacts
  <1>13. c \in Conns /\ c \in 1 .. dials
    BY <1>6, <1>12, MapFacts DEF Conns
  <1>14. PICK d \in Nat : d = last[e]
    BY <1>12, EntryFacts
  <1>15. PICK n \in Nat : n = enqueued
    BY <1>12, EntryFacts
  <1>16. /\ r \in EntryRecords /\ f \in Flights /\ Sound(r, f, d, n)
    BY <1>3, <1>4, <1>12, <1>14, <1>15, EntryFacts
  <1>17. (r.writer = "none" \/ r.done) /\ ~r.delivering
    BY <1>3, <1>9 DEF Quiesced, Joinable
  <1>18. /\ s \in EntryRecords /\ g \in Flights /\ Sound(s, g, d, n)
         /\ FrontClaimed(s, g) /\ s.handle = c
         /\ \A p : Kept(p, r, f) => Kept(p, s, g)
    BY <1>7, <1>8, <1>13, <1>16, <1>17, SwapSound
  <1>19. /\ entry' \in [Entries -> EntryRecords] /\ flight' \in [Entries -> Flights]
         /\ \A x \in Entries : /\ entry'[x] = IF x = e THEN s ELSE entry[x]
                               /\ flight'[x] = IF x = e THEN g ELSE flight[x]
    BY <1>1, <1>10, <1>18
  <1>20. Registered' = Registered
    BY <1>9 DEF Registered
  <1>21. TypeOK'
    <2>1. resuming' \in 0 .. entries /\ io_blocked' \in 0 .. IoCallers
      BY <1>9, <1>12, Constants DEF None
    <2>2. QED
      BY <1>0, <1>9, <1>19, <2>1 DEF TypeOK, Flights
  <1>22. MapInv'
    <2>1. ASSUME NEW x \in Entries
          PROVE  /\ ~entry'[x].stopping => x \in Registered
                 /\ x <= entries => entry'[x].handle \in 1 .. dials
                 /\ x > entries => expiries[x] = 0 /\ flight'[x] = Idle
      <3>1. /\ ~entry[x].stopping => x \in Registered
            /\ x <= entries => entry[x].handle \in 1 .. dials
            /\ x > entries => expiries[x] = 0 /\ flight[x] = Idle
        BY <1>0 DEF MapInv
      <3>2. CASE x = e
        BY <1>11, <1>12, <1>13, <1>18, <1>19, <3>2
      <3>3. CASE x # e
        BY <1>19, <3>1, <3>3
      <3>4. QED
        BY <3>2, <3>3
    <2>2. QED
      BY <1>0, <1>9, <1>20, <2>1 DEF MapInv
  <1>23. NoOrphanWriter'
    <2> SUFFICES ASSUME NEW x \in Entries
                 PROVE  /\ Joinable(x)' => x \in Registered \cup retired
                        /\ x \in retired => entry'[x].stopping
      BY <1>9, <1>20 DEF NoOrphanWriter
    <2>1. /\ Joinable(x) => x \in Registered \cup retired
          /\ x \in retired => entry[x].stopping
      BY <1>0 DEF NoOrphanWriter
    <2>2. QED
      BY <1>11, <1>12, <1>19, <2>1 DEF Joinable
  <1>24. ExpiryOrResume'
    <2> SUFFICES ASSUME NEW x \in Entries
                 PROVE  /\ expiries[x] + (IF x \in firing THEN 1 ELSE 0) <= 1
                        /\ (x \in firing \/ expiries[x] > 0) =>
                             x \notin Registered /\ x # None /\ entry'[x].detached
      BY <1>9, <1>20 DEF ExpiryOrResume
    <2>1. /\ expiries[x] + (IF x \in firing THEN 1 ELSE 0) <= 1
          /\ (x \in firing \/ expiries[x] > 0) => x \notin Registered /\ entry[x].detached
      BY <1>0 DEF ExpiryOrResume
    <2>2. x # None
      BY Constants DEF Entries, None
    <2>3. QED
      BY <1>12, <1>19, <2>1, <2>2
  <1>25. EntryInv'
    <2> SUFFICES ASSUME NEW x \in Entries
                 PROVE  /\ Sound(entry'[x], flight'[x], last[x], enqueued)
                        /\ x \in Registered => FrontClaimed(entry'[x], flight'[x])
      BY <1>9, <1>20 DEF EntryInv
    <2>1. CASE x = e
      BY <1>14, <1>15, <1>18, <1>19, <2>1
    <2>2. CASE x # e
      BY <1>19, <2>2, EntryFacts
    <2>3. QED
      BY <2>1, <2>2
  <1>26. PromiseInv'
    <2> SUFFICES ASSUME NEW p \in promised
                 PROVE  p.e <= entries /\ (p.e \in Registered => Kept(p, entry'[p.e], flight'[p.e]))
      BY <1>9, <1>20 DEF PromiseInv
    <2>1. p.e \in Entries
      BY <1>0 DEF TypeOK
    <2>2. p.e <= entries /\ (p.e \in Registered => Kept(p, entry[p.e], flight[p.e]))
      BY <1>0 DEF PromiseInv
    <2>3. CASE p.e = e
      <3>1. p.e \in Registered => Kept(p, s, g)
        BY <1>3, <1>4, <1>18, <2>2, <2>3
      <3>2. QED
        BY <1>19, <2>1, <2>2, <2>3, <3>1
    <2>4. CASE p.e # e
      BY <1>19, <2>1, <2>2, <2>4
    <2>5. QED
      BY <2>3, <2>4
  <1>27. QED
    BY <1>21, <1>22, <1>23, <1>24, <1>25, <1>26 DEF IInv

-----------------------------------------------------------------------------
\* The invariant holds initially.
LEMMA InitIInv ==
    ASSUME Init
    PROVE  IInv
  <1>1. PICK r : r = [NewEntry(None, TRUE) EXCEPT !.stopping = TRUE]
    BY Zenon
  <1>2. /\ sessions = [id \in Ids |-> None] /\ retired = {} /\ entries = 0
        /\ entry = [e \in Entries |-> r] /\ flight = [e \in Entries |-> Idle]
        /\ resuming = None /\ callers = {} /\ io_blocked = 0
        /\ firing = {} /\ to_close = {} /\ life = "up"
        /\ dials = 0 /\ open = {} /\ calls = 0 /\ enqueued = 0
        /\ promised = {} /\ last = [e \in Entries |-> 0] /\ expiries = [e \in Entries |-> 0]
    BY <1>1, Zenon DEF Init
  <1>3. <<>> \in Seq(Items)
    OBVIOUS
  <1>4. r \in EntryRecords
    BY <1>1, <1>3 DEF NewEntry, EntryRecords
  <1>5. /\ r.queue = <<>> /\ r.stopping = TRUE /\ r.done = FALSE /\ r.async_mode = TRUE
        /\ r.delivering = FALSE /\ r.detached = FALSE /\ r.writer = "none" /\ r.chain = "idle"
    BY <1>1 DEF NewEntry
  <1>6. Registered = {}
    BY <1>2 DEF Registered
  <1>7. TypeOK
    <2>1. flight \in [Entries -> [item : Items \cup {NoItem}, conn : Conns \cup {None}]]
      BY <1>2, IdleHand DEF Flights
    <2>2. entry \in [Entries -> EntryRecords]
      BY <1>2, <1>4
    <2>3. /\ sessions \in [Ids -> 0 .. entries] /\ last \in [Entries -> Nat]
          /\ expiries \in [Entries -> Nat]
      BY <1>2 DEF None
    <2>4. QED
      BY <1>2, <2>1, <2>2, <2>3, Constants DEF TypeOK, None
  <1>8. MapInv
    <2>1. \A e \in Entries : e > 0 /\ e \in Nat
      BY Constants DEF Entries
    <2>2. \A e \in Entries : entry[e].stopping /\ expiries[e] = 0 /\ flight[e] = Idle
      BY <1>2, <1>5
    <2>3. QED
      BY <1>2, <1>6, <2>1, <2>2 DEF MapInv
  <1>9. NoOrphanWriter
    BY <1>2, <1>5 DEF NoOrphanWriter, Joinable
  <1>10. ExpiryOrResume
    BY <1>2 DEF ExpiryOrResume
  <1>11. EntryInv
    <2>1. QueueInOrder(r.queue, 0, 0)
      BY <1>5, Constants DEF QueueInOrder
    <2>2. Steady(r) /\ Holding(r, Idle) /\ HandInOrder(r, Idle, 0, 0)
      BY <1>5, IdleHand DEF Steady, Holding, HandInOrder
    <2>3. Sound(r, Idle, 0, 0)
      BY <2>1, <2>2 DEF Sound
    <2>4. QED
      BY <1>2, <1>6, <2>3 DEF EntryInv
  <1>12. PromiseInv
    BY <1>2 DEF PromiseInv
  <1>13. QED
    BY <1>7, <1>8, <1>9, <1>10, <1>11, <1>12 DEF IInv

\* Every step keeps it.
LEMMA NextIInv ==
    ASSUME IInv, [Next]_vars
    PROVE  IInv'
  <1>1. CASE Api
    <2>1. \/ \E id \in Ids, supports \in BOOLEAN : Add(id, supports)
          \/ \E id \in Ids : Remove(id) \/ Detach(id) \/ Resume(id)
          \/ \E ids \in SUBSET Ids, class \in Classes : Broadcast(ids, class)
          \/ ExpiryLoop \/ ExpireDetachedNow \/ Destroy
          \/ \E id \in Ids : CloseOrKick(id)
          \/ CloseAll \/ IoCallBlocks
      BY <1>1 DEF Api
    <2>2. QED
      BY <2>1, AddStep, RemoveStep, DetachStep, ResumeStep, BroadcastStep, ExpiryStep,
         ConnectionStep
  <1>2. CASE Inside
    <2>1. \/ \E supports \in BOOLEAN : ResumeSwaps(supports)
          \/ \E c \in callers : SlowConsumer(c) \/ \E e \in c.targets : Enqueue(c, e)
          \/ \E c \in to_close : CloseHandle(c)
          \/ DestroyStops \/ DestroyJoins
      BY <1>2 DEF Inside, Calling
    <2>2. QED
      BY <2>1, ResumeSwapsStep, SlowConsumerStep, EnqueueStep, ConnectionStep, DestroyStopsStep,
         DestroyJoinsStep
  <1>3. CASE Expiry
    BY <1>3, ExpiryStep, FireExpiryStep DEF Expiry
  <1>4. CASE \E e \in Entries : Delivery(e)
    BY <1>4, WriterTakesStep, WriterSendStep, WriterExitsStep, SubmitStep, ChainSentStep,
       ChainEndsStep DEF Delivery
  <1>5. CASE \E c \in Conns : ConnectionDies(c)
    BY <1>5, ConnectionStep
  <1>6. CASE UNCHANGED vars
    BY <1>6, StutterStep
  <1>7. QED
    BY <1>1, <1>2, <1>3, <1>4, <1>5, <1>6 DEF Next, System

-----------------------------------------------------------------------------
\* Theorems.

\* The inductive invariant holds in every state the registry reaches.
THEOREM RegistryInvariant == Spec => []IInv
  BY InitIInv, NextIInv, PTL DEF Spec

\* One deliverer per session, on the session's own connection: no chain beside
\* a running writer, and no send across a swapped handle.
THEOREM OneDelivererHolds == Spec => []OneDeliverer
  <1>1. IInv => OneDeliverer
    <2> SUFFICES ASSUME IInv, NEW e \in Entries
                 PROVE  /\ ~(entry[e].delivering /\ entry[e].writer \in {"loop", "send"})
                        /\ (entry[e].writer = "send" \/ entry[e].chain = "flying") =>
                             flight[e].conn = entry[e].handle
      BY DEF OneDeliverer, IInv
    <2>1. Sound(entry[e], flight[e], last[e], enqueued) /\ entry[e] \in EntryRecords
      BY EntryFacts
    <2>2. QED
      BY <2>1 DEF Sound, Steady, Holding
  <1>2. QED
    BY <1>1, RegistryInvariant, PTL

\* No interleaving orphans a writer thread.
THEOREM NoOrphanWriterHolds == Spec => []NoOrphanWriter
  <1>1. IInv => NoOrphanWriter
    BY DEF IInv
  <1>2. QED
    BY <1>1, RegistryInvariant, PTL

\* A detached session expires at most once, and never one that is resumed.
THEOREM ExpiryOrResumeHolds == Spec => []ExpiryOrResume
  <1>1. IInv => ExpiryOrResume
    BY DEF IInv
  <1>2. QED
    BY <1>1, RegistryInvariant, PTL

\* A session's events are delivered in the order of their slots, none twice,
\* and its queue keeps its capacity.
THEOREM DeliveredInOrderHolds == Spec => []DeliveredInOrder
  <1>1. IInv => DeliveredInOrder
    <2> SUFFICES ASSUME IInv, NEW e \in Registered
                 PROVE  LET queue == entry[e].queue
                            hand == flight[e].item IN
                        /\ Len(queue) <= Capacity
                        /\ \A i, j \in DOMAIN queue : i < j => queue[i].t < queue[j].t
                        /\ \A slot \in Slots(queue) : slot.t > last[e]
                        /\ hand # NoItem => hand.t > last[e]
                        /\ entry[e].writer = "send" => \A slot \in Slots(queue) : slot.t > hand.t
      BY DEF DeliveredInOrder
    <2>1. e \in Entries
      BY MapFacts
    <2>2. PICK r \in EntryRecords : r = entry[e]
      BY <2>1, EntryFacts
    <2>3. PICK f \in Flights : f = flight[e]
      BY <2>1, EntryFacts
    <2>4. PICK d \in Nat : d = last[e]
      BY <2>1, EntryFacts
    <2>5. PICK n \in Nat : n = enqueued
      BY <2>1, EntryFacts
    <2>6. PICK q \in Seq(Items) : q = r.queue
      BY EntryFields
    <2>7. QueueInOrder(q, d, n) /\ HandInOrder(r, f, d, n)
      BY <2>1, <2>2, <2>3, <2>4, <2>5, <2>6, EntryFacts DEF Sound
    <2>8. /\ DOMAIN q = 1 .. Len(q) /\ \A i \in 1 .. Len(q) : q[i].t \in Nat
          /\ \A x : x \in Slots(q) <=> \E i \in 1 .. Len(q) : x = q[i]
      BY SlotTypes
    <2>9. /\ Len(q) <= Capacity
          /\ \A i, j \in DOMAIN q : i < j => q[i].t < q[j].t
      BY <2>7, <2>8 DEF QueueInOrder
    <2>10. \A slot \in Slots(q) : slot.t > d
      BY <2>7, <2>8 DEF QueueInOrder
    <2>11. f.item # NoItem => f.item.t > d
      <3>1. f.item \in Items \cup {NoItem}
        BY DEF Flights
      <3>2. f.item \in Items => f.item.t \in Nat
        BY DEF Items
      <3>3. QED
        BY <2>7, <3>1, <3>2 DEF HandInOrder
    <2>12. r.writer = "send" => \A slot \in Slots(q) : slot.t > f.item.t
      BY <2>6, <2>7, <2>8 DEF HandInOrder
    <2>13. QED
      BY <2>2, <2>3, <2>4, <2>6, <2>9, <2>10, <2>11, <2>12
  <1>2. QED
    BY <1>1, RegistryInvariant, PTL

\* An event the registry took and may not drop is queued or in hand until it
\* is delivered or its delivery ends.
THEOREM AcceptedNotLostHolds == Spec => []AcceptedNotLost
  <1>1. IInv => AcceptedNotLost
    <2> SUFFICES ASSUME IInv, NEW p \in promised, p.e \in Registered
                 PROVE  \E item \in Slots(entry[p.e].queue) \cup {flight[p.e].item} : item.v = p.v
      BY DEF AcceptedNotLost
    <2>1. p.e \in Entries
      BY MapFacts
    <2>2. PICK r \in EntryRecords : r = entry[p.e]
      BY <2>1, EntryFacts
    <2>3. PICK f : f = flight[p.e]
      OBVIOUS
    <2>4. Kept(p, r, f)
      BY <2>1, <2>2, <2>3, EntryFacts
    <2>5. r.queue \in Seq(Items)
      BY EntryFields
    <2>6. \A i \in 1 .. Len(r.queue) : r.queue[i] \in Slots(r.queue)
      BY <2>5, SlotTypes
    <2>7. \E item \in Slots(r.queue) \cup {f.item} : item.v = p.v
      BY <2>4, <2>6 DEF Kept, Keeps
    <2>8. QED
      BY <2>2, <2>3, <2>7
  <1>2. QED
    BY <1>1, RegistryInvariant, PTL
=============================================================================
