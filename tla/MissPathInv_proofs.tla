------------------------ MODULE MissPathInv_proofs ------------------------
(***************************************************************************)
(* Lemmas about the fields of the cache of MissPath: what blocking,        *)
(* unblocking and scheduling the send event change, and how the cache that *)
(* the blocking protocol sees follows; then the invariant of the miss      *)
(* path, and that a request keeps it.  The queues are those of             *)
(* MSHRQueue_proofs, each of its lemmas used once for the MSHR queue (P)   *)
(* and once for the write buffer (PW);                                     *)
(* the blocking protocol is that of CacheBlocking_proofs (B).              *)
(***************************************************************************)
EXTENDS MissPath, SequenceTheorems, FiniteSetTheorems, WellFoundedInduction, TLAPS

(* The cache is a record of these fields.                                  *)
IsCache(st) ==
    st = [blocked |-> st.blocked, portBlocked |-> st.portBlocked,
          mustSendRetry |-> st.mustSendRetry, retryScheduled |-> st.retryScheduled,
          failed |-> st.failed, mshrQueue |-> st.mshrQueue,
          writeBuffer |-> st.writeBuffer, noTargetMSHR |-> st.noTargetMSHR,
          tags |-> st.tags, sendEvent |-> st.sendEvent,
          waitingOnRetry |-> st.waitingOnRetry, snoopRespQueue |-> st.snoopRespQueue,
          pfq |-> st.pfq, order |-> st.order, payload |-> st.payload,
          answer |-> st.answer, owed |-> st.owed,
          broken |-> st.broken]

(* What the blocking protocol sees of the cache.                           *)
Waits(i) == i # 0
Occupancy(a, w) ==
    [n \in {"MSHRs", "WriteBuffer"} |-> IF n = "MSHRs" THEN a ELSE w]
View(st) ==
    [blocked |-> st.blocked, portBlocked |-> st.portBlocked,
     mustSendRetry |-> st.mustSendRetry, retryScheduled |-> st.retryScheduled,
     failed |-> st.failed, noTarget |-> Waits(st.noTargetMSHR),
     allocated |-> Occupancy(st.mshrQueue.allocated, st.writeBuffer.allocated)]

IsView(v) ==
    v = [blocked |-> v.blocked, portBlocked |-> v.portBlocked,
         mustSendRetry |-> v.mustSendRetry, retryScheduled |-> v.retryScheduled,
         failed |-> v.failed, noTarget |-> v.noTarget, allocated |-> v.allocated]
Blocked5(r, b, p, m, y, f) ==
    /\ r.blocked = b /\ r.portBlocked = p /\ r.mustSendRetry = m
    /\ r.retryScheduled = y /\ r.failed = f

SameBlocking(r, st) ==
    /\ r.blocked = st.blocked /\ r.portBlocked = st.portBlocked
    /\ r.mustSendRetry = st.mustSendRetry /\ r.retryScheduled = st.retryScheduled
    /\ r.failed = st.failed /\ r.noTargetMSHR = st.noTargetMSHR
SameQueues(r, st) ==
    /\ r.mshrQueue = st.mshrQueue /\ r.writeBuffer = st.writeBuffer
    /\ r.order = st.order /\ r.tags = st.tags /\ r.pfq = st.pfq
    /\ r.answer = st.answer /\ r.owed = st.owed
SameBook(r, st) == r.answer = st.answer /\ r.owed = st.owed

(* The responses to snoops that wait to be sent; a send event that comes   *)
(* no later than the first of them is delayed by it.                       *)
Planned == [addr : Addrs, tick : Nat]
Answering(q) == q \in Seq(Planned)
Delays(q, t) == q # <<>> /\ t <= Head(q).tick
SameTiming(r, st) ==
    /\ r.sendEvent = st.sendEvent /\ r.waitingOnRetry = st.waitingOnRetry
    /\ r.payload = st.payload
    /\ Answering(st.snoopRespQueue) => Answering(r.snoopRespQueue)
    /\ \A t : Delays(st.snoopRespQueue, t) => Delays(r.snoopRespQueue, t)

LEMMA SchedFacts ==
    ASSUME NEW st, IsCache(st), NEW when, NEW r, r = schedSendEvent(st, when)
    PROVE  /\ IsCache(r) /\ SameBlocking(r, st) /\ SameQueues(r, st)
           /\ r.waitingOnRetry = st.waitingOnRetry
           /\ r.payload = st.payload /\ r.snoopRespQueue = st.snoopRespQueue
           /\ st.waitingOnRetry => r.sendEvent = st.sendEvent
           /\ ~st.waitingOnRetry =>
                 r.sendEvent = {Min(st.sendEvent \cup {Max({when, 1})})}
<1> DEFINE e == {Min(st.sendEvent \cup {Max({when, 1})})}
           b == st.broken \/ ~(st.sendEvent = {})
<1>1. CASE st.waitingOnRetry
  <2>1. r = [st EXCEPT !.broken = b]
    BY <1>1 DEF schedSendEvent, Assert_
  <2> HIDE DEF b
  <2> QED BY <1>1, <2>1, Zenon DEF IsCache, SameBlocking, SameQueues
<1>2. CASE ~st.waitingOnRetry
  <2>1. r = [st EXCEPT !.sendEvent = e]
    BY <1>2 DEF schedSendEvent
  <2> HIDE DEF e
  <2>2. IsCache(r) /\ SameBlocking(r, st) /\ SameQueues(r, st)
    BY <1>2, <2>1 DEF IsCache, SameBlocking, SameQueues
  <2>3. /\ r.waitingOnRetry = st.waitingOnRetry /\ r.sendEvent = e
        /\ r.payload = st.payload /\ r.snoopRespQueue = st.snoopRespQueue
    BY <1>2, <2>1 DEF IsCache
  <2> QED BY <1>2, <2>2, <2>3 DEF e
<1> QED BY <1>1, <1>2

(* A view is known by its fields.                                          *)
LEMMA ViewFields ==
    ASSUME NEW st, NEW v, IsView(v),
           Blocked5(v, st.blocked, st.portBlocked, st.mustSendRetry,
                    st.retryScheduled, st.failed),
           v.noTarget = Waits(st.noTargetMSHR),
           v.allocated = Occupancy(st.mshrQueue.allocated, st.writeBuffer.allocated)
    PROVE  View(st) = v
  BY DEF IsView, View, Blocked5

LEMMA ViewIs ==
    ASSUME NEW st
    PROVE  /\ IsView(View(st))
           /\ Blocked5(View(st), st.blocked, st.portBlocked, st.mustSendRetry,
                       st.retryScheduled, st.failed)
           /\ View(st).noTarget = Waits(st.noTargetMSHR)
           /\ View(st).allocated = Occupancy(st.mshrQueue.allocated, st.writeBuffer.allocated)
  BY DEF IsView, View, Blocked5

(* Blocking and unblocking the whole cache blocks and unblocks its view.   *)
Blocks5(st, b, p, m, y, f) ==
    [st EXCEPT !.blocked = b, !.portBlocked = p, !.mustSendRetry = m,
               !.retryScheduled = y, !.failed = f]

LEMMA BlocksCache ==
    ASSUME NEW st, IsCache(st), NEW b, NEW p, NEW m, NEW y, NEW f,
           NEW r, r = Blocks5(st, b, p, m, y, f)
    PROVE  /\ IsCache(r) /\ SameQueues(r, st) /\ SameTiming(r, st)
           /\ r.noTargetMSHR = st.noTargetMSHR /\ Blocked5(r, b, p, m, y, f)
  BY Zenon DEF Blocks5, IsCache, SameQueues, SameTiming, Blocked5

LEMMA BlocksView ==
    ASSUME NEW v, IsView(v), NEW b, NEW p, NEW m, NEW y, NEW f,
           NEW r, r = Blocks5(v, b, p, m, y, f)
    PROVE  /\ IsView(r) /\ r.noTarget = v.noTarget /\ r.allocated = v.allocated
           /\ Blocked5(r, b, p, m, y, f)
  BY Zenon DEF Blocks5, IsView, Blocked5

LEMMA BlocksBoth ==
    ASSUME NEW st, IsCache(st), NEW b, NEW p, NEW m, NEW y, NEW f
    PROVE  View(Blocks5(st, b, p, m, y, f)) = Blocks5(View(st), b, p, m, y, f)
<1> DEFINE r == Blocks5(st, b, p, m, y, f)
           v == View(st)
           w == Blocks5(v, b, p, m, y, f)
<1>1. /\ SameQueues(r, st) /\ r.noTargetMSHR = st.noTargetMSHR
      /\ Blocked5(r, b, p, m, y, f)
  BY BlocksCache
<1>2. /\ IsView(v) /\ v.noTarget = Waits(st.noTargetMSHR)
      /\ v.allocated = Occupancy(st.mshrQueue.allocated, st.writeBuffer.allocated)
  BY ViewIs
<1> HIDE DEF v
<1>3. /\ IsView(w) /\ w.noTarget = v.noTarget /\ w.allocated = v.allocated
      /\ Blocked5(w, b, p, m, y, f)
  BY <1>2, BlocksView
<1> HIDE DEF r, w
<1>4. Blocked5(w, r.blocked, r.portBlocked, r.mustSendRetry, r.retryScheduled, r.failed)
  BY <1>1, <1>3 DEF Blocked5
<1>5. /\ w.noTarget = Waits(r.noTargetMSHR)
      /\ w.allocated = Occupancy(r.mshrQueue.allocated, r.writeBuffer.allocated)
  BY <1>1, <1>2, <1>3 DEF SameQueues
<1>6. View(r) = w
  BY <1>3, <1>4, <1>5, ViewFields
<1> QED BY <1>6 DEF r, v, w

LEMMA SetBlocks ==
    ASSUME NEW x, IsCache(x) \/ IsView(x), NEW n
    PROVE  LET e == x.blocked = {}
           IN  Blocking!setBlocked(x, n) =
                 Blocks5(x, x.blocked \cup {n}, IF e THEN TRUE ELSE x.portBlocked,
                         IF e THEN x.mustSendRetry \/ x.retryScheduled ELSE x.mustSendRetry,
                         IF e THEN FALSE ELSE x.retryScheduled,
                         IF e THEN x.failed \/ x.portBlocked ELSE x.failed)
<1> DEFINE f == x.failed \/ x.portBlocked
           m == x.mustSendRetry \/ x.retryScheduled
           b == x.blocked \cup {n}
           no == FALSE
           yes == TRUE
           r == Blocking!setBlocked(x, n)
<1>2. CASE x.blocked = {}
  <2>0. r = [[x EXCEPT !.failed = f, !.portBlocked = yes, !.retryScheduled = no,
                       !.mustSendRetry = m] EXCEPT !.blocked = b]
    BY <1>2, Zenon DEF Blocking!setBlocked, Blocking!CacheSlavePort_setBlocked, IsCache, IsView
  <2> HIDE DEF b, m, f, no, yes, r
  <2>1. r = Blocks5(x, b, yes, m, no, f)
    <3>1. CASE IsCache(x)
      BY <2>0, <3>1, Zenon DEF IsCache, Blocks5
    <3>2. CASE IsView(x)
      BY <2>0, <3>2, Zenon DEF IsView, Blocks5
    <3> QED BY <3>1, <3>2
  <2> QED BY <1>2, <2>1 DEF r, b, m, f, no, yes
<1>3. CASE x.blocked # {}
  <2>0. r = [x EXCEPT !.blocked = b]
    BY <1>3 DEF Blocking!setBlocked
  <2> HIDE DEF b, m, f, no, yes, r
  <2>1. r = Blocks5(x, b, x.portBlocked, x.mustSendRetry, x.retryScheduled, x.failed)
    <3>1. CASE IsCache(x)
      BY <2>0, <3>1, Zenon DEF IsCache, Blocks5
    <3>2. CASE IsView(x)
      BY <2>0, <3>2, Zenon DEF IsView, Blocks5
    <3> QED BY <3>1, <3>2
  <2> QED BY <1>3, <2>1, Zenon DEF r, b, m, f, no, yes
<1> QED BY <1>2, <1>3, Zenon

LEMMA ClearBlocks ==
    ASSUME NEW x, IsCache(x) \/ IsView(x), NEW n
    PROVE  LET e == x.blocked \ {n} = {}
           IN  Blocking!clearBlocked(x, n) =
                 Blocks5(x, x.blocked \ {n}, IF e THEN FALSE ELSE x.portBlocked,
                         x.mustSendRetry,
                         IF e THEN x.retryScheduled \/ x.mustSendRetry ELSE x.retryScheduled,
                         IF e THEN x.failed \/ ~x.portBlocked
                                     \/ (x.mustSendRetry /\ x.retryScheduled)
                              ELSE x.failed)
<1> DEFINE f == x.failed \/ ~x.portBlocked \/ (x.mustSendRetry /\ x.retryScheduled)
           y == x.retryScheduled \/ x.mustSendRetry
           b == x.blocked \ {n}
           no == FALSE
           r == Blocking!clearBlocked(x, n)
           k == [x EXCEPT !.blocked = b]
<1>1. /\ k.blocked = b /\ k.failed = x.failed /\ k.portBlocked = x.portBlocked
      /\ k.mustSendRetry = x.mustSendRetry /\ k.retryScheduled = x.retryScheduled
  BY DEF IsCache, IsView
<1>2. CASE b = {}
  <2>0. r = [k EXCEPT !.failed = f, !.portBlocked = no, !.retryScheduled = y]
    BY <1>1, <1>2 DEF Blocking!clearBlocked, Blocking!CacheSlavePort_clearBlocked
  <2> HIDE DEF b, y, f, no, r
  <2>1. r = Blocks5(x, b, no, x.mustSendRetry, y, f)
    <3>1. CASE IsCache(x)
      BY <2>0, <3>1, Zenon DEF IsCache, Blocks5
    <3>2. CASE IsView(x)
      BY <2>0, <3>2, Zenon DEF IsView, Blocks5
    <3> QED BY <3>1, <3>2
  <2> QED BY <1>2, <2>1 DEF r, b, y, f, no
<1>3. CASE b # {}
  <2>0. r = k
    BY <1>1, <1>3 DEF Blocking!clearBlocked
  <2> HIDE DEF b, y, f, no, r
  <2>1. r = Blocks5(x, b, x.portBlocked, x.mustSendRetry, x.retryScheduled, x.failed)
    <3>1. CASE IsCache(x)
      BY <2>0, <3>1, Zenon DEF IsCache, Blocks5
    <3>2. CASE IsView(x)
      BY <2>0, <3>2, Zenon DEF IsView, Blocks5
    <3> QED BY <3>1, <3>2
  <2> QED BY <1>3, <2>1, Zenon DEF r, b, y, f, no
<1> QED BY <1>2, <1>3, Zenon

(* Blocking and unblocking leave the rest of the cache alone.              *)
OnlyBlocking(r, st) ==
    /\ IsCache(r) /\ SameQueues(r, st) /\ SameTiming(r, st)
    /\ r.noTargetMSHR = st.noTargetMSHR

SetBlock(z, b, p, m, y, f, n) ==
    LET e == b = {}
    IN  Blocks5(z, b \cup {n}, IF e THEN TRUE ELSE p, IF e THEN m \/ y ELSE m,
                IF e THEN FALSE ELSE y, IF e THEN f \/ p ELSE f)
ClearBlock(z, b, p, m, y, f, n) ==
    LET e == b \ {n} = {}
    IN  Blocks5(z, b \ {n}, IF e THEN FALSE ELSE p, m, IF e THEN y \/ m ELSE y,
                IF e THEN f \/ ~p \/ (m /\ y) ELSE f)

LEMMA BlockFacts ==
    ASSUME NEW st, IsCache(st), NEW b, NEW p, NEW m, NEW y, NEW f
    PROVE  /\ OnlyBlocking(Blocks5(st, b, p, m, y, f), st)
           /\ View(Blocks5(st, b, p, m, y, f)) = Blocks5(View(st), b, p, m, y, f)
  BY BlocksCache, BlocksBoth DEF OnlyBlocking

LEMMA SetBlockedFacts ==
    ASSUME NEW st, IsCache(st), NEW n
    PROVE  /\ OnlyBlocking(Blocking!setBlocked(st, n), st)
           /\ View(Blocking!setBlocked(st, n)) = Blocking!setBlocked(View(st), n)
<1> DEFINE v == View(st)
           A(z) == SetBlock(z, st.blocked, st.portBlocked, st.mustSendRetry,
                            st.retryScheduled, st.failed, n)
<1>1. Blocking!setBlocked(st, n) = A(st)
  BY SetBlocks, Zenon DEF SetBlock
<1>2. IsView(v) /\ Blocked5(v, st.blocked, st.portBlocked, st.mustSendRetry,
                            st.retryScheduled, st.failed)
  BY ViewIs
<1> HIDE DEF v
<1>3. Blocking!setBlocked(v, n) = SetBlock(v, v.blocked, v.portBlocked, v.mustSendRetry,
                                           v.retryScheduled, v.failed, n)
  BY <1>2, SetBlocks, Zenon DEF SetBlock
<1>4. Blocking!setBlocked(v, n) = A(v)
  BY <1>2, <1>3 DEF Blocked5
<1>5. OnlyBlocking(A(st), st) /\ View(A(st)) = A(v)
  <2> DEFINE e == st.blocked = {}
             a1 == st.blocked \cup {n}
             a2 == IF e THEN TRUE ELSE st.portBlocked
             a3 == IF e THEN st.mustSendRetry \/ st.retryScheduled ELSE st.mustSendRetry
             a4 == IF e THEN FALSE ELSE st.retryScheduled
             a5 == IF e THEN st.failed \/ st.portBlocked ELSE st.failed
  <2>1. A(st) = Blocks5(st, a1, a2, a3, a4, a5) /\ A(v) = Blocks5(v, a1, a2, a3, a4, a5)
    BY Zenon DEF SetBlock
  <2> HIDE DEF a1, a2, a3, a4, a5, A
  <2> QED BY <2>1, BlockFacts DEF v
<1> HIDE DEF A
<1> QED BY <1>1, <1>4, <1>5 DEF v

LEMMA ClearBlockedFacts ==
    ASSUME NEW st, IsCache(st), NEW n
    PROVE  /\ OnlyBlocking(Blocking!clearBlocked(st, n), st)
           /\ View(Blocking!clearBlocked(st, n)) = Blocking!clearBlocked(View(st), n)
<1> DEFINE v == View(st)
           A(z) == ClearBlock(z, st.blocked, st.portBlocked, st.mustSendRetry,
                              st.retryScheduled, st.failed, n)
<1>1. Blocking!clearBlocked(st, n) = A(st)
  BY ClearBlocks, Zenon DEF ClearBlock
<1>2. IsView(v) /\ Blocked5(v, st.blocked, st.portBlocked, st.mustSendRetry,
                            st.retryScheduled, st.failed)
  BY ViewIs
<1> HIDE DEF v
<1>3. Blocking!clearBlocked(v, n) = ClearBlock(v, v.blocked, v.portBlocked, v.mustSendRetry,
                                               v.retryScheduled, v.failed, n)
  BY <1>2, ClearBlocks, Zenon DEF ClearBlock
<1>4. Blocking!clearBlocked(v, n) = A(v)
  BY <1>2, <1>3 DEF Blocked5
<1>5. OnlyBlocking(A(st), st) /\ View(A(st)) = A(v)
  <2> DEFINE e == st.blocked \ {n} = {}
             a1 == st.blocked \ {n}
             a2 == IF e THEN FALSE ELSE st.portBlocked
             a3 == st.mustSendRetry
             a4 == IF e THEN st.retryScheduled \/ st.mustSendRetry ELSE st.retryScheduled
             a5 == IF e THEN st.failed \/ ~st.portBlocked
                           \/ (st.mustSendRetry /\ st.retryScheduled) ELSE st.failed
  <2>1. A(st) = Blocks5(st, a1, a2, a3, a4, a5) /\ A(v) = Blocks5(v, a1, a2, a3, a4, a5)
    BY Zenon DEF ClearBlock
  <2> HIDE DEF a1, a2, a3, a4, a5, A
  <2> QED BY <2>1, BlockFacts DEF v
<1> HIDE DEF A
<1> QED BY <1>1, <1>4, <1>5 DEF v

-----------------------------------------------------------------------------
(* A queue of the cache changes.                                           *)
Queue(st, n) == IF n = "MSHRs" THEN st.mshrQueue ELSE st.writeBuffer
PutQueue(st, n, new, o) ==
    IF n = "MSHRs" THEN [st EXCEPT !.mshrQueue = new, !.order = o]
                   ELSE [st EXCEPT !.writeBuffer = new, !.order = o]
Kinds == {"MSHRs", "WriteBuffer"}

SameRest(r, st) ==
    /\ r.tags = st.tags /\ r.pfq = st.pfq /\ r.answer = st.answer /\ r.owed = st.owed

LEMMA PutQueueFacts ==
    ASSUME NEW st, IsCache(st), NEW n \in Kinds, NEW new, NEW o,
           NEW r, r = PutQueue(st, n, new, o)
    PROVE  /\ IsCache(r) /\ SameBlocking(r, st) /\ SameTiming(r, st) /\ SameRest(r, st)
           /\ r.order = o /\ Queue(r, n) = new
           /\ \A k \in Kinds : k # n => Queue(r, k) = Queue(st, k)
<1>1. CASE n = "MSHRs"
  <2>1. r = [st EXCEPT !.mshrQueue = new, !.order = o]
    BY <1>1 DEF PutQueue
  <2>2. /\ IsCache(r) /\ SameBlocking(r, st) /\ SameTiming(r, st) /\ SameRest(r, st)
        /\ r.order = o /\ r.mshrQueue = new /\ r.writeBuffer = st.writeBuffer
    BY <2>1, Zenon DEF IsCache, SameBlocking, SameTiming, SameRest
  <2> QED BY <1>1, <2>2 DEF Queue, Kinds
<1>2. CASE n # "MSHRs"
  <2>1. r = [st EXCEPT !.writeBuffer = new, !.order = o]
    BY <1>2 DEF PutQueue
  <2>2. /\ IsCache(r) /\ SameBlocking(r, st) /\ SameTiming(r, st) /\ SameRest(r, st)
        /\ r.order = o /\ r.writeBuffer = new /\ r.mshrQueue = st.mshrQueue
    BY <2>1, Zenon DEF IsCache, SameBlocking, SameTiming, SameRest
  <2> QED BY <1>2, <2>2 DEF Queue, Kinds
<1> QED BY <1>1, <1>2

(* Its occupancy is all that the blocking protocol sees.                   *)
Count(v, f, n, k) == [v EXCEPT !.failed = f, !.allocated[n] = k]

LEMMA CountFacts ==
    ASSUME NEW v, IsView(v), NEW f, NEW n, NEW k, NEW w, w = Count(v, f, n, k)
    PROVE  /\ IsView(w)
           /\ Blocked5(w, v.blocked, v.portBlocked, v.mustSendRetry, v.retryScheduled, f)
           /\ w.noTarget = v.noTarget /\ w.allocated = [v.allocated EXCEPT ![n] = k]
<1> DEFINE e == [v.allocated EXCEPT ![n] = k]
<1>1. w = [v EXCEPT !.failed = f, !.allocated = e]
  BY DEF Count
<1> HIDE DEF e
<1>2. /\ IsView(w) /\ w.noTarget = v.noTarget /\ w.allocated = e
      /\ Blocked5(w, v.blocked, v.portBlocked, v.mustSendRetry, v.retryScheduled, f)
  BY <1>1, Zenon DEF IsView, Blocked5
<1> QED BY <1>2 DEF e

LEMMA PutQueueView ==
    ASSUME NEW st, IsCache(st), NEW n \in Kinds, NEW new, NEW o,
           NEW r, r = PutQueue(st, n, new, o)
    PROVE  View(r) = Count(View(st), st.failed, n, new.allocated)
<1> DEFINE v == View(st)
           w == Count(v, st.failed, n, new.allocated)
<1>1. /\ SameBlocking(r, st) /\ Queue(r, n) = new
      /\ \A k \in Kinds : k # n => Queue(r, k) = Queue(st, k)
  BY PutQueueFacts
<1>2. /\ IsView(v) /\ v.noTarget = Waits(st.noTargetMSHR)
      /\ Blocked5(v, st.blocked, st.portBlocked, st.mustSendRetry, st.retryScheduled,
                  st.failed)
      /\ v.allocated = Occupancy(st.mshrQueue.allocated, st.writeBuffer.allocated)
  BY ViewIs
<1> HIDE DEF v
<1>3. /\ IsView(w) /\ w.noTarget = v.noTarget
      /\ Blocked5(w, v.blocked, v.portBlocked, v.mustSendRetry, v.retryScheduled, st.failed)
      /\ w.allocated = [v.allocated EXCEPT ![n] = new.allocated]
  BY <1>2, CountFacts
<1> HIDE DEF w
<1>4. Blocked5(w, r.blocked, r.portBlocked, r.mustSendRetry, r.retryScheduled, r.failed)
  BY <1>1, <1>2, <1>3 DEF Blocked5, SameBlocking
<1>5. w.noTarget = Waits(r.noTargetMSHR)
  BY <1>1, <1>2, <1>3 DEF SameBlocking
<1>6. w.allocated = Occupancy(r.mshrQueue.allocated, r.writeBuffer.allocated)
  BY <1>1, <1>2, <1>3 DEF Occupancy, Queue, Kinds
<1>7. View(r) = w
  BY <1>3, <1>4, <1>5, <1>6, ViewFields
<1> QED BY <1>7 DEF w, v

-----------------------------------------------------------------------------
(* Occupy and Release, in terms of the blocking protocol.                  *)
LEMMA BlockedFlag ==
    ASSUME NEW st, IsCache(st), st.failed \in BOOLEAN, NEW n
    PROVE  /\ Blocking!setBlocked(st, n).failed \in BOOLEAN
           /\ Blocking!clearBlocked(st, n).failed \in BOOLEAN
<1> DEFINE f == st.failed \/ st.portBlocked
           g == st.failed \/ ~st.portBlocked \/ (st.mustSendRetry /\ st.retryScheduled)
           f1 == IF st.blocked = {} THEN f ELSE st.failed
           g1 == IF st.blocked \ {n} = {} THEN g ELSE st.failed
<1>1. f \in BOOLEAN /\ g \in BOOLEAN
  BY Zenon
<1>2. f1 \in BOOLEAN /\ g1 \in BOOLEAN
  <2> HIDE DEF f, g
  <2> QED BY <1>1
<1>3. \E b, p, m, y : Blocking!setBlocked(st, n) = Blocks5(st, b, p, m, y, f1)
  <2> DEFINE b == st.blocked \cup {n}
             p == IF st.blocked = {} THEN TRUE ELSE st.portBlocked
             m == IF st.blocked = {} THEN st.mustSendRetry \/ st.retryScheduled
                                     ELSE st.mustSendRetry
             y == IF st.blocked = {} THEN FALSE ELSE st.retryScheduled
  <2>1. Blocking!setBlocked(st, n) = Blocks5(st, b, p, m, y, f1)
    BY SetBlocks, Zenon
  <2> HIDE DEF b, p, m, y, f1
  <2> QED BY <2>1
<1>4. \E b, p, m, y : Blocking!clearBlocked(st, n) = Blocks5(st, b, p, m, y, g1)
  <2> DEFINE e == st.blocked \ {n} = {}
             b == st.blocked \ {n}
             p == IF e THEN FALSE ELSE st.portBlocked
             m == st.mustSendRetry
             y == IF e THEN st.retryScheduled \/ st.mustSendRetry ELSE st.retryScheduled
  <2>1. Blocking!clearBlocked(st, n) = Blocks5(st, b, p, m, y, g1)
    BY ClearBlocks, Zenon
  <2> HIDE DEF b, p, m, y, g1
  <2> QED BY <2>1
<1> HIDE DEF f1, g1
<1> QED BY <1>2, <1>3, <1>4, BlocksCache DEF Blocked5

Replaced(r, st, n, new) ==
    /\ IsCache(r) /\ SameTiming(r, st) /\ SameRest(r, st)
    /\ r.noTargetMSHR = st.noTargetMSHR /\ Queue(r, n) = new
    /\ \A k \in Kinds : k # n => Queue(r, k) = Queue(st, k)

LEMMA OnlyBlockingReplaced ==
    ASSUME NEW st, NEW put, NEW r, NEW n, NEW new,
           Replaced(put, st, n, new), OnlyBlocking(r, put)
    PROVE  Replaced(r, st, n, new) /\ r.order = put.order
<1>1. \A k : Queue(r, k) = Queue(put, k)
  BY DEF Queue, OnlyBlocking, SameQueues
<1>2. /\ IsCache(r) /\ SameTiming(r, st) /\ SameRest(r, st)
      /\ r.noTargetMSHR = st.noTargetMSHR /\ r.order = put.order
  BY DEF Replaced, OnlyBlocking, SameTiming, SameRest, SameQueues
<1> QED BY <1>1, <1>2 DEF Replaced

SetView(v, n, full) == IF full THEN Blocking!setBlocked(v, n) ELSE v
ClearView(v, n, freed) == IF freed THEN Blocking!clearBlocked(v, n) ELSE v

LEMMA PutReplaced ==
    ASSUME NEW st, IsCache(st), st.failed \in BOOLEAN, NEW n \in Kinds, NEW new, NEW o,
           NEW put, put = PutQueue(st, n, new, o), NEW full, NEW freed
    PROVE  /\ Replaced(put, st, n, new) /\ put.order = o /\ put.failed \in BOOLEAN
           /\ \A r : r = SetView(put, n, full) =>
                 /\ Replaced(r, st, n, new) /\ r.order = o /\ r.failed \in BOOLEAN
                 /\ View(r) = SetView(Count(View(st), st.failed, n, new.allocated), n, full)
           /\ \A r : r = ClearView(put, n, freed) =>
                 /\ Replaced(r, st, n, new) /\ r.order = o /\ r.failed \in BOOLEAN
                 /\ View(r) = ClearView(Count(View(st), st.failed, n, new.allocated), n, freed)
<1> DEFINE v == Count(View(st), st.failed, n, new.allocated)
<1>1. /\ IsCache(put) /\ Replaced(put, st, n, new) /\ put.order = o
      /\ put.failed \in BOOLEAN
  BY PutQueueFacts DEF Replaced, SameBlocking
<1>2. View(put) = v
  BY PutQueueView
<1> HIDE DEF v
<1>3. ASSUME NEW r, r = SetView(put, n, full)
      PROVE  /\ Replaced(r, st, n, new) /\ r.order = o /\ r.failed \in BOOLEAN
             /\ View(r) = SetView(v, n, full)
  <2>1. CASE full
    <3>1. r = Blocking!setBlocked(put, n) /\ SetView(v, n, full) = Blocking!setBlocked(v, n)
      BY <1>3, <2>1 DEF SetView
    <3>2. OnlyBlocking(r, put) /\ View(r) = Blocking!setBlocked(View(put), n)
      BY <1>1, <3>1, SetBlockedFacts
    <3>3. r.failed \in BOOLEAN
      BY <1>1, <3>1, BlockedFlag
    <3> QED BY <1>1, <1>2, <3>1, <3>2, <3>3, OnlyBlockingReplaced
  <2>2. CASE ~full
    BY <1>1, <1>2, <1>3, <2>2 DEF SetView
  <2> QED BY <2>1, <2>2
<1>4. ASSUME NEW r, r = ClearView(put, n, freed)
      PROVE  /\ Replaced(r, st, n, new) /\ r.order = o /\ r.failed \in BOOLEAN
             /\ View(r) = ClearView(v, n, freed)
  <2>1. CASE freed
    <3>1. r = Blocking!clearBlocked(put, n) /\ ClearView(v, n, freed) = Blocking!clearBlocked(v, n)
      BY <1>4, <2>1 DEF ClearView
    <3>2. OnlyBlocking(r, put) /\ View(r) = Blocking!clearBlocked(View(put), n)
      BY <1>1, <3>1, ClearBlockedFacts
    <3>3. r.failed \in BOOLEAN
      BY <1>1, <3>1, BlockedFlag
    <3> QED BY <1>1, <1>2, <3>1, <3>2, <3>3, OnlyBlockingReplaced
  <2>2. CASE ~freed
    BY <1>1, <1>2, <1>4, <2>2 DEF ClearView
  <2> QED BY <2>1, <2>2
<1> QED BY <1>1, <1>3, <1>4 DEF v

LEMMA ViewCounts ==
    ASSUME NEW st, NEW n \in Kinds
    PROVE  View(st).allocated[n] = Queue(st, n).allocated /\ View(st).failed = st.failed
  BY DEF View, Occupancy, Queue, Kinds

(* A queue is full with all of its nominal entries.                        *)
LEMMA FullSizes ==
    ASSUME NEW v, NEW n \in Kinds, v.allocated[n] \in Nat
    PROVE  /\ Blocking!isFull(v, n) <=> v.allocated[n] >= Blocking!num_entries(n)
           /\ Blocking!num_entries("MSHRs") = Mshrs
           /\ Blocking!num_entries("WriteBuffer") = WriteBuffers
           /\ Blocking!numEntries("MSHRs") = Mshrs + 3
           /\ Blocking!numEntries("WriteBuffer") = WriteBuffers + Mshrs + ExtraWriteReserve - 1
           /\ Blocking!canPrefetch(v) <=>
                 v.allocated["MSHRs"] + 4 + DemandMshrReserve < Mshrs + 3
<1>1. /\ Blocking!num_entries("MSHRs") = Mshrs
      /\ Blocking!num_entries("WriteBuffer") = WriteBuffers
      /\ Blocking!numReserve("MSHRs") = 4
      /\ Blocking!numReserve("WriteBuffer") = Mshrs + ExtraWriteReserve
      /\ Blocking!demandReserve("MSHRs") = DemandMshrReserve
  BY DEF Blocking!num_entries, Blocking!numReserve, Blocking!demandReserve
<1>2. /\ Blocking!numEntries("MSHRs") = Mshrs + 3
      /\ Blocking!numEntries("WriteBuffer") = WriteBuffers + Mshrs + ExtraWriteReserve - 1
  BY <1>1, MissPathAssumption DEF Blocking!numEntries
<1>3. Blocking!isFull(v, n) <=> v.allocated[n] >= Blocking!num_entries(n)
  BY <1>1, <1>2, MissPathAssumption DEF Blocking!isFull, Kinds
<1>4. Blocking!canPrefetch(v) <=>
        v.allocated["MSHRs"] + 4 + DemandMshrReserve < Mshrs + 3
  BY <1>1, <1>2 DEF Blocking!canPrefetch
<1> QED BY <1>1, <1>2, <1>3, <1>4

LEMMA OccupyView ==
    ASSUME NEW st, IsCache(st), st.failed \in BOOLEAN, NEW n \in Kinds,
           NEW a, NEW cmd, NEW when, NEW new,
           new = MQ!MSHRQueue_allocate(Queue(st, n), a, cmd, when, st.order),
           Queue(st, n).allocated \in Nat, new.allocated = Queue(st, n).allocated + 1,
           Queue(st, n).allocated < Blocking!numEntries(n),
           MQ!isFull(new) <=> new.allocated >= Blocking!num_entries(n),
           NEW r, r = Occupy(st, n, a, cmd, when)
    PROVE  /\ Replaced(r, st, n, new) /\ r.order = st.order + 1 /\ r.failed \in BOOLEAN
           /\ View(r) = Blocking!allocateBufferInternal(View(st), n)
<1> DEFINE o == st.order + 1
           put == PutQueue(st, n, new, o)
           full == MQ!isFull(new)
           v == View(st)
           k == new.allocated
           w == Count(v, st.failed, n, k)
           f == v.failed \/ ~(v.allocated[n] < Blocking!numEntries(n))
           z == [v EXCEPT !.failed = f, !.allocated[n] = @ + 1]
<1>1. r = SetView(put, n, full)
  BY DEF Occupy, SetView, PutQueue, Queue
<1>2. /\ Replaced(r, st, n, new) /\ r.order = st.order + 1 /\ r.failed \in BOOLEAN
      /\ View(r) = SetView(w, n, full)
  <2> HIDE DEF full, o
  <2>1. /\ Replaced(r, st, n, new) /\ r.order = o /\ r.failed \in BOOLEAN
        /\ View(r) = SetView(w, n, full)
    BY <1>1, PutReplaced
  <2> QED BY <2>1 DEF o
<1>3. /\ v.allocated[n] = Queue(st, n).allocated /\ v.failed = st.failed /\ IsView(v)
  BY ViewCounts, ViewIs
<1> HIDE DEF v
<1>4. f = st.failed
  BY <1>3
<1>5. z = w
  <2>1. v.allocated[n] + 1 = k
    BY <1>3
  <2> HIDE DEF k, f
  <2> QED BY <1>3, <1>4, <2>1, Zenon DEF Count
<1>6. w.allocated[n] = k /\ k \in Nat
  <2>1. w.allocated = [v.allocated EXCEPT ![n] = k]
    BY <1>3, CountFacts
  <2>2. DOMAIN v.allocated = Kinds
    BY ViewIs, Zenon DEF v, Occupancy, Kinds
  <2> QED BY <2>1, <2>2
<1>7. Blocking!isFull(w, n) <=> full
  <2> HIDE DEF w
  <2> QED BY <1>6, FullSizes
<1>8. Blocking!allocateBufferInternal(v, n) =
        IF Blocking!isFull(z, n) THEN Blocking!setBlocked(z, n) ELSE z
  BY DEF Blocking!allocateBufferInternal
<1> HIDE DEF z, w, full
<1>9. Blocking!allocateBufferInternal(v, n) = SetView(w, n, full)
  BY <1>5, <1>7, <1>8 DEF SetView
<1> QED BY <1>2, <1>9 DEF v

LEMMA ReleaseView ==
    ASSUME NEW st, IsCache(st), st.failed \in BOOLEAN, NEW n \in Kinds, NEW new,
           Queue(st, n).allocated \in Nat, new.allocated \in Nat,
           MQ!isFull(Queue(st, n)) <=> Queue(st, n).allocated >= Blocking!num_entries(n),
           MQ!isFull(new) <=> new.allocated >= Blocking!num_entries(n),
           NEW r, r = Release(st, n, new)
    PROVE  /\ Replaced(r, st, n, new) /\ r.order = st.order /\ r.failed \in BOOLEAN
           /\ new.allocated = Queue(st, n).allocated => View(r) = View(st)
           /\ new.allocated = Queue(st, n).allocated - 1 =>
                 View(r) = Blocking!deallocate(View(st), n)
<1> DEFINE old == Queue(st, n)
           put == PutQueue(st, n, new, st.order)
           freed == MQ!isFull(old) /\ ~MQ!isFull(new)
           v == View(st)
           k == new.allocated
           w == Count(v, st.failed, n, k)
           z == [v EXCEPT !.allocated[n] = @ - 1]
<1>1. r = ClearView(put, n, freed)
  <2>1. CASE n = "MSHRs"
    <3>1. put = [st EXCEPT !.mshrQueue = new]
      BY <2>1, Zenon DEF PutQueue, IsCache
    <3>2. old = st.mshrQueue
      BY <2>1 DEF Queue
    <3> QED BY <2>1, <3>1, <3>2 DEF Release, ClearView
  <2>2. CASE n # "MSHRs"
    <3>1. put = [st EXCEPT !.writeBuffer = new]
      BY <2>2, Zenon DEF PutQueue, IsCache
    <3>2. old = st.writeBuffer
      BY <2>2 DEF Queue
    <3> QED BY <2>2, <3>1, <3>2 DEF Release, ClearView
  <2> QED BY <2>1, <2>2
<1>2. /\ Replaced(r, st, n, new) /\ r.order = st.order /\ r.failed \in BOOLEAN
      /\ View(r) = ClearView(w, n, freed)
  <2> HIDE DEF freed
  <2> QED BY <1>1, PutReplaced
<1>3. v.allocated[n] = old.allocated /\ v.failed = st.failed /\ IsView(v)
  BY ViewCounts, ViewIs
<1>4. DOMAIN v.allocated = Kinds
  BY ViewIs, Zenon DEF Occupancy, Kinds
<1> HIDE DEF v
<1>5. ASSUME k = old.allocated PROVE View(r) = v
  <2>1. ~freed
    BY <1>5
  <2>2. w = v
    <3>1. /\ IsView(w) /\ w.noTarget = v.noTarget
          /\ Blocked5(w, v.blocked, v.portBlocked, v.mustSendRetry, v.retryScheduled, st.failed)
          /\ w.allocated = [v.allocated EXCEPT ![n] = k]
      BY <1>3, CountFacts
    <3>2. w.allocated = v.allocated
      <4>1. v.allocated = [j \in Kinds |-> v.allocated[j]]
        BY ViewIs, Zenon DEF Occupancy, Kinds, v
      <4> QED BY <1>3, <1>5, <3>1, <4>1
    <3> HIDE DEF w
    <3> QED BY <1>3, <3>1, <3>2 DEF IsView, Blocked5
  <2> HIDE DEF freed, w
  <2> QED BY <1>2, <2>1, <2>2 DEF ClearView
<1>6. ASSUME k = old.allocated - 1 PROVE View(r) = Blocking!deallocate(v, n)
  <2>1. z = w
    <3>1. v.allocated[n] - 1 = k
      BY <1>3, <1>6
    <3> HIDE DEF k
    <3>2. z = [v EXCEPT !.allocated[n] = k]
      BY <1>3, <3>1
    <3>3. w = [v EXCEPT !.failed = v.failed, !.allocated[n] = k]
      BY <1>3 DEF Count
    <3>4. v = [v EXCEPT !.failed = v.failed]
      BY <1>3 DEF IsView
    <3> QED BY <3>2, <3>3, <3>4, Zenon
  <2>2. w.allocated[n] = k /\ k \in Nat
    <3>1. w.allocated = [v.allocated EXCEPT ![n] = k]
      BY <1>3, CountFacts
    <3> QED BY <1>4, <3>1
  <2>3. (Blocking!isFull(v, n) /\ ~Blocking!isFull(w, n)) <=> freed
    <3>1. Blocking!isFull(v, n) <=> MQ!isFull(old)
      BY <1>3, FullSizes
    <3>2. Blocking!isFull(w, n) <=> MQ!isFull(new)
      <4> HIDE DEF w
      <4> QED BY <2>2, FullSizes
    <3> QED BY <3>1, <3>2
  <2>4. Blocking!deallocate(v, n) =
          IF Blocking!isFull(v, n) /\ ~Blocking!isFull(z, n) THEN Blocking!clearBlocked(z, n)
                                                              ELSE z
    BY DEF Blocking!deallocate
  <2> HIDE DEF z, w, freed
  <2> QED BY <1>2, <2>1, <2>3, <2>4 DEF ClearView
<1> QED BY <1>2, <1>5, <1>6 DEF v, k, old

-----------------------------------------------------------------------------
(* The send event: there is at most one, and none while the port waits for *)
(* a retry of the bus; and the times that can delay it.                    *)
Timed(st) ==
    /\ st.sendEvent = {} \/ \E t \in Nat : st.sendEvent = {t}
    /\ st.waitingOnRetry => st.sendEvent = {}
    /\ st.payload \in Nat /\ Answering(st.snoopRespQueue)

(* A request that is ready at time x will not be forgotten.                *)
Awake(st) == st.waitingOnRetry \/ st.sendEvent # {}
Soon(st, x) ==
    \/ st.waitingOnRetry
    \/ \E t \in st.sendEvent :
          t <= 1 \/ t <= x \/ t <= st.payload \/ Delays(st.snoopRespQueue, t)

LEMMA LeastTime ==
    ASSUME NEW T \in SUBSET Nat, T # {}
    PROVE  Min(T) \in T /\ \A y \in T : Min(T) <= y
<1>1. PICK x \in T : \A y \in T : ~(<<y, x>> \in OpToRel(<, Nat))
  BY NatLessThanWellFounded, WFMin, Zenon
<1>2. \A y \in T : ~(y < x)
  BY <1>1, Zenon DEF OpToRel
<1>3. \A y \in T : x <= y
  BY <1>2
<1> QED BY <1>3, Zenon DEF Min

LEMMA LaterOne ==
    ASSUME NEW x \in Nat, NEW y \in Nat
    PROVE  Max({x, y}) \in {x, y} /\ Max({x, y}) >= x /\ Max({x, y}) >= y
<1>1. \E z \in {x, y} : \A k \in {x, y} : z >= k
  <2>1. CASE x >= y
    BY <2>1
  <2>2. CASE ~(x >= y)
    BY <2>2
  <2> QED BY <2>1, <2>2
<1>2. Max({x, y}) \in {x, y} /\ \A k \in {x, y} : Max({x, y}) >= k
  BY <1>1 DEF Max
<1> QED BY <1>2

LEMMA DelaysLess ==
    ASSUME NEW q, Answering(q), NEW t \in Nat, NEW y \in Nat, t <= y, Delays(q, y)
    PROVE  Delays(q, t)
<1>1. q # <<>> /\ y <= Head(q).tick
  BY DEF Delays
<1>2. Head(q) \in Planned
  BY <1>1 DEF Answering
<1>3. Head(q).tick \in Nat
  BY <1>2 DEF Planned
<1> HIDE DEF Delays
<1>4. t <= Head(q).tick
  BY <1>1, <1>3
<1> QED BY <1>1, <1>4 DEF Delays

LEMMA SchedTime ==
    ASSUME NEW st, IsCache(st), Timed(st), NEW when \in Nat,
           NEW r, r = schedSendEvent(st, when)
    PROVE  /\ IsCache(r) /\ SameBlocking(r, st) /\ SameQueues(r, st)
           /\ r.waitingOnRetry = st.waitingOnRetry
           /\ Timed(r) /\ Awake(r) /\ Soon(r, when)
           /\ \A x \in Nat : Soon(st, x) => Soon(r, x)
           /\ when <= 1 \/ when <= st.payload \/ Delays(st.snoopRespQueue, when)
                 => \A x \in Nat : Soon(r, x)
<1> DEFINE e == st.sendEvent
           w == Max({when, 1})
           t == Min(e \cup {w})
<1>1. /\ IsCache(r) /\ SameBlocking(r, st) /\ SameQueues(r, st)
      /\ r.waitingOnRetry = st.waitingOnRetry
      /\ r.payload = st.payload /\ r.snoopRespQueue = st.snoopRespQueue
      /\ st.waitingOnRetry => r.sendEvent = e
      /\ ~st.waitingOnRetry => r.sendEvent = {t}
  BY SchedFacts
<1>2. CASE st.waitingOnRetry
  BY <1>1, <1>2 DEF Timed, Awake, Soon
<1>3. CASE ~st.waitingOnRetry
  <2>1. w \in {when, 1} /\ w >= when /\ w >= 1 /\ w \in Nat
    BY LaterOne
  <2> HIDE DEF w
  <2>2. e \cup {w} \in SUBSET Nat /\ e \cup {w} # {}
    BY <2>1 DEF Timed
  <2>3. t \in e \cup {w} /\ \A y \in e \cup {w} : t <= y
    BY <2>2, LeastTime
  <2>4. t \in Nat /\ t <= w /\ \A y \in e : t <= y /\ y \in Nat
    BY <2>2, <2>3
  <2> HIDE DEF t
  <2>5. r.sendEvent = {t} /\ ~r.waitingOnRetry
    BY <1>1, <1>3
  <2>6. Timed(r) /\ Awake(r)
    BY <1>1, <2>4, <2>5 DEF Timed, Awake
  <2>7. Soon(r, when)
    BY <2>1, <2>4, <2>5 DEF Soon
  <2>10. ASSUME NEW y \in Nat, t <= y, Delays(st.snoopRespQueue, y)
         PROVE  Delays(st.snoopRespQueue, t)
    BY <2>4, <2>10, DelaysLess DEF Timed
  <2>8. ASSUME NEW x \in Nat, Soon(st, x) PROVE Soon(r, x)
    <3>1. PICK y \in e :
             y <= 1 \/ y <= x \/ y <= st.payload \/ Delays(st.snoopRespQueue, y)
      BY <1>3, <2>8 DEF Soon
    <3>2. t <= y /\ y \in Nat /\ t \in Nat /\ st.payload \in Nat
      BY <2>4, <3>1 DEF Timed
    <3>3. t <= 1 \/ t <= x \/ t <= st.payload \/ Delays(st.snoopRespQueue, t)
      BY <2>10, <3>1, <3>2
    <3> QED BY <1>1, <2>5, <3>3 DEF Soon
  <2>9. ASSUME when <= 1 \/ when <= st.payload \/ Delays(st.snoopRespQueue, when),
               NEW x \in Nat
        PROVE  Soon(r, x)
    <3>1. t <= 1 \/ t <= when
      BY <2>1, <2>4
    <3>2. t \in Nat /\ st.payload \in Nat
      BY <2>4 DEF Timed
    <3>3. t <= 1 \/ t <= st.payload \/ Delays(st.snoopRespQueue, t)
      BY <2>9, <2>10, <3>1, <3>2
    <3> QED BY <1>1, <2>5, <3>3 DEF Soon
  <2> QED BY <1>1, <2>6, <2>7, <2>8, <2>9
<1> QED BY <1>2, <1>3

Prefetcher(st) ==
    /\ st.pfq \in Seq([addr : Addrs, tick : Nat]) /\ Len(st.pfq) <= QueueSize

LEMMA PrefetchTime ==
    ASSUME NEW st, Prefetcher(st), st.pfq # <<>>
    PROVE  /\ Head(st.pfq).tick \in Nat /\ Head(st.pfq).addr \in Addrs
           /\ PrefetchReady(st) = {Head(st.pfq).tick}
<1> DEFINE R == [addr : Addrs, tick : Nat]
<1>1. st.pfq \in Seq(R)
  BY DEF Prefetcher
<1>2. \A x \in R : x.tick \in Nat /\ x.addr \in Addrs
  OBVIOUS
<1> HIDE DEF R
<1>3. Head(st.pfq) \in R
  BY <1>1
<1> QED BY <1>2, <1>3 DEF PrefetchReady

LEMMA RescheduleTime ==
    ASSUME NEW st, IsCache(st), Timed(st), Prefetcher(st),
           ReadyTime(st.mshrQueue) \subseteq Nat, ReadyTime(st.writeBuffer) \subseteq Nat,
           NEW r, r = Reschedule(st)
    PROVE  /\ IsCache(r) /\ SameBlocking(r, st) /\ SameQueues(r, st) /\ Timed(r)
           /\ \A x \in ReadyTime(st.mshrQueue) \cup ReadyTime(st.writeBuffer) : Soon(r, x)
           /\ MQ!canPrefetch(st.mshrQueue) /\ st.pfq # <<>> => Awake(r)
<1> DEFINE T == ReadyTime(st.mshrQueue) \cup ReadyTime(st.writeBuffer) \cup
                (IF MQ!canPrefetch(st.mshrQueue) THEN PrefetchReady(st) ELSE {})
           m == Min(T)
<1>1. T \in SUBSET Nat
  <2>1. PrefetchReady(st) \subseteq Nat
    BY PrefetchTime DEF PrefetchReady
  <2> QED BY <2>1
<1>2. /\ \A x \in ReadyTime(st.mshrQueue) \cup ReadyTime(st.writeBuffer) : x \in T
      /\ MQ!canPrefetch(st.mshrQueue) /\ st.pfq # <<>> => T # {}
  BY PrefetchTime
<1>3. nextMSHRReadyTime(st) = IF T = {} THEN {} ELSE {m}
  BY DEF nextMSHRReadyTime
<1> HIDE DEF T, m
<1>4. CASE T = {}
  <2>1. r = st
    BY <1>3, <1>4 DEF Reschedule
  <2> QED BY <1>2, <1>4, <2>1 DEF SameBlocking, SameQueues
<1>5. CASE T # {}
  <2>1. m \in T /\ m \in Nat /\ \A x \in T : m <= x
    BY <1>1, <1>5, LeastTime DEF m
  <2>2. Min({m}) = m
    BY <2>1, LeastTime
  <2>3. r = schedSendEvent(st, m)
    BY <1>3, <1>5, <2>2 DEF Reschedule
  <2>4. /\ IsCache(r) /\ SameBlocking(r, st) /\ SameQueues(r, st) /\ Timed(r)
        /\ Awake(r) /\ Soon(r, m)
    BY <2>1, <2>3, SchedTime
  <2>5. ASSUME NEW x \in T PROVE Soon(r, x)
    <3>1. m <= x /\ x \in Nat
      BY <1>1, <2>1
    <3>2. CASE r.waitingOnRetry
      BY <3>2 DEF Soon
    <3>3. CASE ~r.waitingOnRetry
      <4>1. PICK t \in r.sendEvent :
               t <= 1 \/ t <= m \/ t <= r.payload \/ Delays(r.snoopRespQueue, t)
        BY <2>4, <3>3 DEF Soon
      <4>2. t \in Nat
        BY <2>4, <4>1 DEF Timed
      <4> QED BY <2>1, <3>1, <4>1, <4>2 DEF Soon
    <3> QED BY <3>2, <3>3
  <2> QED BY <1>2, <2>4, <2>5
<1> QED BY <1>4, <1>5

-----------------------------------------------------------------------------
(* The queue of the prefetcher stays within its bound.                     *)
Squashed(l, a) == RemoveFirstMatch(l, LAMBDA p : p.addr = a)

LEMMA SquashedFacts ==
    ASSUME NEW l \in Seq(Planned), NEW a
    PROVE  Squashed(l, a) \in Seq(Planned) /\ Len(Squashed(l, a)) <= Len(l)
<1> DEFINE I == {i \in 1 .. Len(l) : l[i].addr = a}
           i == Min(I)
           k == Squashed(l, a)
<1>1. k = IF I # {} THEN RemoveAt(l, i) ELSE l
  BY DEF Squashed, RemoveFirstMatch, SelectInSeq
<1>2. ASSUME I # {} PROVE RemoveAt(l, i) \in Seq(Planned) /\ Len(RemoveAt(l, i)) <= Len(l)
  <2>0. Len(l) \in Nat /\ \A j \in 1 .. Len(l) : l[j] \in Planned
    OBVIOUS
  <2>1. i \in 1 .. Len(l)
    <3>1. I \in SUBSET Nat
      BY <2>0
    <3>2. i \in I
      BY <1>2, <3>1, LeastTime
    <3> QED BY <3>2
  <2> HIDE DEF i
  <2> DEFINE b == SubSeq(l, 1, i - 1)
             c == SubSeq(l, i + 1, Len(l))
  <2>2. /\ 1 \in Int /\ i - 1 \in Int /\ i + 1 \in Int /\ Len(l) \in Int
        /\ \A j \in 1 .. i - 1 : l[j] \in Planned
        /\ \A j \in i + 1 .. Len(l) : l[j] \in Planned
    BY <2>0, <2>1
  <2>3. b \in Seq(Planned) /\ Len(b) = IF 1 <= i - 1 THEN (i - 1) - 1 + 1 ELSE 0
    BY <2>2, SubSeqProperties
  <2>4. c \in Seq(Planned)
        /\ Len(c) = IF i + 1 <= Len(l) THEN Len(l) - (i + 1) + 1 ELSE 0
    BY <2>2, SubSeqProperties
  <2>5. RemoveAt(l, i) = b \o c
    BY DEF RemoveAt
  <2> HIDE DEF b, c
  <2>6. b \o c \in Seq(Planned) /\ Len(b \o c) = Len(b) + Len(c)
    BY <2>3, <2>4
  <2>7. Len(b) + Len(c) <= Len(l)
    <3>1. i \in Nat /\ 1 <= i /\ i <= Len(l) /\ Len(l) \in Nat
      BY <2>0, <2>1
    <3>2. Len(b) = i - 1
      BY <2>3, <3>1
    <3>3. Len(c) = Len(l) - i
      BY <2>4, <3>1
    <3> QED BY <3>1, <3>2, <3>3
  <2> QED BY <2>5, <2>6, <2>7
<1> HIDE DEF I, i, k
<1>3. k \in Seq(Planned) /\ Len(k) <= Len(l)
  BY <1>1, <1>2
<1> QED BY <1>3 DEF k

LEMMA EnqueuedFacts ==
    ASSUME NEW l \in Seq(Planned), Len(l) <= QueueSize, NEW a \in Addrs
    PROVE  Enqueue(l, a) \in Seq(Planned) /\ Len(Enqueue(l, a)) <= QueueSize
<1> DEFINE x == [addr |-> a, tick |-> 1]
           h == IF Len(l) = QueueSize THEN Tail(l) ELSE l
<1>1. QueueSize \in Nat \ {0} /\ Len(l) \in Nat
  BY MissPathAssumption
<1>2. x \in Planned
  BY DEF Planned
<1>3. h \in Seq(Planned) /\ Len(h) + 1 <= QueueSize
  <2>1. CASE Len(l) = QueueSize
    <3>1. l # <<>>
      BY <1>1, <2>1
    <3>2. Tail(l) \in Seq(Planned) /\ Len(Tail(l)) = Len(l) - 1
      BY <3>1
    <3> QED BY <1>1, <2>1, <3>2
  <2>2. CASE Len(l) # QueueSize
    BY <1>1, <2>2
  <2> QED BY <2>1, <2>2
<1>4. Enqueue(l, a) = l \/ Enqueue(l, a) = Append(h, x)
  BY DEF Enqueue
<1> HIDE DEF x, h
<1>5. Append(h, x) \in Seq(Planned) /\ Len(Append(h, x)) = Len(h) + 1
  BY <1>2, <1>3
<1> QED BY <1>3, <1>4, <1>5

SamePlace(r, st) ==
    /\ IsCache(r) /\ SameBlocking(r, st) /\ r.mshrQueue = st.mshrQueue
    /\ r.writeBuffer = st.writeBuffer /\ r.order = st.order /\ r.tags = st.tags
    /\ r.answer = st.answer /\ r.owed = st.owed

LEMMA NotifiedFacts ==
    ASSUME NEW st, IsCache(st), Timed(st), Prefetcher(st), NEW a, NEW pf \in Proposals,
           NEW lat \in Nat, NEW r, r = Notified(st, a, pf, lat)
    PROVE  /\ SamePlace(r, st) /\ Timed(r) /\ Prefetcher(r)
           /\ \A x \in Nat : Soon(st, x) => Soon(r, x)
           /\ r.pfq # <<>> => Awake(r)
<1> DEFINE kept == Squashed(st.pfq, a)
           next == IF pf = <<>> THEN kept ELSE Enqueue(kept, Head(pf))
           n == notify(st, a, pf)
<1>1. st.pfq \in Seq(Planned) /\ Len(st.pfq) <= QueueSize
  BY DEF Prefetcher, Planned
<1>2. kept \in Seq(Planned) /\ Len(kept) <= QueueSize
  <2>1. kept \in Seq(Planned) /\ Len(kept) <= Len(st.pfq)
    BY <1>1, SquashedFacts
  <2> HIDE DEF kept
  <2> QED BY <1>1, <2>1, MissPathAssumption
<1>3. n = [st EXCEPT !.pfq = next]
  BY DEF notify, Squashed
<1> HIDE DEF kept
<1>4. next \in Seq(Planned) /\ Len(next) <= QueueSize
  <2>1. pf = <<>> \/ \E b \in PrefetchAddrs : pf = <<b>>
    BY DEF Proposals
  <2>2. pf = <<>> \/ Head(pf) \in Addrs
    BY <2>1, MissPathAssumption
  <2> QED BY <1>2, <2>2, EnqueuedFacts
<1> HIDE DEF next
<1>5. /\ IsCache(n) /\ SamePlace(n, st) /\ SameTiming(n, st) /\ n.pfq = next
  BY <1>3 DEF IsCache, SamePlace, SameBlocking, SameTiming
<1> HIDE DEF n
<1>6. Timed(n) /\ Prefetcher(n) /\ \A x : Soon(st, x) => Soon(n, x)
  BY <1>4, <1>5 DEF Timed, Prefetcher, SameTiming, Soon, Planned
<1>7. CASE n.pfq = <<>>
  <2>1. r = n
    BY <1>7 DEF Notified, n
  <2> QED BY <1>5, <1>6, <1>7, <2>1
<1>8. CASE n.pfq # <<>>
  <2> DEFINE w == Max(PrefetchReady(n) \cup {lat})
  <2>1. r = schedSendEvent(n, w)
    BY <1>8 DEF Notified, n
  <2>2. w \in Nat
    <3>1. PrefetchReady(n) = {Head(n.pfq).tick} /\ Head(n.pfq).tick \in Nat
      BY <1>6, <1>8, PrefetchTime
    <3>2. PrefetchReady(n) \cup {lat} = {Head(n.pfq).tick, lat}
      BY <3>1
    <3>3. Max({Head(n.pfq).tick, lat}) \in {Head(n.pfq).tick, lat}
      BY <3>1, LaterOne
    <3> QED BY <3>1, <3>2, <3>3
  <2> HIDE DEF w
  <2>3. /\ IsCache(r) /\ SameBlocking(r, n) /\ SameQueues(r, n) /\ Timed(r) /\ Awake(r)
        /\ \A x \in Nat : Soon(n, x) => Soon(r, x)
    BY <1>5, <1>6, <2>1, <2>2, SchedTime
  <2>4. SamePlace(r, st) /\ Prefetcher(r)
    BY <1>5, <1>6, <2>3 DEF SamePlace, SameBlocking, SameQueues, Prefetcher
  <2> QED BY <1>6, <2>3, <2>4
<1> QED BY <1>7, <1>8

-----------------------------------------------------------------------------
(* The parts of the invariant that do not look into the queues.            *)
Sound(st) ==
    /\ IsCache(st) /\ st.order \in Nat /\ st.failed \in BOOLEAN
    /\ Timed(st) /\ Prefetcher(st) /\ st.tags = [a \in Addrs |-> st.tags[a]]

(* Blocks that were not in the cache are not there now.                    *)
Emptier(r, st) == \A b \in Addrs : st.tags[b] = {} => r.tags[b] = {}

SameButTags(r, st) ==
    /\ IsCache(r) /\ SameBlocking(r, st) /\ SameTiming(r, st)
    /\ r.mshrQueue = st.mshrQueue /\ r.writeBuffer = st.writeBuffer
    /\ r.order = st.order /\ r.pfq = st.pfq

Keeps(r, st) == \A x \in Nat : Soon(st, x) => Soon(r, x)

LEMMA SameView ==
    ASSUME NEW r, NEW st, SameBlocking(r, st), r.mshrQueue = st.mshrQueue,
           r.writeBuffer = st.writeBuffer
    PROVE  View(r) = View(st)
  BY DEF SameBlocking, View

LEMMA SameTags ==
    ASSUME NEW r, NEW st, Sound(st), SameButTags(r, st),
           r.tags = [a \in Addrs |-> r.tags[a]]
    PROVE  /\ Sound(r) /\ View(r) = View(st) /\ Keeps(r, st)
           /\ Awake(st) => Awake(r)
<1>1. View(r) = View(st)
  BY SameView DEF SameButTags
<1>2. Timed(r) /\ Prefetcher(r) /\ \A x \in Nat : Soon(st, x) => Soon(r, x)
  BY DEF Sound, SameButTags, SameTiming, Timed, Prefetcher, Soon
<1>3. Awake(st) => Awake(r)
  BY DEF SameButTags, SameTiming, Awake
<1> QED BY <1>1, <1>2, <1>3 DEF Sound, SameButTags, SameBlocking, Keeps

LEMMA CountSame ==
    ASSUME NEW st, NEW n \in Kinds, NEW k, k = Queue(st, n).allocated
    PROVE  Count(View(st), st.failed, n, k) = View(st)
<1> DEFINE v == View(st)
           w == Count(v, st.failed, n, k)
<1>1. /\ IsView(v) /\ v.failed = st.failed /\ v.allocated[n] = k
      /\ v.allocated = [j \in Kinds |-> v.allocated[j]]
  BY ViewIs, ViewCounts DEF Occupancy, Kinds
<1> HIDE DEF v
<1>2. /\ IsView(w) /\ w.noTarget = v.noTarget
      /\ Blocked5(w, v.blocked, v.portBlocked, v.mustSendRetry, v.retryScheduled, st.failed)
      /\ w.allocated = [v.allocated EXCEPT ![n] = k]
  BY <1>1, CountFacts
<1>3. w.allocated = v.allocated
  BY <1>1, <1>2
<1> HIDE DEF w
<1>4. w = v
  BY <1>1, <1>2, <1>3 DEF IsView, Blocked5
<1> QED BY <1>4 DEF w, v

(* MSHR in which a request joins others.                                   *)
LEMMA WaitsView ==
    ASSUME NEW st, IsCache(st), NEW i, NEW r, r = [st EXCEPT !.noTargetMSHR = i], NEW b,
           b = Waits(i)
    PROVE  /\ View(r) = [View(st) EXCEPT !.noTarget = b]
           /\ IsCache(r) /\ SameQueues(r, st) /\ SameTiming(r, st) /\ r.noTargetMSHR = i
           /\ r.failed = st.failed
<1>1. /\ IsCache(r) /\ SameQueues(r, st) /\ SameTiming(r, st) /\ r.noTargetMSHR = i
      /\ Blocked5(r, st.blocked, st.portBlocked, st.mustSendRetry, st.retryScheduled, st.failed)
  BY DEF IsCache, SameQueues, SameTiming, Blocked5
<1> DEFINE v == View(st)
           w == [v EXCEPT !.noTarget = b]
<1>2. /\ IsView(v) /\ v.noTarget = Waits(st.noTargetMSHR)
      /\ Blocked5(v, st.blocked, st.portBlocked, st.mustSendRetry, st.retryScheduled, st.failed)
      /\ v.allocated = Occupancy(st.mshrQueue.allocated, st.writeBuffer.allocated)
  BY ViewIs
<1> HIDE DEF v
<1>3. /\ IsView(w) /\ w.noTarget = b /\ w.allocated = v.allocated
      /\ Blocked5(w, v.blocked, v.portBlocked, v.mustSendRetry, v.retryScheduled, v.failed)
  BY <1>2 DEF IsView, Blocked5
<1> HIDE DEF w
<1>4. View(r) = w
  <2>1. Blocked5(w, r.blocked, r.portBlocked, r.mustSendRetry, r.retryScheduled, r.failed)
    BY <1>1, <1>2, <1>3 DEF Blocked5
  <2>2. /\ w.noTarget = Waits(r.noTargetMSHR)
        /\ w.allocated = Occupancy(r.mshrQueue.allocated, r.writeBuffer.allocated)
    BY <1>1, <1>2, <1>3 DEF SameQueues
  <2> QED BY <1>3, <2>1, <2>2, ViewFields
<1> QED BY <1>1, <1>4 DEF w, v, Blocked5

(* mustSendRetry and retryScheduled.                                       *)
LEMMA RetryFacts ==
    ASSUME NEW v, IsView(v), NEW m, NEW y,
           NEW w, w = [v EXCEPT !.mustSendRetry = m, !.retryScheduled = y]
    PROVE  /\ IsView(w) /\ w.noTarget = v.noTarget /\ w.allocated = v.allocated
           /\ Blocked5(w, v.blocked, v.portBlocked, m, y, v.failed)
  BY DEF IsView, Blocked5

Retries(st, m, y) == [st EXCEPT !.mustSendRetry = m, !.retryScheduled = y]

LEMMA RetryView ==
    ASSUME NEW st, IsCache(st), NEW m, NEW y, NEW r, r = Retries(st, m, y)
    PROVE  /\ View(r) = Retries(View(st), m, y)
           /\ IsCache(r) /\ SameQueues(r, st) /\ SameTiming(r, st)
           /\ r.noTargetMSHR = st.noTargetMSHR /\ r.failed = st.failed
<1>1. /\ IsCache(r) /\ SameQueues(r, st) /\ SameTiming(r, st)
      /\ r.noTargetMSHR = st.noTargetMSHR
      /\ Blocked5(r, st.blocked, st.portBlocked, m, y, st.failed)
  BY DEF Retries, IsCache, SameQueues, SameTiming, Blocked5
<1> DEFINE v == View(st)
           w == Retries(v, m, y)
<1>2. /\ IsView(v) /\ v.noTarget = Waits(st.noTargetMSHR)
      /\ Blocked5(v, st.blocked, st.portBlocked, st.mustSendRetry, st.retryScheduled, st.failed)
      /\ v.allocated = Occupancy(st.mshrQueue.allocated, st.writeBuffer.allocated)
  BY ViewIs
<1> HIDE DEF v
<1>3. /\ IsView(w) /\ w.noTarget = v.noTarget /\ w.allocated = v.allocated
      /\ Blocked5(w, v.blocked, v.portBlocked, m, y, v.failed)
  BY <1>2, RetryFacts, Zenon DEF Retries
<1> HIDE DEF w
<1>4. View(r) = w
  <2>1. Blocked5(w, r.blocked, r.portBlocked, r.mustSendRetry, r.retryScheduled, r.failed)
    BY <1>1, <1>2, <1>3 DEF Blocked5
  <2>2. /\ w.noTarget = Waits(r.noTargetMSHR)
        /\ w.allocated = Occupancy(r.mshrQueue.allocated, r.writeBuffer.allocated)
    BY <1>1, <1>2, <1>3 DEF SameQueues
  <2> QED BY <1>3, <2>1, <2>2, ViewFields
<1> QED BY <1>1, <1>4 DEF w, v, Blocked5

-----------------------------------------------------------------------------
(* The handlers of requests.                                               *)
Placed(r, st, n, new) ==
    /\ Sound(r) /\ SameRest(r, st) /\ r.noTargetMSHR = st.noTargetMSHR
    /\ Queue(r, n) = new /\ \A k \in Kinds : k # n => Queue(r, k) = Queue(st, k)
    /\ Keeps(r, st)
    /\ Awake(st) => Awake(r)

LEMMA ReplacedPlaced ==
    ASSUME NEW st, Sound(st), NEW n, NEW new, NEW r, Replaced(r, st, n, new),
           r.order \in Nat, r.failed \in BOOLEAN
    PROVE  Placed(r, st, n, new) /\ SameTiming(r, st)
<1>1. /\ IsCache(r) /\ SameTiming(r, st) /\ SameRest(r, st)
      /\ r.noTargetMSHR = st.noTargetMSHR /\ Queue(r, n) = new
      /\ \A k \in Kinds : k # n => Queue(r, k) = Queue(st, k)
  BY DEF Replaced
<1>2. r.tags = [a \in Addrs |-> r.tags[a]]
  BY <1>1 DEF Sound, SameRest
<1>3. Timed(r) /\ Prefetcher(r) /\ Keeps(r, st)
  BY <1>1 DEF Sound, SameTiming, SameRest, Timed, Prefetcher, Keeps, Soon
<1>4. Awake(st) => Awake(r)
  BY <1>1 DEF SameTiming, Awake
<1> QED BY <1>1, <1>2, <1>3, <1>4 DEF Sound, Placed

LEMMA ScheduledPlaced ==
    ASSUME NEW st, NEW n, NEW new, NEW m, Placed(m, st, n, new), NEW when \in Nat,
           NEW r, r = schedSendEvent(m, when)
    PROVE  /\ Placed(r, st, n, new) /\ r.order = m.order /\ View(r) = View(m)
           /\ Awake(r) /\ Soon(r, when)
<1>1. Sound(m) /\ IsCache(m) /\ Timed(m)
  BY DEF Placed, Sound
<1>2. /\ IsCache(r) /\ SameBlocking(r, m) /\ SameQueues(r, m) /\ Timed(r) /\ Awake(r)
      /\ Soon(r, when) /\ \A x \in Nat : Soon(m, x) => Soon(r, x)
  BY <1>1, SchedTime
<1>3. View(r) = View(m)
  BY <1>2, SameView DEF SameQueues
<1>4. \A k : Queue(r, k) = Queue(m, k)
  BY <1>2 DEF Queue, SameQueues
<1>5. Sound(r) /\ SameRest(r, st) /\ r.noTargetMSHR = st.noTargetMSHR
  BY <1>1, <1>2 DEF Sound, SameQueues, SameBlocking, Placed, SameRest, Prefetcher
<1>6. Keeps(r, st)
  BY <1>2 DEF Placed, Keeps
<1> QED BY <1>2, <1>3, <1>4, <1>5, <1>6 DEF Placed, SameQueues

(* An entry of a queue is taken, with or without a send event for it.      *)
Entered(r, st, n, new) ==
    /\ Placed(r, st, n, new) /\ r.order = st.order + 1
    /\ View(r) = Blocking!allocateBufferInternal(View(st), n)
Asked(st, n, a, cmd, when) == allocateBufferInternal(st, n, a, cmd, when, TRUE)
Quiet(st, n, a, cmd, when) == allocateBufferInternal(st, n, a, cmd, when, FALSE)

LEMMA BufferFacts ==
    ASSUME NEW st, Sound(st), NEW n \in Kinds, NEW a, NEW cmd, NEW when \in Nat, NEW new,
           new = MQ!MSHRQueue_allocate(Queue(st, n), a, cmd, when, st.order),
           Queue(st, n).allocated \in Nat, new.allocated = Queue(st, n).allocated + 1,
           Queue(st, n).allocated < Blocking!numEntries(n),
           MQ!isFull(new) <=> new.allocated >= Blocking!num_entries(n)
    PROVE  /\ Entered(Asked(st, n, a, cmd, when), st, n, new)
           /\ Awake(Asked(st, n, a, cmd, when)) /\ Soon(Asked(st, n, a, cmd, when), when)
           /\ Entered(Quiet(st, n, a, cmd, when), st, n, new)
           /\ SameTiming(Quiet(st, n, a, cmd, when), st)
<1> DEFINE m == Occupy(st, n, a, cmd, when)
           r == Asked(st, n, a, cmd, when)
           u == Quiet(st, n, a, cmd, when)
<1>1. /\ Replaced(m, st, n, new) /\ m.order = st.order + 1 /\ m.failed \in BOOLEAN
      /\ View(m) = Blocking!allocateBufferInternal(View(st), n)
  BY OccupyView DEF Sound
<1>2. r = schedSendEvent(m, when) /\ u = m
  BY DEF Asked, Quiet, allocateBufferInternal
<1> HIDE DEF m, r, u
<1>3. Placed(m, st, n, new) /\ SameTiming(m, st)
  <2>1. m.order \in Nat
    BY <1>1 DEF Sound
  <2> QED BY <1>1, <2>1, ReplacedPlaced
<1>4. /\ Placed(r, st, n, new) /\ r.order = m.order /\ View(r) = View(m)
      /\ Awake(r) /\ Soon(r, when)
  <2>1. when \in Nat
    OBVIOUS
  <2> QED BY ONLY <1>2, <1>3, <2>1, ScheduledPlaced
<1>5. Entered(r, st, n, new) /\ Entered(u, st, n, new) /\ SameTiming(u, st)
  BY <1>1, <1>2, <1>3, <1>4 DEF Entered
<1> QED BY <1>4, <1>5 DEF r, u

(* The block of a write miss becomes unreadable; the miss gets an MSHR.    *)
LEMMA AllocateFacts ==
    ASSUME NEW st, Sound(st), NEW a \in Addrs, NEW cmd, NEW lat \in Nat, NEW new,
           new = MQ!MSHRQueue_allocate(st.mshrQueue, a, cmd, lat, st.order),
           st.mshrQueue.allocated \in Nat, new.allocated = st.mshrQueue.allocated + 1,
           st.mshrQueue.allocated < Mshrs, MQ!isFull(new) <=> new.allocated >= Mshrs,
           NEW r, r = Allocate(st, a, cmd, lat)
    PROVE  /\ Sound(r) /\ r.mshrQueue = new /\ r.writeBuffer = st.writeBuffer
           /\ r.order = st.order + 1 /\ r.noTargetMSHR = st.noTargetMSHR
           /\ r.pfq = st.pfq /\ Emptier(r, st) /\ Keeps(r, st) /\ Awake(r) /\ Soon(r, lat)
           /\ View(r) = Blocking!allocateBufferInternal(View(st), "MSHRs")
           /\ SameBook(r, st) /\ r.tags[a] = st.tags[a] \ {"Readable"}
           /\ \A x \in Addrs : x # a => r.tags[x] = st.tags[x]
<1> DEFINE n == "MSHRs"
           c == Present(st, a) => /\ MQ!NeedsExclusive(cmd) /\ "Writable" \notin st.tags[a]
           b == st.broken \/ ~c
           y == st.tags[a] \ {"Readable"}
           z == [st.tags EXCEPT ![a] = y]
           k == [st EXCEPT !.broken = b]
           m == [k EXCEPT !.tags[a] = @ \ {"Readable"}]
<1>1. r = Asked(m, n, a, cmd, lat)
  BY DEF Allocate, Assert_, Asked
<1>2. SameButTags(m, st) /\ m.tags = z /\ SameBook(m, st)
  <2> HIDE DEF b
  <2>1. m = [[st EXCEPT !.broken = b] EXCEPT !.tags = z]
    BY Zenon DEF Sound, IsCache
  <2> HIDE DEF z, m, k
  <2> QED BY <2>1 DEF Sound, IsCache, SameButTags, SameBlocking, SameTiming, SameBook
<1> HIDE DEF m, k, b, c
<1>3. /\ z = [x \in Addrs |-> z[x]] /\ \A x \in Addrs : st.tags[x] = {} => z[x] = {}
      /\ z[a] = st.tags[a] \ {"Readable"} /\ \A x \in Addrs : x # a => z[x] = st.tags[x]
  BY DEF Sound
<1>4. Sound(m) /\ View(m) = View(st) /\ Keeps(m, st) /\ Emptier(m, st)
  BY <1>2, <1>3, SameTags DEF Emptier
<1>5. m.mshrQueue = st.mshrQueue /\ m.order = st.order /\ Queue(m, n) = st.mshrQueue
      /\ m.writeBuffer = st.writeBuffer /\ m.noTargetMSHR = st.noTargetMSHR /\ m.pfq = st.pfq
  BY <1>2 DEF SameButTags, SameBlocking, Queue
<1>6. n \in Kinds /\ Blocking!num_entries(n) = Mshrs /\ Blocking!numEntries(n) = Mshrs + 3
  BY MissPathAssumption DEF Kinds, Blocking!num_entries, Blocking!numEntries,
      Blocking!numReserve
<1>7. /\ Queue(m, n).allocated < Blocking!numEntries(n) /\ Queue(m, n).allocated \in Nat
      /\ new = MQ!MSHRQueue_allocate(Queue(m, n), a, cmd, lat, m.order)
      /\ new.allocated = Queue(m, n).allocated + 1
      /\ MQ!isFull(new) <=> new.allocated >= Blocking!num_entries(n)
  BY <1>5, <1>6, MissPathAssumption
<1> HIDE DEF n
<1>8. /\ Placed(r, m, n, new) /\ r.order = m.order + 1 /\ Awake(r) /\ Soon(r, lat)
      /\ View(r) = Blocking!allocateBufferInternal(View(m), n)
  <2>1. lat \in Nat
    OBVIOUS
  <2>2. Entered(r, m, n, new) /\ Awake(r) /\ Soon(r, lat)
    BY ONLY <1>1, <1>4, <1>6, <1>7, <2>1, BufferFacts
  <2> QED BY <2>2 DEF Entered
<1>9. r.mshrQueue = new /\ r.writeBuffer = st.writeBuffer
  BY <1>5, <1>8 DEF Placed, Queue, Kinds, n
<1>10. Emptier(r, st) /\ Keeps(r, st) /\ Sound(r) /\ r.pfq = st.pfq
       /\ r.noTargetMSHR = st.noTargetMSHR
  BY <1>4, <1>5, <1>8 DEF Placed, SameRest, Emptier, Keeps
<1>11. SameBook(r, st) /\ r.tags = z
  BY <1>2, <1>8 DEF Placed, SameRest, SameBook
<1> QED BY <1>3, <1>4, <1>5, <1>8, <1>9, <1>10, <1>11 DEF n

(* A request joins an MSHR; it may be the last one there is room for.      *)
Joined(q, i, cmd, lat, o) ==
    [q EXCEPT !.registers[i] = MQ!MSHR_allocateTarget(q.registers[i], cmd, lat, o)]
LastTarget(v) == Blocking!setBlocked([v EXCEPT !.noTarget = TRUE], "NoTargets")

LEMMA CoalesceFacts ==
    ASSUME NEW st, Sound(st), NEW i, i # 0, NEW cmd, NEW lat, NEW new,
           new = Joined(st.mshrQueue, i, cmd, lat, st.order),
           new.allocated = st.mshrQueue.allocated,
           NEW r, r = Coalesce(st, i, cmd, lat)
    PROVE  /\ Sound(r) /\ r.mshrQueue = new /\ r.writeBuffer = st.writeBuffer
           /\ r.order = st.order + 1 /\ r.noTargetMSHR \in {st.noTargetMSHR, i}
           /\ r.pfq = st.pfq /\ r.tags = st.tags /\ Keeps(r, st)
           /\ Awake(st) => Awake(r)
           /\ View(r) = View(st) \/ View(r) = LastTarget(View(st))
           /\ SameBook(r, st)
<1> DEFINE n == "MSHRs"
           o == st.order + 1
           put == PutQueue(st, n, new, o)
           m == [put EXCEPT !.noTargetMSHR = i]
           g == MQ!getNumTargets(put.mshrQueue.registers[i]) = NumTarget
<1>1. r = IF g THEN Blocking!setBlocked(m, "NoTargets") ELSE put
  <2> DEFINE e == MQ!MSHR_allocateTarget(st.mshrQueue.registers[i], cmd, lat, st.order)
             added == [st EXCEPT !.mshrQueue.registers[i] = e, !.order = o]
  <2>1. r = IF MQ!getNumTargets(added.mshrQueue.registers[i]) = NumTarget
            THEN Blocking!setBlocked([added EXCEPT !.noTargetMSHR = i], "NoTargets")
            ELSE added
    BY DEF Coalesce
  <2> HIDE DEF e, o
  <2>2. added = [st EXCEPT !.mshrQueue = [st.mshrQueue EXCEPT !.registers[i] = e], !.order = o]
    BY DEF Sound, IsCache
  <2>3. added = put
    BY <2>2 DEF PutQueue, e, Joined
  <2> HIDE DEF added, put
  <2> QED BY <2>1, <2>3
<1>2. n \in Kinds /\ new.allocated = Queue(st, n).allocated
  BY DEF Kinds, Queue
<1>3. Replaced(put, st, n, new) /\ put.order = o /\ put.failed \in BOOLEAN
  <2> HIDE DEF o, n
  <2>1. IsCache(st) /\ st.failed \in BOOLEAN
    BY DEF Sound
  <2> QED BY <1>2, <2>1, PutReplaced
<1>4. View(put) = View(st)
  <2> HIDE DEF o, n
  <2>1. View(put) = Count(View(st), st.failed, n, new.allocated)
    <3>1. IsCache(st) /\ put = PutQueue(st, n, new, o)
      BY DEF Sound
    <3> HIDE DEF put
    <3> QED BY ONLY <1>2, <3>1, PutQueueView
  <2> QED BY <1>2, <2>1, CountSame
<1>5. o \in Nat
  BY DEF Sound
<1> HIDE DEF put, o, m, g
<1>6. Placed(put, st, n, new)
  BY <1>3, <1>5, ReplacedPlaced
<1>7. /\ put.mshrQueue = new /\ put.writeBuffer = st.writeBuffer /\ put.pfq = st.pfq
      /\ put.tags = st.tags /\ SameBook(put, st)
  BY <1>6 DEF Placed, Queue, Kinds, SameRest, SameBook
<1>8. CASE ~g
  <2>1. r = put
    BY <1>1, <1>8
  <2> QED BY <1>3, <1>4, <1>6, <1>7, <2>1 DEF Placed, o
<1>9. CASE g
  <2> DEFINE b == TRUE
  <2>1. IsCache(put) /\ b = Waits(i) /\ m = [put EXCEPT !.noTargetMSHR = i]
    BY <1>6 DEF Placed, Sound, Waits, m
  <2> HIDE DEF b
  <2>2. /\ View(m) = [View(put) EXCEPT !.noTarget = b]
        /\ IsCache(m) /\ SameQueues(m, put) /\ SameTiming(m, put) /\ m.noTargetMSHR = i
        /\ m.failed = put.failed
    BY <2>1, WaitsView
  <2>3. r = Blocking!setBlocked(m, "NoTargets")
    BY <1>1, <1>9
  <2>4. /\ OnlyBlocking(r, m) /\ View(r) = Blocking!setBlocked(View(m), "NoTargets")
        /\ r.failed \in BOOLEAN
    BY <1>3, <2>2, <2>3, SetBlockedFacts, BlockedFlag
  <2>5. /\ IsCache(r) /\ r.noTargetMSHR = i /\ r.mshrQueue = new
        /\ r.writeBuffer = st.writeBuffer /\ r.order = o /\ r.pfq = st.pfq
        /\ r.tags = st.tags /\ SameTiming(r, put) /\ SameBook(r, st)
    BY <1>3, <1>7, <2>2, <2>4 DEF OnlyBlocking, SameQueues, SameTiming, SameBook
  <2>6. Sound(r)
    BY <1>5, <1>6, <2>4, <2>5 DEF Placed, Sound, SameTiming, Timed, Prefetcher
  <2>7. /\ Keeps(r, st)
        /\ Awake(st) => Awake(r)
    BY <1>6, <2>5 DEF Placed, Keeps, SameTiming, Soon, Awake
  <2> QED BY <1>4, <2>2, <2>4, <2>5, <2>6, <2>7 DEF o, b, LastTarget
<1> QED BY <1>8, <1>9

(* The status bits of one block change.                                    *)
Tag(st, a, y) == [st EXCEPT !.tags[a] = y]

LEMMA TagFacts ==
    ASSUME NEW st, Sound(st), NEW a \in Addrs, NEW y, NEW r, r = Tag(st, a, y)
    PROVE  /\ SameButTags(r, st) /\ r.tags = [b \in Addrs |-> r.tags[b]] /\ r.tags[a] = y
           /\ \A b \in Addrs : b # a => r.tags[b] = st.tags[b]
           /\ SameBook(r, st)
<1> DEFINE z == [st.tags EXCEPT ![a] = y]
<1>1. IsCache(st) /\ st.tags = [b \in Addrs |-> st.tags[b]]
  BY DEF Sound
<1>2. r = [st EXCEPT !.tags = z]
  BY <1>1 DEF Tag, IsCache
<1>3. /\ z = [b \in Addrs |-> z[b]] /\ z[a] = y
      /\ \A b \in Addrs : b # a => z[b] = st.tags[b]
  BY <1>1
<1> HIDE DEF z
<1>4. SameButTags(r, st) /\ r.tags = z /\ SameBook(r, st)
  BY <1>1, <1>2 DEF IsCache, SameButTags, SameBlocking, SameTiming, SameBook
<1> QED BY <1>3, <1>4

(* Cache::recvTimingReq, by cases.                                         *)
HitStatus(b, cmd) ==
    (b \ {"HWPrefetched"}) \cup IF cmd = "WriteReq" THEN {"Dirty"} ELSE {}

LEMMA RequestCases ==
    ASSUME NEW st, NEW a, NEW cmd, NEW lat, NEW pf, NEW i, i = MQ!findMatch(st.mshrQueue, a),
           NEW r, r = recvTimingReq(st, a, cmd, lat, pf)
    PROVE  /\ Hit(st, a, cmd) =>
                 \E y : /\ y = HitStatus(st.tags[a], cmd)
                        /\ r = Tag(st, a, y) \/ r = Notified(Tag(st, a, y), a, pf, lat)
           /\ ~Hit(st, a, cmd) /\ i # 0 =>
                 r = Notified(Coalesce(st, i, cmd, lat), a, pf, lat)
           /\ ~Hit(st, a, cmd) /\ i = 0 =>
                 r = Notified(Allocate(st, a, cmd, lat), a, pf, lat)
<1> DEFINE y == HitStatus(st.tags[a], cmd)
           hit == Tag(st, a, y)
<1>1. r = IF Hit(st, a, cmd)
          THEN IF "HWPrefetched" \in st.tags[a] THEN Notified(hit, a, pf, lat) ELSE hit
          ELSE Notified(IF i # 0 THEN Coalesce(st, i, cmd, lat)
                                 ELSE Allocate(st, a, cmd, lat), a, pf, lat)
  BY DEF recvTimingReq, Tag, HitStatus
<1>2. y = HitStatus(st.tags[a], cmd)
  OBVIOUS
<1> HIDE DEF y
<1> QED BY <1>1, <1>2

LEMMA HitPresent ==
    ASSUME NEW st, NEW a, NEW cmd, Hit(st, a, cmd)
    PROVE  st.tags[a] # {}
  BY DEF Hit

-----------------------------------------------------------------------------
(* The choice of the request to send.                                      *)
LEMMA NextQueuedCases ==
    ASSUME NEW st, NEW miss, miss = MQ!getNextMSHR(st.mshrQueue),
           NEW write, write = WB!getNextMSHR(st.writeBuffer), NEW n, n = NextQueued(st)
    PROVE  \/ n = None /\ miss = 0 /\ write = 0
           \/ \E i : /\ n = MissEntry(i) /\ i # 0
                     /\ \/ i = miss
                        \/ i = MQ!findPending(st.mshrQueue,
                                              st.writeBuffer.registers[write].blkAddr)
           \/ \E i : /\ n = WriteEntry(i) /\ i # 0
                     /\ \/ i = write
                        \/ /\ miss # 0
                           /\ i = WB!findPending(st.writeBuffer,
                                                 st.mshrQueue.registers[miss].blkAddr)
<1> DEFINE early == MQ!findPending(st.mshrQueue, st.writeBuffer.registers[write].blkAddr)
           pend == WB!findPending(st.writeBuffer, st.mshrQueue.registers[miss].blkAddr)
           prefer == write # 0 /\ \/ miss = 0
                                  \/ /\ WB!isFull(st.writeBuffer)
                                     /\ st.writeBuffer.inServiceEntries = 0
           first == /\ early # 0
                    /\ st.mshrQueue.registers[early].order
                         < st.writeBuffer.registers[write].order
<1>1. n = IF prefer THEN IF first THEN MissEntry(early) ELSE WriteEntry(write)
          ELSE IF miss = 0 THEN None
          ELSE IF pend # 0 THEN WriteEntry(pend) ELSE MissEntry(miss)
  BY DEF NextQueued
<1>2. /\ prefer => write # 0
      /\ first => early # 0
      /\ ~prefer /\ miss = 0 => write = 0
  OBVIOUS
<1> HIDE DEF early, pend, prefer, first
<1>3. \/ n = None /\ miss = 0 /\ write = 0
      \/ n = MissEntry(early) /\ early # 0
      \/ n = MissEntry(miss) /\ miss # 0
      \/ n = WriteEntry(write) /\ write # 0
      \/ n = WriteEntry(pend) /\ pend # 0 /\ miss # 0
  BY <1>1, <1>2
<1> QED BY <1>3 DEF early, pend

LEMMA EntryKinds ==
    /\ None.queue = "none" /\ None.i = 0
    /\ \A i : /\ MissEntry(i).queue = "MSHRs" /\ MissEntry(i).i = i /\ MissEntry(i) # None
              /\ WriteEntry(i).queue = "WriteBuffer" /\ WriteEntry(i).i = i
              /\ WriteEntry(i) # None
  BY DEF None, MissEntry, WriteEntry

LEMMA NextQueuedSame ==
    ASSUME NEW r, NEW st, r.mshrQueue = st.mshrQueue, r.writeBuffer = st.writeBuffer
    PROVE  NextQueued(r) = NextQueued(st)
  BY Zenon DEF NextQueued

(* A prefetch leaves the queue of the prefetcher.                          *)
Popped(st) == [st EXCEPT !.pfq = Tail(@)]

LEMMA PoppedFacts ==
    ASSUME NEW st, Sound(st), st.pfq # <<>>, NEW r, r = Popped(st)
    PROVE  /\ Sound(r) /\ SamePlace(r, st) /\ SameTiming(r, st) /\ View(r) = View(st)
           /\ Len(r.pfq) = Len(st.pfq) - 1
<1> DEFINE l == Tail(st.pfq)
<1>1. IsCache(st) /\ Prefetcher(st) /\ Timed(st)
  BY DEF Sound
<1>2. r = [st EXCEPT !.pfq = l]
  BY <1>1 DEF Popped, IsCache
<1>3. st.pfq \in Seq(Planned) /\ Len(st.pfq) <= QueueSize
  BY <1>1 DEF Prefetcher, Planned
<1>4. l \in Seq(Planned) /\ Len(l) = Len(st.pfq) - 1
  BY <1>3
<1>5. Len(st.pfq) \in Nat
  BY <1>3
<1> HIDE DEF l
<1>6. IsCache(r) /\ SamePlace(r, st) /\ SameTiming(r, st) /\ r.pfq = l
  BY <1>1, <1>2 DEF IsCache, SamePlace, SameBlocking, SameTiming
<1>7. Len(l) <= QueueSize
  BY <1>3, <1>4, <1>5, MissPathAssumption
<1>8. Prefetcher(r)
  BY <1>4, <1>6, <1>7 DEF Prefetcher, Planned
<1>9. Sound(r)
  BY <1>6, <1>8 DEF Sound, SamePlace, SameBlocking, SameTiming, Timed
<1>10. View(r) = View(st)
  BY <1>6, SameView DEF SamePlace
<1> QED BY <1>4, <1>6, <1>9, <1>10

(* A queue of the cache gives an entry back, or only changes it.           *)
Released(r, st, n, new) ==
    /\ Placed(r, st, n, new) /\ SameTiming(r, st) /\ r.order = st.order
    /\ new.allocated = Queue(st, n).allocated => View(r) = View(st)
    /\ new.allocated = Queue(st, n).allocated - 1 =>
          View(r) = Blocking!deallocate(View(st), n)

LEMMA ReleaseFacts ==
    ASSUME NEW st, Sound(st), NEW n \in Kinds, NEW new,
           Queue(st, n).allocated \in Nat, new.allocated \in Nat,
           MQ!isFull(Queue(st, n)) <=> Queue(st, n).allocated >= Blocking!num_entries(n),
           MQ!isFull(new) <=> new.allocated >= Blocking!num_entries(n),
           NEW r, r = Release(st, n, new)
    PROVE  Released(r, st, n, new)
<1>1. /\ Replaced(r, st, n, new) /\ r.order = st.order /\ r.failed \in BOOLEAN
      /\ new.allocated = Queue(st, n).allocated => View(r) = View(st)
      /\ new.allocated = Queue(st, n).allocated - 1 =>
            View(r) = Blocking!deallocate(View(st), n)
  BY ReleaseView DEF Sound
<1>2. r.order \in Nat
  BY <1>1 DEF Sound
<1>3. Placed(r, st, n, new) /\ SameTiming(r, st)
  BY <1>1, <1>2, ReplacedPlaced
<1> QED BY <1>1, <1>3 DEF Released

LEMMA MarkFacts ==
    ASSUME NEW st, NEW n \in Kinds, NEW i, NEW pd
    PROVE  markInService(st, n, i, pd)
             = Release(st, n, MQ!MSHRQueue_markInService(Queue(st, n), i, pd))
  BY DEF markInService, Queue

(* SendMiss and SendWrite: what is recorded before the entry is marked.    *)
LEMMA SendMissFacts ==
    ASSUME NEW st, Sound(st), NEW i, NEW ans, NEW r, r = SendMiss(st, i, ans)
    PROVE  \E x : /\ SameButTags(x, st) /\ x.tags = st.tags /\ x.owed = st.owed
                  /\ x.answer = [st.answer EXCEPT
                                    ![st.mshrQueue.registers[i].blkAddr] = ans]
                  /\ r = markInService(x, "MSHRs", i, ans = "Dirty")
<1> DEFINE m == st.mshrQueue.registers[i]
           c == Present(st, m.blkAddr) => /\ m.targets.needsExclusive
                                          /\ "Writable" \notin st.tags[m.blkAddr]
           b == st.broken \/ ~c
           e == [st.answer EXCEPT ![m.blkAddr] = ans]
           k == [st EXCEPT !.broken = b]
           x == [k EXCEPT !.answer[m.blkAddr] = ans]
<1>1. r = markInService(x, "MSHRs", i, ans = "Dirty")
  BY DEF SendMiss, Assert_
<1>2. SameButTags(x, st) /\ x.tags = st.tags /\ x.owed = st.owed /\ x.answer = e
  <2>1. IsCache(st)
    BY DEF Sound
  <2> HIDE DEF b
  <2>2. x = [[st EXCEPT !.broken = b] EXCEPT !.answer = e]
    BY <2>1 DEF IsCache
  <2> HIDE DEF x, k, e
  <2> QED BY <2>1, <2>2, Zenon DEF IsCache, SameButTags, SameBlocking, SameTiming
<1> HIDE DEF x
<1> QED BY <1>1, <1>2

LEMMA SendWriteFacts ==
    ASSUME NEW st, Sound(st), NEW i, NEW r, r = SendWrite(st, i)
    PROVE  \E x, pd : /\ SameButTags(x, st) /\ x.tags = st.tags /\ SameBook(x, st)
                      /\ r = markInService(x, "WriteBuffer", i, pd)
<1> DEFINE b == st.broken \/ ~(~Present(st, st.writeBuffer.registers[i].blkAddr))
           x == [st EXCEPT !.broken = b]
           no == FALSE
<1>1. r = markInService(x, "WriteBuffer", i, no)
  BY DEF SendWrite, Assert_
<1>2. SameButTags(x, st) /\ x.tags = st.tags /\ SameBook(x, st)
  <2>1. IsCache(st)
    BY DEF Sound
  <2> HIDE DEF b
  <2> QED BY <2>1 DEF IsCache, SameButTags, SameBlocking, SameTiming, SameBook
<1> HIDE DEF x, no
<1> QED BY <1>1, <1>2

(* Cache::recvTimingResp: room for targets again.                          *)
RoomAgain(v) == [Blocking!clearBlocked(v, "NoTargets") EXCEPT !.noTarget = FALSE]

LEMMA UnblockedFacts ==
    ASSUME NEW st, Sound(st), NEW i, NEW r, r = Unblocked(st, i)
    PROVE  /\ Sound(r) /\ SameQueues(r, st) /\ SameTiming(r, st) /\ Keeps(r, st)
           /\ Awake(st) => Awake(r)
           /\ st.noTargetMSHR = i => View(r) = RoomAgain(View(st)) /\ r.noTargetMSHR = 0
           /\ st.noTargetMSHR # i => r = st
<1>1. CASE st.noTargetMSHR = i
  <2> DEFINE m == Blocking!clearBlocked(st, "NoTargets")
             no == Waits(0)
  <2>1. IsCache(st) /\ st.failed \in BOOLEAN
    BY DEF Sound
  <2>2. /\ OnlyBlocking(m, st) /\ View(m) = Blocking!clearBlocked(View(st), "NoTargets")
        /\ m.failed \in BOOLEAN
    BY <2>1, ClearBlockedFacts, BlockedFlag
  <2>3. r = [m EXCEPT !.noTargetMSHR = 0]
    BY <1>1 DEF Unblocked
  <2> HIDE DEF m
  <2>4. /\ View(r) = [View(m) EXCEPT !.noTarget = no]
        /\ IsCache(r) /\ SameQueues(r, m) /\ SameTiming(r, m) /\ r.noTargetMSHR = 0
        /\ r.failed = m.failed
    <3>1. IsCache(m)
      BY <2>2 DEF OnlyBlocking
    <3>2. no = Waits(0)
      OBVIOUS
    <3> HIDE DEF no
    <3> QED BY ONLY <2>3, <3>1, <3>2, WaitsView
  <2>5. no = FALSE
    BY DEF Waits
  <2> HIDE DEF no
  <2>6. View(r) = RoomAgain(View(st))
    BY <2>2, <2>4, <2>5, Zenon DEF RoomAgain
  <2>7. SameQueues(r, st) /\ SameTiming(r, st)
    BY <2>2, <2>4 DEF OnlyBlocking, SameQueues, SameTiming
  <2>8. Sound(r)
    BY <2>2, <2>4, <2>7 DEF Sound, SameQueues, SameTiming, Timed, Prefetcher
  <2>9. /\ Keeps(r, st)
        /\ Awake(st) => Awake(r)
    BY <2>7 DEF SameTiming, Keeps, Soon, Awake
  <2> QED BY <1>1, <2>4, <2>6, <2>7, <2>8, <2>9
<1>2. CASE st.noTargetMSHR # i
  <2>1. r = st
    BY <1>2 DEF Unblocked
  <2> QED BY <1>2, <2>1 DEF SameQueues, SameTiming, Keeps
<1> QED BY <1>1, <1>2

(* After the MSHR is answered: a rerequest, or a prefetch.                 *)
LEMMA AskAgainFacts ==
    ASSUME NEW st, Sound(st), NEW again \in BOOLEAN, NEW payload \in Nat,
           NEW r, r = AskAgain(st, again, payload)
    PROVE  /\ Sound(r) /\ SameBlocking(r, st) /\ SameQueues(r, st) /\ Keeps(r, st)
           /\ View(r) = View(st)
           /\ again => \A x \in Nat : Soon(r, x)
           /\ MQ!canPrefetch(st.mshrQueue) /\ st.pfq # <<>> => Awake(r)
<1>1. IsCache(st) /\ Timed(st) /\ Prefetcher(st)
  BY DEF Sound
<1>2. ASSUME NEW z, Sound(z), NEW when \in Nat, r = schedSendEvent(z, when)
      PROVE  /\ Sound(r) /\ SameBlocking(r, z) /\ SameQueues(r, z) /\ Keeps(r, z)
             /\ Awake(r) /\ View(r) = View(z)
             /\ when <= z.payload => \A x \in Nat : Soon(r, x)
  <2>1. /\ IsCache(r) /\ SameBlocking(r, z) /\ SameQueues(r, z)
        /\ Timed(r) /\ Awake(r)
        /\ \A x \in Nat : Soon(z, x) => Soon(r, x)
        /\ when <= z.payload => \A x \in Nat : Soon(r, x)
    <3>1. r = schedSendEvent(z, when) /\ when \in Nat
      BY <1>2
    <3>2. IsCache(z) /\ Timed(z)
      BY <1>2 DEF Sound
    <3> QED BY ONLY <3>1, <3>2, SchedTime
  <2>2. Sound(r)
    BY <1>2, <2>1 DEF Sound, SameQueues, SameBlocking, Prefetcher
  <2>3. View(r) = View(z)
    BY <2>1, SameView DEF SameQueues
  <2> QED BY <2>1, <2>2, <2>3 DEF Keeps
<1>3. CASE again
  <2> DEFINE z == [st EXCEPT !.payload = payload]
  <2>1. r = schedSendEvent(z, payload)
    BY <1>3 DEF AskAgain
  <2>2. /\ IsCache(z) /\ SameBlocking(z, st) /\ SameQueues(z, st) /\ z.payload = payload
        /\ z.sendEvent = st.sendEvent /\ z.waitingOnRetry = st.waitingOnRetry
        /\ z.snoopRespQueue = st.snoopRespQueue
    BY <1>1 DEF IsCache, SameBlocking, SameQueues
  <2> HIDE DEF z
  <2>3. Sound(z) /\ payload <= z.payload
    BY <2>2 DEF Sound, SameQueues, SameBlocking, Timed, Prefetcher
  <2>4. View(z) = View(st)
    BY <2>2, SameView DEF SameQueues
  <2>5. /\ Sound(r) /\ SameBlocking(r, z) /\ SameQueues(r, z) /\ Awake(r)
        /\ View(r) = View(z) /\ \A x \in Nat : Soon(r, x)
    BY <1>2, <2>1, <2>3
  <2> QED BY <2>2, <2>4, <2>5 DEF SameBlocking, SameQueues, Keeps
<1>4. CASE ~again /\ MQ!canPrefetch(st.mshrQueue) /\ st.pfq # <<>>
  <2> DEFINE t == Min(PrefetchReady(st))
  <2>1. r = schedSendEvent(st, t)
    BY <1>4 DEF AskAgain
  <2>2. t \in Nat
    <3>1. PrefetchReady(st) \subseteq Nat /\ PrefetchReady(st) # {}
      BY <1>1, <1>4, PrefetchTime
    <3> HIDE DEF t
    <3>2. Min(PrefetchReady(st)) \in PrefetchReady(st)
      BY <3>1, LeastTime
    <3> QED BY <3>1, <3>2 DEF t
  <2> HIDE DEF t
  <2> QED BY <1>2, <1>4, <2>1, <2>2
<1>5. CASE ~again /\ ~(MQ!canPrefetch(st.mshrQueue) /\ st.pfq # <<>>)
  <2>1. r = st
    BY <1>5 DEF AskAgain
  <2> QED BY <1>5, <2>1 DEF SameBlocking, SameQueues, Keeps
<1> QED BY <1>3, <1>4, <1>5

(* Responses to snoops go behind the ones that wait, and delay no less.    *)
Longer(e, q) == Answering(e) /\ \A t : Delays(q, t) => Delays(e, t)

LEMMA SupplyFacts ==
    ASSUME NEW q, Answering(q), NEW a \in Addrs, NEW lat \in Nat, NEW n \in Nat,
           NEW e, e = doTimingSupplyResponse(q, a, lat, n)
    PROVE  Longer(e, q)
<1> DEFINE when == IF q = <<>> THEN lat ELSE Max({lat, Last(q).tick})
           p == [addr |-> a, tick |-> when]
           f == [k \in 1 .. n |-> p]
<1>1. q \in Seq(Planned)
  BY DEF Answering
<1>2. when \in Nat
  <2>1. CASE q = <<>>
    BY <2>1
  <2>2. CASE q # <<>>
    <3>1. Last(q) \in Planned
      BY <1>1, <2>2 DEF Last
    <3>2. Last(q).tick \in Nat
      BY <3>1 DEF Planned
    <3>3. Max({lat, Last(q).tick}) \in {lat, Last(q).tick}
      BY <3>2, LaterOne
    <3> QED BY <2>2, <3>2, <3>3
  <2> QED BY <2>1, <2>2
<1>3. e = q \o f
  BY DEF doTimingSupplyResponse
<1> HIDE DEF when
<1>4. p \in Planned
  BY <1>2 DEF Planned
<1> HIDE DEF p
<1>5. f \in Seq(Planned)
  BY <1>4
<1> HIDE DEF f
<1>6. e \in Seq(Planned)
  BY <1>1, <1>3, <1>5
<1>7. q # <<>> => e # <<>> /\ Head(e) = Head(q)
  BY <1>1, <1>3, <1>5
<1> QED BY <1>6, <1>7 DEF Longer, Answering, Delays

(* The fill: the block, the answer and the snoops that were promised one.  *)
Fill(st, b, a, y, n, o, e) ==
    [[st EXCEPT !.broken = b] EXCEPT !.tags[a] = y, !.answer[a] = n, !.owed[a] = o,
                                     !.snoopRespQueue = e]

Noted(r, st, a, n, o) ==
    r.answer = [st.answer EXCEPT ![a] = n] /\ r.owed = [st.owed EXCEPT ![a] = o]

FilledIn(r, st, a, y, n, o) ==
    /\ SameButTags(r, st) /\ r.tags = [x \in Addrs |-> r.tags[x]]
    /\ \A x \in Addrs : x # a => r.tags[x] = st.tags[x]
    /\ r.tags[a] = y /\ Noted(r, st, a, n, o)

LEMMA FillFacts ==
    ASSUME NEW st, Sound(st), NEW b, NEW a \in Addrs, NEW y, NEW n, NEW o, NEW e,
           Longer(e, st.snoopRespQueue), NEW r, r = Fill(st, b, a, y, n, o, e)
    PROVE  FilledIn(r, st, a, y, n, o)
<1> DEFINE z == [st.tags EXCEPT ![a] = y]
           f == [st.answer EXCEPT ![a] = n]
           g == [st.owed EXCEPT ![a] = o]
<1>1. IsCache(st) /\ st.tags = [x \in Addrs |-> st.tags[x]]
  BY DEF Sound
<1>2. r = [[st EXCEPT !.broken = b] EXCEPT !.tags = z, !.answer = f, !.owed = g,
                                           !.snoopRespQueue = e]
  BY <1>1 DEF Fill, IsCache
<1>3. /\ z = [x \in Addrs |-> z[x]] /\ z[a] = y
      /\ \A x \in Addrs : x # a => z[x] = st.tags[x]
  BY <1>1
<1> HIDE DEF z, f, g
<1> DEFINE k == [st EXCEPT !.broken = b]
<1>4. r = [k EXCEPT !.tags = z, !.answer = f, !.owed = g, !.snoopRespQueue = e]
  BY <1>2
<1>5. SameButTags(k, st) /\ k.snoopRespQueue = st.snoopRespQueue
  BY <1>1 DEF IsCache, SameButTags, SameBlocking, SameTiming
<1> HIDE DEF k
<1>6. SameButTags(r, k) /\ r.tags = z /\ r.answer = f /\ r.owed = g
  BY <1>4, <1>5, Zenon DEF IsCache, SameButTags, SameBlocking, SameTiming, Longer
<1>7. SameButTags(r, st)
  BY <1>5, <1>6 DEF SameButTags, SameBlocking, SameTiming
<1> QED BY <1>3, <1>6, <1>7 DEF f, g, Noted, FilledIn

(* Cache::recvTimingResp, by its parts.                                    *)
Given(z, st, i, payload) ==
    AskAgain(Release(z, "MSHRs", MQ!Answered(FilledQueue(st, i), i)), Again(st, i), payload)
Finish(z, st, i, r, lat, payload) ==
    \/ r = Given(z, st, i, payload)
    \/ \E b \in Addrs : r = WriteBack(Given(z, st, i, payload), b, lat)

Refilled(z, u, a) ==
    /\ SameButTags(z, u) /\ z.tags = [x \in Addrs |-> z.tags[x]]
    /\ \A x \in Addrs : x # a => z.tags[x] = u.tags[x] \/ z.tags[x] = {}

(* The book of promises.                                                   *)
Booked(z, u, a, b, n, k) ==
    (z.tags[a] = {} \/ z.tags[a] = b) /\ Noted(z, u, a, n, k)

LEMMA RespondCases ==
    ASSUME NEW st, NEW i, NEW a, a = st.mshrQueue.registers[i].blkAddr, a \in Addrs,
           NEW v \in Victims(st), NEW lat, NEW supply \in Nat, NEW payload,
           NEW u, u = Unblocked(st, i), Sound(u), Serving(st, i).supplied \in Nat,
           NEW r, r = recvTimingResp(st, i, v, lat, supply, payload)
    PROVE  \E z : /\ Refilled(z, u, a) /\ Finish(z, st, i, r, lat, payload)
                  /\ Booked(z, u, a, Remains(st, i), "none",
                            u.owed[a] - Serving(st, i).supplied)
<1> DEFINE A == st.mshrQueue.registers[i].blkAddr
           U == Unblocked(st, i)
           temp == UsesTempBlock(st, A, v)
           evict == ~Present(st, A) /\ v # "none" /\ ~temp
           done == Serving(st, i)
           visible == Remains(st, i)
           victimMSHR == st.mshrQueue.registers[MQ!findMatch(st.mshrQueue, v)]
           c == /\ ~done.broken
                /\ temp => /\ "Writable" \in st.tags[v] => "Dirty" \in st.tags[v]
                           /\ victimMSHR.targets.needsExclusive
                /\ temp /\ FilledQueue(st, i).registers[i].postInvalidate => done.blk = {}
           bad == U.broken \/ ~c
           j == [U EXCEPT !.broken = bad]
           y == IF temp THEN {} ELSE visible
           none == "none"
           o == j.owed[A] - done.supplied
           e == doTimingSupplyResponse(j.snoopRespQueue, A, supply, done.supplied)
           put == [j EXCEPT !.tags[A] = y, !.answer[A] = none, !.owed[A] = o,
                            !.snoopRespQueue = e]
           clean == IF evict THEN [put EXCEPT !.tags[v] = {}] ELSE put
           dirty == evict /\ "Dirty" \in st.tags[v]
           other == temp /\ "Dirty" \in visible
<1>1. r = IF dirty THEN WriteBack(Given(clean, st, i, payload), v, lat)
          ELSE IF other THEN WriteBack(Given(clean, st, i, payload), A, lat)
          ELSE Given(clean, st, i, payload)
  BY Zenon DEF recvTimingResp, Given, Assert_
<1>2. evict => v \in Addrs
  BY DEF Victims
<1>3. A = a /\ U = u
  OBVIOUS
<1>4. put = Fill(u, bad, a, y, none, o, e)
  <2> HIDE DEF bad, y, none, o, e, A, U
  <2> QED BY <1>3, Zenon DEF Fill
<1>5. clean = put \/ (v \in Addrs /\ clean = Tag(put, v, {}))
  <2> HIDE DEF put, evict
  <2> QED BY <1>2 DEF Tag
<1>6. dirty => v \in Addrs
  BY <1>2
<1>11. /\ y = {} \/ y = Remains(st, i)
       /\ o = u.owed[a] - Serving(st, i).supplied /\ none = "none"
  <2>1. j.owed = U.owed
    <3> HIDE DEF bad
    <3> QED BY DEF Sound, IsCache
  <2> HIDE DEF j, temp
  <2> QED BY <1>3, <2>1
<1>13. Longer(e, u.snoopRespQueue)
  <2>1. j.snoopRespQueue = u.snoopRespQueue
    <3> HIDE DEF bad
    <3> QED BY <1>3 DEF Sound, IsCache
  <2>2. done.supplied \in Nat /\ Answering(u.snoopRespQueue)
    BY Zenon DEF Sound, Timed
  <2> HIDE DEF j, done
  <2>3. e = doTimingSupplyResponse(u.snoopRespQueue, a, supply, done.supplied)
    BY <1>3, <2>1
  <2> QED BY <2>2, <2>3, SupplyFacts
<1> HIDE DEF A, U, bad, y, none, o, e, put, clean, evict, dirty, other
<1>7. /\ SameButTags(put, u) /\ put.tags = [x \in Addrs |-> put.tags[x]]
      /\ \A x \in Addrs : x # a => put.tags[x] = u.tags[x]
      /\ put.tags[a] = y /\ Noted(put, u, a, none, o)
  <2>1. Sound(u) /\ a \in Addrs
    OBVIOUS
  <2>2. FilledIn(put, u, a, y, none, o)
    BY ONLY <1>4, <1>13, <2>1, FillFacts
  <2> QED BY <2>2 DEF FilledIn
<1>8. /\ SameButTags(clean, u) /\ clean.tags = [x \in Addrs |-> clean.tags[x]]
      /\ \A x \in Addrs : x # a => clean.tags[x] = u.tags[x] \/ clean.tags[x] = {}
      /\ clean.tags[a] = {} \/ clean.tags[a] = y
      /\ clean.answer = put.answer /\ clean.owed = put.owed
  <2>1. CASE clean = put
    BY <1>7, <2>1
  <2>2. CASE v \in Addrs /\ clean = Tag(put, v, {})
    <3>1. Sound(put)
      BY <1>7, SameTags
    <3> DEFINE em == {}
    <3>2. v \in Addrs /\ clean = Tag(put, v, em)
      BY <2>2
    <3> HIDE DEF em
    <3>3. /\ SameButTags(clean, put) /\ clean.tags = [x \in Addrs |-> clean.tags[x]]
          /\ clean.tags[v] = em /\ \A x \in Addrs : x # v => clean.tags[x] = put.tags[x]
          /\ SameBook(clean, put)
      BY ONLY <3>1, <3>2, TagFacts
    <3>4. SameButTags(clean, u)
      BY <1>7, <3>3 DEF SameButTags, SameBlocking, SameTiming
    <3> QED BY <1>7, <3>3, <3>4 DEF em, SameBook
  <2> QED BY <1>5, <2>1, <2>2
<1>9. Finish(clean, st, i, r, lat, payload)
  BY <1>1, <1>3, <1>6, Zenon DEF Finish
<1>12. Booked(clean, u, a, Remains(st, i), "none", u.owed[a] - Serving(st, i).supplied)
  <2> DEFINE k == u.owed[a] - Serving(st, i).supplied
             b == Remains(st, i)
  <2>1. (y = {} \/ y = b) /\ o = k /\ none = "none"
    BY <1>11
  <2> HIDE DEF k, b
  <2>2. Booked(clean, u, a, b, "none", k)
    BY <1>7, <1>8, <2>1 DEF Booked, Noted
  <2> QED BY <2>2 DEF k, b
<1> QED BY <1>8, <1>9, <1>12 DEF Refilled

(* Cache::recvTimingSnoopReq: what the MSHR keeps of a snoop.              *)
Snooped(q, i, cmd, o) ==
    [q EXCEPT !.registers[i] = MQ!MSHR_handleSnoop(q.registers[i], cmd, o).mshr]
Kept(st, i, a, cmd) ==
    LET h == MQ!MSHR_handleSnoop(st.mshrQueue.registers[i], cmd, st.order)
    IN  [st EXCEPT !.mshrQueue.registers[i] = h.mshr, !.order = @ + 1,
                   !.owed[a] = IF h.memInhibit THEN @ + 1 ELSE @]

Promised(m, cmd, o, n) == IF MQ!MSHR_handleSnoop(m, cmd, o).memInhibit THEN n + 1 ELSE n
Owing(r, st, i, a, cmd) ==
    r.owed = [st.owed EXCEPT ![a] = Promised(st.mshrQueue.registers[i], cmd, st.order,
                                             st.owed[a])]

LEMMA KeptFacts ==
    ASSUME NEW st, Sound(st), NEW i, NEW a, NEW cmd, NEW new,
           new = Snooped(st.mshrQueue, i, cmd, st.order),
           new.allocated = st.mshrQueue.allocated, NEW r, r = Kept(st, i, a, cmd)
    PROVE  /\ Sound(r) /\ SameBlocking(r, st) /\ SameTiming(r, st)
           /\ r.mshrQueue = new /\ r.writeBuffer = st.writeBuffer
           /\ r.order = st.order + 1 /\ r.pfq = st.pfq /\ r.tags = st.tags
           /\ View(r) = View(st)
           /\ r.answer = st.answer /\ Owing(r, st, i, a, cmd)
<1> DEFINE h == MQ!MSHR_handleSnoop(st.mshrQueue.registers[i], cmd, st.order)
           o == st.order + 1
           e == Promised(st.mshrQueue.registers[i], cmd, st.order, st.owed[a])
           g == [st.owed EXCEPT ![a] = e]
           m == h.mshr
<1>1. IsCache(st) /\ o \in Nat
  BY DEF Sound
<1>2. r = [st EXCEPT !.mshrQueue.registers[i] = m, !.order = o, !.owed[a] = e]
  BY DEF Kept, Promised
<1>3. new = [st.mshrQueue EXCEPT !.registers[i] = m]
  BY DEF Snooped
<1> HIDE DEF m, o, e
<1>4. r = [st EXCEPT !.mshrQueue = new, !.order = o, !.owed = g]
  BY <1>1, <1>2, <1>3 DEF IsCache
<1> HIDE DEF g
<1>5. /\ IsCache(r) /\ SameBlocking(r, st) /\ SameTiming(r, st)
      /\ r.mshrQueue = new /\ r.writeBuffer = st.writeBuffer
      /\ r.order = o /\ r.pfq = st.pfq /\ r.tags = st.tags
      /\ r.answer = st.answer /\ r.owed = g
  BY <1>1, <1>4, Zenon DEF IsCache, SameBlocking, SameTiming
<1>6. Sound(r)
  BY <1>1, <1>5 DEF Sound, SameBlocking, SameTiming, Timed, Prefetcher
<1>7. View(r) = View(st)
  <2> DEFINE v == View(st)
  <2>1. /\ IsView(v) /\ v.noTarget = Waits(st.noTargetMSHR)
        /\ Blocked5(v, st.blocked, st.portBlocked, st.mustSendRetry,
                    st.retryScheduled, st.failed)
        /\ v.allocated = Occupancy(st.mshrQueue.allocated, st.writeBuffer.allocated)
    BY ViewIs
  <2> HIDE DEF v
  <2>2. /\ v.noTarget = Waits(r.noTargetMSHR)
        /\ Blocked5(v, r.blocked, r.portBlocked, r.mustSendRetry, r.retryScheduled, r.failed)
        /\ v.allocated = Occupancy(r.mshrQueue.allocated, r.writeBuffer.allocated)
    BY <1>5, <2>1 DEF SameBlocking
  <2>3. View(r) = v
    BY <2>1, <2>2, ViewFields
  <2> QED BY <2>3 DEF v
<1> QED BY <1>5, <1>6, <1>7 DEF o, g, e, Owing

(* The write buffer supplies the data, and the block follows the snoop.    *)
LEMMA SnoopWriteCases ==
    ASSUME NEW st, Sound(st), NEW a \in Addrs, NEW cmd, NEW lat \in Nat,
           NEW w, w = WB!findMatch(st.writeBuffer, a),
           NEW r, r = SnoopWriteBuffer(st, a, cmd, lat)
    PROVE  \/ r = st
           \/ w # 0 /\ SameButTags(r, st) /\ r.tags = st.tags /\ SameBook(r, st)
           \/ w # 0 /\ \E x, no : /\ SameButTags(x, st) /\ x.tags = st.tags
                                  /\ SameBook(x, st)
                                  /\ r = markInService(x, "WriteBuffer", w, no)
<1> DEFINE k == WB!findMatch(st.writeBuffer, a)
           single == Cardinality({i \in ToSet(st.writeBuffer.allocatedList) :
                                    st.writeBuffer.registers[i].blkAddr = a}) = 1
           b == st.broken \/ ~single
           one == 1
           e == doTimingSupplyResponse(st.snoopRespQueue, a, lat, one)
           x == [[st EXCEPT !.broken = b] EXCEPT !.snoopRespQueue = e]
           no == FALSE
           inv == MQ!IsInvalidate(cmd)
<1>1. r = IF k = 0 THEN st
          ELSE IF inv THEN markInService(x, "WriteBuffer", k, no) ELSE x
  <2> DEFINE y == [[st EXCEPT !.broken = b] EXCEPT 
                          !.snoopRespQueue = doTimingSupplyResponse(@, a, lat, one)]
  <2>1. r = IF k = 0 THEN st
            ELSE IF inv THEN markInService(y, "WriteBuffer", k, no) ELSE y
    BY Zenon DEF SnoopWriteBuffer, Assert_
  <2>2. y = x
    <3>1. IsCache(st)
      BY DEF Sound
    <3> HIDE DEF b
    <3> QED BY <3>1 DEF IsCache
  <2> HIDE DEF y, x, no, k, inv
  <2> QED BY <2>1, <2>2
<1>2. SameButTags(x, st) /\ x.tags = st.tags /\ SameBook(x, st)
  <2>1. IsCache(st)
    BY DEF Sound
  <2>5. Longer(e, st.snoopRespQueue)
    <3>1. Answering(st.snoopRespQueue) /\ one \in Nat
      BY DEF Sound, Timed
    <3> HIDE DEF one
    <3> QED BY <3>1, SupplyFacts
  <2> DEFINE j == [st EXCEPT !.broken = b]
  <2>2. x = [j EXCEPT !.snoopRespQueue = e]
    OBVIOUS
  <2> HIDE DEF b, e
  <2>3. /\ SameButTags(j, st) /\ j.tags = st.tags /\ SameBook(j, st)
        /\ j.snoopRespQueue = st.snoopRespQueue
    BY <2>1 DEF IsCache, SameButTags, SameBlocking, SameTiming, SameBook
  <2> HIDE DEF j, x
  <2>4. SameButTags(x, j) /\ x.tags = j.tags /\ SameBook(x, j)
    BY <2>2, <2>3, <2>5 DEF IsCache, SameButTags, SameBlocking, SameTiming, SameBook, Longer
  <2> QED BY <2>3, <2>4 DEF SameButTags, SameBlocking, SameTiming, SameBook
<1>3. k = w
  OBVIOUS
<1> HIDE DEF x, no, k, inv
<1> QED BY <1>1, <1>2, <1>3

LEMMA SnoopBlockFacts ==
    ASSUME NEW st, Sound(st), NEW a \in Addrs, NEW cmd, NEW lat \in Nat,
           NEW r, r = SnoopBlock(st, a, cmd, lat)
    PROVE  /\ SameButTags(r, st) /\ r.tags = [x \in Addrs |-> r.tags[x]]
           /\ Emptier(r, st) /\ SameBook(r, st)
           /\ r.tags[a] = SnoopedBlock(st.tags[a], cmd)
           /\ \A x \in Addrs : x # a => r.tags[x] = st.tags[x]
<1> DEFINE y == SnoopedBlock(st.tags[a], cmd)
           z == [st.tags EXCEPT ![a] = y]
           n == IF Responds(st.tags[a]) THEN 1 ELSE 0
           e == doTimingSupplyResponse(st.snoopRespQueue, a, lat, n)
<1>1. IsCache(st) /\ st.tags = [x \in Addrs |-> st.tags[x]]
  BY DEF Sound
<1>2. r = [st EXCEPT !.tags[a] = y, !.snoopRespQueue = e]
  BY <1>1 DEF SnoopBlock, IsCache
<1>7. Longer(e, st.snoopRespQueue)
  <2>1. Answering(st.snoopRespQueue) /\ n \in Nat
    BY DEF Sound, Timed
  <2> HIDE DEF n
  <2> QED BY <2>1, SupplyFacts
<1>3. st.tags[a] = {} => y = {}
  BY DEF SnoopedBlock
<1> HIDE DEF y, e
<1>4. r = [st EXCEPT !.tags = z, !.snoopRespQueue = e]
  BY <1>1, <1>2 DEF IsCache
<1>5. /\ z = [x \in Addrs |-> z[x]] /\ z[a] = y
      /\ \A x \in Addrs : x # a => z[x] = st.tags[x]
  BY <1>1
<1> HIDE DEF z
<1>6. SameButTags(r, st) /\ r.tags = z /\ SameBook(r, st)
  BY <1>1, <1>4, <1>7 DEF IsCache, SameButTags, SameBlocking, SameTiming, SameBook, Longer
<1> QED BY <1>3, <1>5, <1>6 DEF Emptier, y

(* recvTimingSnoopReq, by cases.                                           *)
LEMMA SnoopCases ==
    ASSUME NEW st, NEW a, NEW cmd, NEW lat, NEW i, i = MQ!findMatch(st.mshrQueue, a),
           NEW r, r = recvTimingSnoopReq(st, a, cmd, lat)
    PROVE  \/ i # 0 /\ r = Kept(st, i, a, cmd)
           \/ /\ i # 0
              /\ r = SnoopBlock(SnoopWriteBuffer(Kept(st, i, a, cmd), a, cmd, lat),
                               a, cmd, lat)
           \/ i = 0 /\ r = SnoopBlock(SnoopWriteBuffer(st, a, cmd, lat), a, cmd, lat)
<1> DEFINE k == MQ!findMatch(st.mshrQueue, a)
           z == MQ!MSHR_handleSnoop(st.mshrQueue.registers[k], cmd, st.order).handled
<1>1. r = IF k # 0 /\ z THEN Kept(st, k, a, cmd)
          ELSE SnoopBlock(SnoopWriteBuffer(IF k # 0 THEN Kept(st, k, a, cmd) ELSE st,
                                           a, cmd, lat), a, cmd, lat)
  BY Zenon DEF recvTimingSnoopReq, Kept
<1>2. k = i
  OBVIOUS
<1> HIDE DEF k, z
<1> QED BY <1>1, <1>2

-----------------------------------------------------------------------------

P == INSTANCE MSHRQueue_proofs WITH
         NumEntries <- Mshrs, Reserve <- 4, DemandReserve <- DemandMshrReserve,
         q <- s.mshrQueue, order <- s.order
PW == INSTANCE MSHRQueue_proofs WITH
          NumEntries <- WriteBuffers, Reserve <- Mshrs + ExtraWriteReserve,
          DemandReserve <- 0, q <- s.writeBuffer, order <- s.order
B == INSTANCE CacheBlocking_proofs WITH c <- BlockingView

-----------------------------------------------------------------------------
(* The operators of MissPath's instances of MSHRQueue (MQ and WB, of which *)
(* the operators that do not mention a size are the same) are those of the *)
(* instances the lemmas are about.                                         *)
LEMMA SameMatch ==
    \A q, x : MQ!findMatch(q, x) = P!findMatch(q, x)
  BY Zenon DEF MQ!findMatch, P!findMatch, MQ!FirstFor, P!FirstFor,
      MQ!SelectInSeq, P!SelectInSeq, MQ!Min, P!Min

LEMMA SamePending ==
    \A q, x : MQ!findPending(q, x) = P!findPending(q, x)
  BY Zenon DEF MQ!findPending, P!findPending, MQ!FirstFor, P!FirstFor,
      MQ!SelectInSeq, P!SelectInSeq, MQ!Min, P!Min

LEMMA SameNext ==
    \A q : MQ!getNextMSHR(q) = P!getNextMSHR(q)
  BY Zenon DEF MQ!getNextMSHR, P!getNextMSHR

LEMMA SameFull ==
    \A q : MQ!isFull(q) = P!isFull(q)
  BY Zenon DEF MQ!isFull, P!isFull

LEMMA SameNew ==
    \A n, r, d : MQ!NewQueue(n, r, d) = P!NewQueue(n, r, d)
  BY Zenon DEF MQ!NewQueue, P!NewQueue, MQ!FreeMSHR, P!FreeMSHR,
      MQ!EmptyTargets, P!EmptyTargets

LEMMA SameCan ==
    \A q : MQ!canPrefetch(q) = P!canPrefetch(q)
  BY Zenon DEF MQ!canPrefetch, P!canPrefetch

LEMMA SameAdd ==
    \A q, i : MQ!addToReadyList(q, i) = P!addToReadyList(q, i)
  BY Zenon DEF MQ!addToReadyList, P!addToReadyList, MQ!SelectInSeq,
      P!SelectInSeq, MQ!Min, P!Min, MQ!InsertAt, P!InsertAt

LEMMA SameCheck ==
    \A q, c : MQ!Check(q, c) = P!Check(q, c)
  BY Zenon DEF MQ!Check, P!Check

LEMMA SameBorn ==
    \A x, c, w, n : MQ!MSHR_allocate(x, c, w, n) = P!MSHR_allocate(x, c, w, n)
  BY Zenon DEF MQ!MSHR_allocate, P!MSHR_allocate, MQ!FreeMSHR, P!FreeMSHR,
      MQ!EmptyTargets, P!EmptyTargets, MQ!TargetList_add, P!TargetList_add,
      MQ!Target, P!Target, MQ!NeedsExclusive, P!NeedsExclusive,
      MQ!IsUpgrade, P!IsUpgrade

LEMMA SameAllocate ==
    \A q, x, c, w, n : MQ!MSHRQueue_allocate(q, x, c, w, n) = P!MSHRQueue_allocate(q, x, c, w, n)
<1> TAKE q, x, c, w, n
<1> DEFINE i == Head(q.freeList)
           z == /\ q.freeList # <<>>
                /\ Len(q.registers[i].targets.list)
                     + Len(q.registers[i].deferredTargets.list) = 0
                /\ ~q.registers[i].targets.needsExclusive /\ ~q.registers[i].targets.hasUpgrade
                /\ ~q.registers[i].deferredTargets.needsExclusive
                /\ ~q.registers[i].deferredTargets.hasUpgrade
           X(k, m) == [k EXCEPT !.registers[i] = m, !.freeList = Tail(@),
                                !.allocatedList = Append(@, i), !.allocated = @ + 1]
<1>1. MQ!MSHRQueue_allocate(q, x, c, w, n) =
        MQ!addToReadyList(X(MQ!Check(q, z), MQ!MSHR_allocate(x, c, w, n)), i)
  BY Zenon DEF MQ!MSHRQueue_allocate, MQ!NextFree, MQ!getNumTargets, MQ!IsReset
<1>2. P!MSHRQueue_allocate(q, x, c, w, n) =
        P!addToReadyList(X(P!Check(q, z), P!MSHR_allocate(x, c, w, n)), i)
  BY Zenon DEF P!MSHRQueue_allocate, P!NextFree, P!getNumTargets, P!IsReset
<1> HIDE DEF i, z, X
<1> QED BY <1>1, <1>2, SameAdd, SameCheck, SameBorn

LEMMA SameFree ==
    \A q, i : MQ!deallocateOne(q, i) = P!deallocateOne(q, i)
  BY DEF MQ!deallocateOne, P!deallocateOne, MQ!Check, P!Check, MQ!IsReset,
      P!IsReset, MQ!FreeMSHR, P!FreeMSHR, MQ!EmptyTargets, P!EmptyTargets,
      MQ!RemoveFirst, P!RemoveFirst, MQ!RemoveAt, P!RemoveAt,
      MQ!SelectInSeq, P!SelectInSeq, MQ!Min, P!Min

LEMMA SamePop ==
    \A m : MQ!MSHR_popTarget(m) = P!MSHR_popTarget(m)
  BY Zenon DEF MQ!MSHR_popTarget, P!MSHR_popTarget

LEMMA SameForwarded ==
    \A m : MQ!isForwardNoResponse(m) = P!isForwardNoResponse(m)
  BY Zenon DEF MQ!isForwardNoResponse, P!isForwardNoResponse,
      MQ!getNumTargets, P!getNumTargets, MQ!getTarget, P!getTarget,
      MQ!NeedsResponse, P!NeedsResponse

LEMMA SameMark ==
    \A q, i, d : MQ!MSHRQueue_markInService(q, i, d) = P!MSHRQueue_markInService(q, i, d)
<1> TAKE q, i, d
<1> DEFINE m == q.registers[i]
           z == ~m.inService
           X(k, e) == [k EXCEPT !.registers[i] = e]
           Y(k, e, l) == [k EXCEPT !.registers[i] = e, !.readyList = l,
                                   !.inServiceEntries = @ + 1]
<1>1. \A k : [k EXCEPT !.registers[i] = MQ!MSHR_markInService(m, d),
                       !.readyList = MQ!RemoveFirst(@, i), !.inServiceEntries = @ + 1]
             = [k EXCEPT !.registers[i] = P!MSHR_markInService(m, d),
                       !.readyList = P!RemoveFirst(@, i), !.inServiceEntries = @ + 1]
  BY DEF MQ!RemoveFirst, P!RemoveFirst, MQ!RemoveAt, P!RemoveAt,
         MQ!SelectInSeq, P!SelectInSeq, MQ!Min, P!Min,
         MQ!MSHR_markInService, P!MSHR_markInService
<1> QED BY <1>1, SameCheck, SameFree, SamePop, SameForwarded, Zenon
        DEF MQ!MSHRQueue_markInService, P!MSHRQueue_markInService

LEMMA SameFill ==
    \A q, i, f, h : MQ!Filled(q, i, f, h) = P!Filled(q, i, f, h)
  BY DEF MQ!Filled, P!Filled, MQ!Check, P!Check, MQ!FillTakesDeferred,
      P!FillTakesDeferred, MQ!MSHR_handleFill, P!MSHR_handleFill,
      MQ!EmptyTargets, P!EmptyTargets

LEMMA SamePromote ==
    \A m : MQ!promoteDeferredTargets(m) = P!promoteDeferredTargets(m)
  BY Zenon DEF MQ!promoteDeferredTargets, P!promoteDeferredTargets,
      MQ!EmptyTargets, P!EmptyTargets

LEMMA SamePend ==
    \A q, i : MQ!markPending(q, i) = P!markPending(q, i)
  BY DEF MQ!markPending, P!markPending, MQ!Check, P!Check,
      MQ!addToReadyList, P!addToReadyList, MQ!SelectInSeq, P!SelectInSeq,
      MQ!Min, P!Min, MQ!InsertAt, P!InsertAt

LEMMA SameAnswer ==
    \A q, i : MQ!Answered(q, i) = P!Answered(q, i)
<1> TAKE q, i
<1> DEFINE k == [q EXCEPT !.registers[i].targets.list = <<>>]
           m == k.registers[i]
           X(e) == [k EXCEPT !.registers[i] = e]
           z == m.deferredTargets.list # <<>>
<1>1. MQ!Answered(q, i) =
        IF z THEN MQ!markPending(X(MQ!promoteDeferredTargets(m)), i)
             ELSE MQ!deallocateOne(k, i)
  BY Zenon DEF MQ!Answered
<1>2. P!Answered(q, i) =
        IF z THEN P!markPending(X(P!promoteDeferredTargets(m)), i)
             ELSE P!deallocateOne(k, i)
  BY Zenon DEF P!Answered
<1> HIDE DEF k, m, X, z
<1> QED BY <1>1, <1>2, SamePend, SamePromote, SameFree

LEMMA SameTarget ==
    \A m, c, w, n : MQ!MSHR_allocateTarget(m, c, w, n) = P!MSHR_allocateTarget(m, c, w, n)
  BY DEF MQ!MSHR_allocateTarget, P!MSHR_allocateTarget, MQ!Target, P!Target,
      MQ!NeedsExclusive, P!NeedsExclusive, MQ!TargetList_add,
      P!TargetList_add, MQ!replaceUpgrade, P!replaceUpgrade, MQ!IsUpgrade,
      P!IsUpgrade

LEMMA SameSnoop ==
    \A m, c, n : MQ!MSHR_handleSnoop(m, c, n) = P!MSHR_handleSnoop(m, c, n)
  BY DEF MQ!MSHR_handleSnoop, P!MSHR_handleSnoop, MQ!Target, P!Target,
      MQ!NeedsExclusive, P!NeedsExclusive, MQ!TargetList_add,
      P!TargetList_add, MQ!replaceUpgrades, P!replaceUpgrades,
      MQ!replaceUpgrade, P!replaceUpgrade, MQ!IsUpgrade, P!IsUpgrade,
      MQ!IsInvalidate, P!IsInvalidate

LEMMA SameSooner ==
    \A w : MQ!Sooner(w) = P!Sooner(w)
  BY Zenon DEF MQ!Sooner, P!Sooner

LEMMA SameTick ==
    \A q : MQ!QueueTick(q) = P!QueueTick(q)
  BY Zenon DEF MQ!QueueTick, P!QueueTick, MQ!OlderMSHR, P!OlderMSHR,
      MQ!SoonerAll, P!SoonerAll, MQ!OlderTarget, P!OlderTarget, MQ!Sooner,
      P!Sooner

LEMMA SameAddWrite ==
    \A q, i : MQ!addToReadyList(q, i) = PW!addToReadyList(q, i)
  BY Zenon DEF MQ!addToReadyList, PW!addToReadyList, MQ!SelectInSeq,
      PW!SelectInSeq, MQ!Min, PW!Min, MQ!InsertAt, PW!InsertAt

LEMMA SameCheckWrite ==
    \A q, c : MQ!Check(q, c) = PW!Check(q, c)
  BY Zenon DEF MQ!Check, PW!Check

LEMMA SameBornWrite ==
    \A x, c, w, n : MQ!MSHR_allocate(x, c, w, n) = PW!MSHR_allocate(x, c, w, n)
  BY Zenon DEF MQ!MSHR_allocate, PW!MSHR_allocate, MQ!FreeMSHR, PW!FreeMSHR,
      MQ!EmptyTargets, PW!EmptyTargets, MQ!TargetList_add,
      PW!TargetList_add, MQ!Target, PW!Target, MQ!NeedsExclusive,
      PW!NeedsExclusive, MQ!IsUpgrade, PW!IsUpgrade

LEMMA SameAllocateWrite ==
    \A q, x, c, w, n : MQ!MSHRQueue_allocate(q, x, c, w, n) = PW!MSHRQueue_allocate(q, x, c, w, n)
<1> TAKE q, x, c, w, n
<1> DEFINE i == Head(q.freeList)
           z == /\ q.freeList # <<>>
                /\ Len(q.registers[i].targets.list)
                     + Len(q.registers[i].deferredTargets.list) = 0
                /\ ~q.registers[i].targets.needsExclusive /\ ~q.registers[i].targets.hasUpgrade
                /\ ~q.registers[i].deferredTargets.needsExclusive
                /\ ~q.registers[i].deferredTargets.hasUpgrade
           X(k, m) == [k EXCEPT !.registers[i] = m, !.freeList = Tail(@),
                                !.allocatedList = Append(@, i), !.allocated = @ + 1]
<1>1. MQ!MSHRQueue_allocate(q, x, c, w, n) =
        MQ!addToReadyList(X(MQ!Check(q, z), MQ!MSHR_allocate(x, c, w, n)), i)
  BY Zenon DEF MQ!MSHRQueue_allocate, MQ!NextFree, MQ!getNumTargets, MQ!IsReset
<1>2. PW!MSHRQueue_allocate(q, x, c, w, n) =
        PW!addToReadyList(X(PW!Check(q, z), PW!MSHR_allocate(x, c, w, n)), i)
  BY Zenon DEF PW!MSHRQueue_allocate, PW!NextFree, PW!getNumTargets, PW!IsReset
<1> HIDE DEF i, z, X
<1> QED BY <1>1, <1>2, SameAddWrite, SameCheckWrite, SameBornWrite

LEMMA SameFreeWrite ==
    \A q, i : MQ!deallocateOne(q, i) = PW!deallocateOne(q, i)
  BY DEF MQ!deallocateOne, PW!deallocateOne, MQ!Check, PW!Check, MQ!IsReset,
      PW!IsReset, MQ!FreeMSHR, PW!FreeMSHR, MQ!EmptyTargets,
      PW!EmptyTargets, MQ!RemoveFirst, PW!RemoveFirst, MQ!RemoveAt,
      PW!RemoveAt, MQ!SelectInSeq, PW!SelectInSeq, MQ!Min, PW!Min

LEMMA SamePopWrite ==
    \A m : MQ!MSHR_popTarget(m) = PW!MSHR_popTarget(m)
  BY Zenon DEF MQ!MSHR_popTarget, PW!MSHR_popTarget

LEMMA SameForwardedWrite ==
    \A m : MQ!isForwardNoResponse(m) = PW!isForwardNoResponse(m)
  BY Zenon DEF MQ!isForwardNoResponse, PW!isForwardNoResponse,
      MQ!getNumTargets, PW!getNumTargets, MQ!getTarget, PW!getTarget,
      MQ!NeedsResponse, PW!NeedsResponse

LEMMA SameMarkWrite ==
    \A q, i, d : MQ!MSHRQueue_markInService(q, i, d) = PW!MSHRQueue_markInService(q, i, d)
<1> TAKE q, i, d
<1> DEFINE m == q.registers[i]
           z == ~m.inService
           X(k, e) == [k EXCEPT !.registers[i] = e]
           Y(k, e, l) == [k EXCEPT !.registers[i] = e, !.readyList = l,
                                   !.inServiceEntries = @ + 1]
<1>1. \A k : [k EXCEPT !.registers[i] = MQ!MSHR_markInService(m, d),
                       !.readyList = MQ!RemoveFirst(@, i), !.inServiceEntries = @ + 1]
             = [k EXCEPT !.registers[i] = PW!MSHR_markInService(m, d),
                       !.readyList = PW!RemoveFirst(@, i), !.inServiceEntries = @ + 1]
  BY DEF MQ!RemoveFirst, PW!RemoveFirst, MQ!RemoveAt, PW!RemoveAt,
         MQ!SelectInSeq, PW!SelectInSeq, MQ!Min, PW!Min,
         MQ!MSHR_markInService, PW!MSHR_markInService
<1> QED BY <1>1, SameCheckWrite, SameFreeWrite, SamePopWrite, SameForwardedWrite, Zenon
        DEF MQ!MSHRQueue_markInService, PW!MSHRQueue_markInService

LEMMA SameMatchWrites ==
    \A q, x : WB!findMatch(q, x) = PW!findMatch(q, x)
  BY Zenon DEF WB!findMatch, PW!findMatch, WB!FirstFor, PW!FirstFor,
      WB!SelectInSeq, PW!SelectInSeq, WB!Min, PW!Min

LEMMA SamePendingWrites ==
    \A q, x : WB!findPending(q, x) = PW!findPending(q, x)
  BY Zenon DEF WB!findPending, PW!findPending, WB!FirstFor, PW!FirstFor,
      WB!SelectInSeq, PW!SelectInSeq, WB!Min, PW!Min

LEMMA SameNextWrites ==
    \A q : WB!getNextMSHR(q) = PW!getNextMSHR(q)
  BY Zenon DEF WB!getNextMSHR, PW!getNextMSHR

LEMMA SameNewWrites ==
    \A n, r, d : WB!NewQueue(n, r, d) = PW!NewQueue(n, r, d)
  BY Zenon DEF WB!NewQueue, PW!NewQueue, WB!FreeMSHR, PW!FreeMSHR,
      WB!EmptyTargets, PW!EmptyTargets

LEMMA SameTickWrites ==
    \A q : WB!QueueTick(q) = PW!QueueTick(q)
  BY Zenon DEF WB!QueueTick, PW!QueueTick, WB!OlderMSHR, PW!OlderMSHR,
      WB!SoonerAll, PW!SoonerAll, WB!OlderTarget, PW!OlderTarget, WB!Sooner,
      PW!Sooner

-----------------------------------------------------------------------------
(* The room of the write buffer.  It is blocked with WriteBuffers entries, *)
(* and then takes only the writebacks of responses: each of them ends an   *)
(* MSHR or serves its deferred targets, and meanwhile only the queued      *)
(* prefetches can take new MSHRs.                                          *)
Fits(w, a, d, p) == w >= WriteBuffers => w + a + d + p <= WriteBuffers + 2 * Mshrs + QueueSize

Stored(st) ==
    /\ Sound(st)
    /\ P!Misses(st.mshrQueue, st.order) /\ PW!WriteInv(st.writeBuffer)
    /\ st.noTargetMSHR = 0 \/ st.noTargetMSHR \in P!Held(st.mshrQueue)
    /\ \A a \in P!Prefetches(st.mshrQueue) : st.tags[a] = {}
    /\ Fits(st.writeBuffer.allocated, st.mshrQueue.allocated, P!deferring(st.mshrQueue),
            Len(st.pfq))

(* No request is forgotten.                                                *)
Scheduled(st) ==
    /\ \A x \in P!Times(st.mshrQueue) \cup PW!Times(st.writeBuffer) : Soon(st, x)
    /\ MQ!canPrefetch(st.mshrQueue) /\ st.pfq # <<>> => Awake(st)

Inv(st) == Stored(st) /\ Scheduled(st)

(* The MSHRs say of every block what its status bits, the answer the bus   *)
(* has for it and the snoops that were promised an answer require.         *)
Tracked(st) ==
    /\ st.answer = [a \in Addrs |-> st.answer[a]] /\ st.owed = [a \in Addrs |-> st.owed[a]]
    /\ \A a \in Addrs :
          P!BlockOK(st.mshrQueue, a, st.tags[a], st.answer[a], st.owed[a])

LEMMA TrackedSame ==
    ASSUME NEW st, Tracked(st), NEW r, r.mshrQueue = st.mshrQueue, r.tags = st.tags,
           r.answer = st.answer, r.owed = st.owed
    PROVE  Tracked(r)
  BY Zenon DEF Tracked

(* The assumptions of the two queues.                                      *)
LEMMA Sizes ==
    /\ Mshrs \in Nat \ {0} /\ 4 \in Nat \ {0} /\ DemandMshrReserve \in Nat
    /\ Latencies \subseteq Nat /\ MaxOrder \in Nat /\ WriteBuffers \in Nat \ {0}
    /\ Mshrs + ExtraWriteReserve \in Nat \ {0} /\ 0 \in Nat
    /\ ExtraWriteReserve \in Nat \ {0} /\ QueueSize \in Nat \ {0}
    /\ PrefetchAddrs \subseteq Addrs /\ SnoopAddrs \subseteq Addrs
  BY MissPathAssumption

LEMMA MissFacts ==
    ASSUME NEW q, NEW ord, P!Misses(q, ord)
    PROVE  /\ q.allocated \in Nat /\ P!deferring(q) \in Nat /\ P!deferring(q) <= q.allocated
           /\ P!Times(q) \subseteq Nat /\ 0 \notin P!Held(q)
           /\ P!Elements(q.readyList) \subseteq P!Held(q)
           /\ MQ!isFull(q) <=> q.allocated >= Mshrs
           /\ MQ!canPrefetch(q) <=> q.allocated + DemandMshrReserve + 1 < Mshrs
           /\ \A i \in P!Held(q) : q.allocated > 0 /\ q.registers[i].blkAddr \in Addrs
           /\ \A i, j \in P!Held(q) : i # j => q.allocated > 1
           /\ P!Base(P!Registers(P!Blocks), q) /\ P!Typed(P!Registers(P!Blocks))
           /\ \A i \in P!Held(q) : i \in 1 .. Mshrs + 3
<1>1. /\ q.allocated \in Nat /\ P!deferring(q) \in Nat /\ P!deferring(q) <= q.allocated
      /\ P!Times(q) \subseteq Nat /\ 0 \notin P!Held(q) /\ P!Held(q) \subseteq P!Ids
      /\ P!Elements(q.readyList) \subseteq P!Held(q)
      /\ P!isFull(q) <=> q.allocated >= Mshrs
      /\ P!canPrefetch(q) <=> q.allocated + DemandMshrReserve + 1 < Mshrs
      /\ \A i \in P!Held(q) : q.allocated > 0 /\ q.registers[i].blkAddr \in Addrs
      /\ \A i, j \in P!Held(q) : i # j => q.allocated > 1
      /\ P!Base(P!Registers(P!Blocks), q) /\ P!Typed(P!Registers(P!Blocks))
  BY Sizes, P!MissesFacts
<1>2. \A i \in P!Held(q) : i \in 1 .. Mshrs + 3
  BY <1>1, Sizes DEF P!Ids, P!N
<1> QED BY <1>1, <1>2, SameFull, SameCan

LEMMA WriteFacts ==
    ASSUME NEW q, PW!WriteInv(q)
    PROVE  /\ q.allocated \in Nat /\ PW!Times(q) \subseteq Nat /\ 0 \notin PW!Held(q)
           /\ PW!Elements(q.readyList) = PW!Held(q)
           /\ MQ!isFull(q) <=> q.allocated >= WriteBuffers
           /\ WB!isFull(q) <=> q.allocated >= WriteBuffers
           /\ \A i \in PW!Held(q) : q.allocated > 0
           /\ PW!Base(PW!WriteRegisters, q) /\ PW!Typed(PW!WriteRegisters)
<1>1. /\ q.allocated \in Nat /\ PW!Times(q) \subseteq Nat /\ 0 \notin PW!Held(q)
      /\ PW!Elements(q.readyList) = PW!Held(q)
      /\ PW!isFull(q) <=> q.allocated >= WriteBuffers
      /\ \A i \in PW!Held(q) : q.allocated > 0
      /\ PW!Base(PW!WriteRegisters, q) /\ PW!Typed(PW!WriteRegisters)
  BY Sizes, PW!WritesFacts
<1>2. MQ!isFull(q) = PW!isFull(q) /\ WB!isFull(q) = PW!isFull(q)
  BY Zenon DEF MQ!isFull, WB!isFull, PW!isFull
<1> QED BY <1>1, <1>2

(* The head of a ready list is ready first.                                *)
LEMMA HeadTimes ==
    ASSUME NEW st, Stored(st)
    PROVE  /\ ReadyTime(st.mshrQueue) \subseteq P!Times(st.mshrQueue)
           /\ \A x \in P!Times(st.mshrQueue) : \E y \in ReadyTime(st.mshrQueue) : y <= x
           /\ ReadyTime(st.writeBuffer) \subseteq PW!Times(st.writeBuffer)
           /\ \A x \in PW!Times(st.writeBuffer) : \E y \in ReadyTime(st.writeBuffer) : y <= x
<1>1. P!Misses(st.mshrQueue, st.order) /\ PW!WriteInv(st.writeBuffer)
  BY DEF Stored
<1> DEFINE q == st.mshrQueue
           w == st.writeBuffer
<1> HIDE DEF q, w
<1>2. /\ q.readyList = <<>> => P!Times(q) = {}
      /\ q.readyList # <<>> =>
             /\ q.registers[Head(q.readyList)].readyTime \in P!Times(q)
             /\ \A x \in P!Times(q) : q.registers[Head(q.readyList)].readyTime <= x
  <2>1. P!Base(P!Registers(P!Blocks), q) /\ P!Typed(P!Registers(P!Blocks))
    BY <1>1, MissFacts DEF q
  <2> QED BY ONLY <2>1, Sizes, P!HeadTime
<1>3. /\ w.readyList = <<>> => PW!Times(w) = {}
      /\ w.readyList # <<>> =>
             /\ w.registers[Head(w.readyList)].readyTime \in PW!Times(w)
             /\ \A x \in PW!Times(w) : w.registers[Head(w.readyList)].readyTime <= x
  <2>1. PW!Base(PW!WriteRegisters, w) /\ PW!Typed(PW!WriteRegisters)
    BY <1>1, WriteFacts DEF w
  <2> QED BY ONLY <2>1, Sizes, PW!HeadTime
<1>4. /\ ReadyTime(q) \subseteq P!Times(q)
      /\ \A x \in P!Times(q) : \E y \in ReadyTime(q) : y <= x
  BY ONLY <1>2 DEF ReadyTime
<1>5. /\ ReadyTime(w) \subseteq PW!Times(w)
      /\ \A x \in PW!Times(w) : \E y \in ReadyTime(w) : y <= x
  BY ONLY <1>3 DEF ReadyTime
<1> QED BY <1>4, <1>5 DEF q, w

(* Steps that leave the queues alone.                                      *)
LEMMA StoredKept ==
    ASSUME NEW st, Stored(st), NEW r, Sound(r), r.mshrQueue = st.mshrQueue,
           r.writeBuffer = st.writeBuffer, r.order = st.order,
           r.noTargetMSHR \in {0, st.noTargetMSHR},
           Emptier(r, st) \/ \A b \in P!Prefetches(st.mshrQueue) : r.tags[b] = {},
           Len(r.pfq) <= Len(st.pfq) \/ st.writeBuffer.allocated < WriteBuffers
    PROVE  Stored(r)
<1> DEFINE q == st.mshrQueue
           w == st.writeBuffer
<1>1. P!Misses(q, st.order) /\ PW!WriteInv(w)
  BY DEF Stored
<1>2. /\ q.allocated \in Nat /\ P!deferring(q) \in Nat /\ w.allocated \in Nat
      /\ \A i \in P!Held(q) : q.registers[i].blkAddr \in Addrs
  BY <1>1, MissFacts, WriteFacts
<1>3. \A b \in P!Prefetches(q) : b \in Addrs
  BY <1>2 DEF P!Prefetches, P!Prefetching
<1>4. \A b \in P!Prefetches(q) : r.tags[b] = {}
  <2>1. \A b \in P!Prefetches(q) : st.tags[b] = {}
    BY DEF Stored
  <2> QED BY <1>3, <2>1 DEF Emptier
<1>5. Fits(w.allocated, q.allocated, P!deferring(q), Len(r.pfq))
  <2>1. Len(r.pfq) \in Nat /\ Len(st.pfq) \in Nat
    BY DEF Stored, Sound, Prefetcher
  <2>2. Fits(w.allocated, q.allocated, P!deferring(q), Len(st.pfq))
    BY DEF Stored
  <2> HIDE DEF q, w
  <2>3. Len(r.pfq) <= Len(st.pfq) \/ w.allocated < WriteBuffers
    BY DEF w
  <2> QED BY ONLY <1>2, <2>1, <2>2, <2>3, Sizes DEF Fits
<1> QED BY <1>1, <1>4, <1>5 DEF Stored

LEMMA ScheduledKept ==
    ASSUME NEW st, Stored(st), Scheduled(st), NEW r, Sound(r), Keeps(r, st),
           P!Times(r.mshrQueue) \subseteq P!Times(st.mshrQueue),
           PW!Times(r.writeBuffer) \subseteq PW!Times(st.writeBuffer),
           MQ!canPrefetch(r.mshrQueue) /\ r.pfq # <<>> => Awake(r)
    PROVE  Scheduled(r)
<1>1. P!Times(st.mshrQueue) \cup PW!Times(st.writeBuffer) \subseteq Nat
  BY MissFacts, WriteFacts DEF Stored
<1> QED BY <1>1 DEF Scheduled, Keeps

LEMMA RescheduleOK ==
    ASSUME NEW st, Stored(st), NEW r, r = Reschedule(st)
    PROVE  Inv(r) /\ View(r) = View(st) /\ (Tracked(st) => Tracked(r))
<1> DEFINE q == st.mshrQueue
           w == st.writeBuffer
<1>1. /\ IsCache(st) /\ Timed(st) /\ Prefetcher(st) /\ Sound(st)
      /\ P!Misses(q, st.order) /\ PW!WriteInv(w)
  BY DEF Stored, Sound
<1>2. P!Times(q) \subseteq Nat /\ PW!Times(w) \subseteq Nat
  BY <1>1, MissFacts, WriteFacts
<1>3. /\ ReadyTime(q) \subseteq P!Times(q)
      /\ \A x \in P!Times(q) : \E y \in ReadyTime(q) : y <= x
      /\ ReadyTime(w) \subseteq PW!Times(w)
      /\ \A x \in PW!Times(w) : \E y \in ReadyTime(w) : y <= x
  BY HeadTimes
<1>4. ReadyTime(q) \subseteq Nat /\ ReadyTime(w) \subseteq Nat
  BY <1>2, <1>3
<1>5. /\ IsCache(r) /\ SameBlocking(r, st) /\ SameQueues(r, st) /\ Timed(r)
      /\ \A x \in ReadyTime(q) \cup ReadyTime(w) : Soon(r, x)
      /\ MQ!canPrefetch(q) /\ st.pfq # <<>> => Awake(r)
  BY <1>1, <1>4, RescheduleTime
<1>6. Sound(r)
  BY <1>1, <1>5 DEF Sound, SameQueues, SameBlocking, Prefetcher
<1>7. /\ r.mshrQueue = q /\ r.writeBuffer = w /\ r.order = st.order
      /\ r.noTargetMSHR = st.noTargetMSHR /\ r.pfq = st.pfq /\ r.tags = st.tags
  BY <1>5 DEF SameQueues, SameBlocking
<1>8. View(r) = View(st)
  BY <1>5, <1>7, SameView
<1>9. Stored(r)
  <2>1. Len(r.pfq) <= Len(st.pfq)
    BY <1>1, <1>7 DEF Prefetcher
  <2>2. Emptier(r, st)
    BY <1>7 DEF Emptier
  <2> QED BY <1>6, <1>7, <2>1, <2>2, StoredKept
<1>10. \A x \in P!Times(q) \cup PW!Times(w) : Soon(r, x)
  <2> SUFFICES ASSUME NEW x \in P!Times(q) \cup PW!Times(w) PROVE Soon(r, x)
    OBVIOUS
  <2>1. PICK y \in ReadyTime(q) \cup ReadyTime(w) : y <= x
    BY <1>3
  <2>2. Soon(r, y) /\ y \in Nat /\ x \in Nat
    BY <1>2, <1>4, <1>5, <2>1
  <2>3. \A t \in r.sendEvent : t \in Nat
    BY <1>5 DEF Timed
  <2> QED BY ONLY <2>1, <2>2, <2>3 DEF Soon
<1>11. Tracked(st) => Tracked(r)
  BY <1>5, TrackedSame DEF SameQueues
<1> QED BY <1>5, <1>7, <1>8, <1>9, <1>10, <1>11 DEF Inv, Scheduled

(* The prefetcher looks at a request.                                      *)
LEMMA NotifiedOK ==
    ASSUME NEW st, Inv(st), st.writeBuffer.allocated < WriteBuffers, NEW a,
           NEW pf \in Proposals, NEW lat \in Nat, NEW r, r = Notified(st, a, pf, lat)
    PROVE  Inv(r) /\ View(r) = View(st) /\ (Tracked(st) => Tracked(r))
<1>1. Stored(st) /\ Scheduled(st) /\ Sound(st) /\ IsCache(st) /\ Timed(st) /\ Prefetcher(st)
  BY Zenon DEF Inv, Stored, Sound
<1>2. /\ SamePlace(r, st) /\ Timed(r) /\ Prefetcher(r) /\ Keeps(r, st)
      /\ r.pfq # <<>> => Awake(r)
  BY <1>1, NotifiedFacts, Zenon DEF Keeps
<1>3. Sound(r) /\ View(r) = View(st)
  BY <1>1, <1>2, SameView DEF Sound, SamePlace, SameBlocking
<1>4. /\ r.mshrQueue = st.mshrQueue /\ r.writeBuffer = st.writeBuffer
      /\ r.order = st.order /\ r.noTargetMSHR = st.noTargetMSHR /\ Emptier(r, st)
  BY <1>2 DEF SamePlace, SameBlocking, Emptier
<1>5. Stored(r)
  BY <1>1, <1>3, <1>4, StoredKept
<1>6. Scheduled(r)
  BY <1>1, <1>2, <1>3, <1>4, ScheduledKept
<1>7. Tracked(st) => Tracked(r)
  BY <1>2, TrackedSame DEF SamePlace
<1> QED BY <1>3, <1>5, <1>6, <1>7 DEF Inv

(* Only the tags and the bookkeeping of the environment change.            *)
LEMMA TagsOK ==
    ASSUME NEW st, Inv(st), NEW r, SameButTags(r, st), r.tags = [a \in Addrs |-> r.tags[a]],
           Emptier(r, st) \/ \A b \in P!Prefetches(st.mshrQueue) : r.tags[b] = {}
    PROVE  Inv(r) /\ View(r) = View(st)
<1>1. Stored(st) /\ Scheduled(st) /\ Sound(st) /\ Prefetcher(st)
  BY Zenon DEF Inv, Stored, Sound
<1>2. /\ Sound(r) /\ View(r) = View(st) /\ Keeps(r, st)
      /\ Awake(st) => Awake(r)
  BY <1>1, SameTags
<1>3. /\ r.mshrQueue = st.mshrQueue /\ r.writeBuffer = st.writeBuffer
      /\ r.order = st.order /\ r.noTargetMSHR = st.noTargetMSHR /\ r.pfq = st.pfq
  BY DEF SameButTags, SameBlocking
<1>4. Len(r.pfq) <= Len(st.pfq)
  BY <1>1, <1>3 DEF Prefetcher
<1>5. Stored(r)
  BY <1>1, <1>2, <1>3, <1>4, StoredKept, Zenon
<1>6. MQ!canPrefetch(r.mshrQueue) /\ r.pfq # <<>> => Awake(r)
  BY <1>1, <1>2, <1>3 DEF Scheduled
<1>7. Scheduled(r)
  BY <1>1, <1>2, <1>3, <1>6, ScheduledKept
<1> QED BY <1>2, <1>5, <1>7 DEF Inv

(* mustSendRetry and retryScheduled.                                       *)
LEMMA RetryOK ==
    ASSUME NEW st, Inv(st), NEW m, NEW y,
           NEW r, r = Retries(st, m, y)
    PROVE  Inv(r) /\ View(r) = Retries(View(st), m, y) /\ (Tracked(st) => Tracked(r))
<1>1. Stored(st) /\ Scheduled(st) /\ Sound(st) /\ IsCache(st) /\ Timed(st) /\ Prefetcher(st)
  BY Zenon DEF Inv, Stored, Sound
<1>2. /\ View(r) = Retries(View(st), m, y)
      /\ IsCache(r) /\ SameQueues(r, st) /\ SameTiming(r, st)
      /\ r.noTargetMSHR = st.noTargetMSHR /\ r.failed = st.failed
  <2>1. r = Retries(st, m, y)
    OBVIOUS
  <2> QED BY ONLY <1>1, <2>1, RetryView
<1>3. /\ r.mshrQueue = st.mshrQueue /\ r.writeBuffer = st.writeBuffer
      /\ r.order = st.order /\ r.pfq = st.pfq /\ r.tags = st.tags
  BY <1>2 DEF SameQueues
<1>4. /\ Sound(r) /\ Emptier(r, st) /\ Keeps(r, st)
      /\ Awake(st) => Awake(r)
  BY <1>1, <1>2, <1>3 DEF Sound, Timed, Prefetcher, Emptier, Keeps, Awake, Soon, SameTiming
<1>5. Len(r.pfq) <= Len(st.pfq)
  BY <1>1, <1>3 DEF Prefetcher
<1>6. Stored(r)
  BY <1>1, <1>2, <1>3, <1>4, <1>5, StoredKept
<1>7. MQ!canPrefetch(r.mshrQueue) /\ r.pfq # <<>> => Awake(r)
  BY <1>1, <1>3, <1>4 DEF Scheduled
<1>8. Scheduled(r)
  BY <1>1, <1>3, <1>4, <1>7, ScheduledKept
<1>9. Tracked(st) => Tracked(r)
  BY <1>2, TrackedSame DEF SameQueues
<1> QED BY <1>2, <1>6, <1>8, <1>9 DEF Inv

-----------------------------------------------------------------------------
(* The loop over the targets of a filled MSHR, as the history of its       *)
(* results.                                                                *)
History(g, filled, l, n) ==
    g = [k \in 0 .. n |-> IF k = 0 THEN filled ELSE ServeTarget(g[k - 1], l[k])]

LEMMA HistoryGrows ==
    ASSUME NEW filled, NEW l, NEW n \in Nat, NEW g, History(g, filled, l, n)
    PROVE  \E h : History(h, filled, l, n + 1)
<1> DEFINE last == ServeTarget(g[n], l[n + 1])
           h == [k \in 0 .. n + 1 |-> IF k <= n THEN g[k] ELSE last]
<1>1. \A k \in 0 .. n : g[k] = IF k = 0 THEN filled ELSE ServeTarget(g[k - 1], l[k])
  BY DEF History
<1>2. h[n] = g[n] /\ \A k \in 1 .. n : h[k - 1] = g[k - 1]
  OBVIOUS
<1>3. last = ServeTarget(h[n], l[n + 1])
  BY <1>2
<1> HIDE DEF last
<1>4. \A k \in 0 .. n + 1 : h[k] = IF k = 0 THEN filled ELSE ServeTarget(h[k - 1], l[k])
  <2> SUFFICES ASSUME NEW k \in 0 .. n + 1
               PROVE  h[k] = IF k = 0 THEN filled ELSE ServeTarget(h[k - 1], l[k])
    OBVIOUS
  <2>1. CASE k <= n
    <3>1. k \in 0 .. n /\ h[k] = g[k] /\ (k # 0 => h[k - 1] = g[k - 1])
      BY <1>2, <2>1
    <3> QED BY <1>1, <3>1
  <2>2. CASE k = n + 1
    <3>1. h[k] = last /\ k - 1 = n /\ k # 0
      BY <2>2
    <3> QED BY <1>3, <2>2, <3>1, Zenon
  <2> QED BY <2>1, <2>2
<1>5. h = [k \in 0 .. n + 1 |-> h[k]]
  OBVIOUS
<1> HIDE DEF h
<1> QED BY <1>4, <1>5, Zenon DEF History

LEMMA HistoryExists ==
    ASSUME NEW filled, NEW l
    PROVE  \A n \in Nat : \E g : History(g, filled, l, n)
<1> DEFINE Missing == {n \in Nat : ~\E g : History(g, filled, l, n)}
<1>1. 0 \notin Missing
  <2> DEFINE g == [k \in 0 .. 0 |-> filled]
  <2>1. g = [k \in 0 .. 0 |-> IF k = 0 THEN filled ELSE ServeTarget(g[k - 1], l[k])]
    <3>1. 0 .. 0 = {0}
      OBVIOUS
    <3> QED BY <3>1
  <2> HIDE DEF g
  <2>2. History(g, filled, l, 0)
    BY <2>1 DEF History
  <2> QED BY <2>2
<1>2. ASSUME NEW n \in Nat, n + 1 \in Missing
      PROVE  n \in Missing
  <2>1. ASSUME NEW g, History(g, filled, l, n)
        PROVE  FALSE
    BY <1>2, <2>1, HistoryGrows
  <2> QED BY <2>1
<1>3. Missing = {}
  <2> SUFFICES ASSUME Missing # {} PROVE FALSE
    OBVIOUS
  <2>1. Missing \in SUBSET Nat
    OBVIOUS
  <2> HIDE DEF Missing
  <2> DEFINE m == Min(Missing)
  <2>2. m \in Missing /\ \A y \in Missing : m <= y
    BY <2>1, LeastTime
  <2> HIDE DEF m
  <2>3. m \in Nat /\ m # 0
    BY <1>1, <2>1, <2>2
  <2>4. m - 1 \in Nat /\ (m - 1) + 1 \in Missing
    BY <2>2, <2>3
  <2>5. m - 1 \in Missing
    BY <1>2, <2>4
  <2> QED BY <2>2, <2>3, <2>5
<1> QED BY <1>3

LEMMA ServeHistory ==
    ASSUME NEW filled, NEW l, Len(l) \in Nat
    PROVE  \E g : History(g, filled, l, Len(l)) /\ ServeTargets(filled, l) = g[Len(l)]
<1> DEFINE f[k \in 0 .. Len(l)] == IF k = 0 THEN filled ELSE ServeTarget(f[k - 1], l[k])
<1>1. ServeTargets(filled, l) = f[Len(l)]
  BY DEF ServeTargets
<1>2. PICK g : History(g, filled, l, Len(l))
  BY HistoryExists, Zenon
<1>3. f = CHOOSE h : h = [k \in 0 .. Len(l) |->
                            IF k = 0 THEN filled ELSE ServeTarget(h[k - 1], l[k])]
  OBVIOUS
<1> HIDE DEF f
<1>4. History(f, filled, l, Len(l))
  BY <1>2, <1>3, Zenon DEF History
<1> QED BY <1>1, <1>4

(* The number of snoops that the targets answer is a count.                *)
LEMMA SuppliedCount ==
    ASSUME NEW b, NEW ans, NEW l \in Seq(P!Targets)
    PROVE  ServeTargets(Received(b, ans), l).supplied \in Nat
<1> DEFINE filled == Received(b, ans)
           done == ServeTargets(filled, l)
           Counted(acc) ==
               /\ acc = [blk |-> acc.blk, supplied |-> acc.supplied, broken |-> acc.broken]
               /\ acc.supplied \in Nat
<1>1. Len(l) \in Nat /\ \A k \in 1 .. Len(l) : l[k] \in P!Targets
  OBVIOUS
<1>2. PICK g : History(g, filled, l, Len(l)) /\ done = g[Len(l)]
  BY <1>1, ServeHistory
<1>3. Counted(filled)
  BY DEF Received
<1>4. g[0] = filled /\ \A k \in 1 .. Len(l) : g[k] = ServeTarget(g[k - 1], l[k])
  BY <1>1, <1>2 DEF History
<1>5. ASSUME NEW acc, Counted(acc), NEW t \in P!Targets
      PROVE  Counted(ServeTarget(acc, t))
  <2>1. t.source \in {"FromCPU", "FromPrefetcher", "FromSnoop"}
    BY DEF P!Targets, P!Sources
  <2> DEFINE r == ServeTarget(acc, t)
  <2>2. ASSUME NEW x, NEW y, NEW n \in Nat,
               r = [acc EXCEPT !.broken = x, !.blk = y, !.supplied = n]
        PROVE  Counted(r)
    <3> HIDE DEF r
    <3>1. acc = [blk |-> acc.blk, supplied |-> acc.supplied, broken |-> acc.broken]
      BY <1>5
    <3>2. r = [blk |-> y, supplied |-> n, broken |-> x]
      BY <2>2, <3>1, Zenon
    <3> QED BY <2>2, <3>2, Zenon
  <2>3. /\ acc.supplied \in Nat
        /\ acc = [blk |-> acc.blk, supplied |-> acc.supplied, broken |-> acc.broken]
    BY <1>5
  <2>4. CASE t.source = "FromCPU"
    <3> DEFINE w == IF t.cmd = "WriteReq" THEN {"Dirty"} ELSE {}
               x == acc.broken \/ (IF t.cmd = "WriteReq" THEN "Writable" ELSE "Valid")
                                     \notin acc.blk
               y == acc.blk \cup w
               n == acc.supplied
    <3>1. r = [acc EXCEPT !.broken = x, !.blk = y]
      BY <2>3, <2>4 DEF ServeTarget
    <3> HIDE DEF x, y, r
    <3>2. r = [acc EXCEPT !.broken = x, !.blk = y, !.supplied = n]
      BY <2>3, <3>1
    <3>3. n \in Nat
      BY <2>3
    <3> HIDE DEF n, Counted
    <3>4. Counted(r)
      BY <2>2, <3>2, <3>3, Zenon
    <3> QED BY <3>4 DEF r
  <2>5. CASE t.source = "FromPrefetcher"
    <3> DEFINE x == acc.broken
               y == acc.blk \cup {"HWPrefetched"}
               n == acc.supplied
    <3>1. r = [acc EXCEPT !.blk = y]
      BY <2>3, <2>5 DEF ServeTarget
    <3> HIDE DEF y, r
    <3>2. r = [acc EXCEPT !.broken = x, !.blk = y, !.supplied = n]
      BY <2>3, <3>1, Zenon
    <3>3. n \in Nat
      BY <2>3
    <3> HIDE DEF n, x, Counted
    <3>4. Counted(r)
      BY <2>2, <3>2, <3>3, Zenon
    <3> QED BY <3>4 DEF r
  <2>6. CASE t.source = "FromSnoop"
    <3> DEFINE x == acc.broken
               y == SnoopedBlock(acc.blk, t.cmd)
               n == IF Responds(acc.blk) THEN acc.supplied + 1 ELSE acc.supplied
    <3>1. r = [acc EXCEPT !.blk = y, !.supplied = n]
      BY <2>3, <2>6 DEF ServeTarget
    <3>3. n \in Nat
      BY <2>3
    <3> HIDE DEF y, n, r
    <3>2. r = [acc EXCEPT !.broken = x, !.blk = y, !.supplied = n]
      BY <2>3, <3>1, Zenon
    <3> HIDE DEF x, Counted
    <3>4. Counted(r)
      BY <2>2, <3>2, <3>3, Zenon
    <3> QED BY <3>4 DEF r
  <2> QED BY <2>1, <2>4, <2>5, <2>6
<1> DEFINE Wrong == {k \in 0 .. Len(l) : ~Counted(g[k])}
<1> HIDE DEF filled, done, Counted
<1>6. Wrong = {}
  <2> SUFFICES ASSUME Wrong # {} PROVE FALSE
    OBVIOUS
  <2>1. Wrong \in SUBSET Nat
    BY <1>1
  <2> DEFINE k == Min(Wrong)
  <2>2. k \in Wrong /\ \A j \in Wrong : k <= j
    <3> HIDE DEF Wrong
    <3> QED BY <2>1, LeastTime
  <2> HIDE DEF k
  <2>3. k \in 0 .. Len(l) /\ ~Counted(g[k])
    BY <2>2
  <2>4. k # 0
    BY <1>3, <1>4, <2>3
  <2>5. k \in 1 .. Len(l) /\ k - 1 \in 0 .. Len(l) /\ ~(k <= k - 1)
    BY <1>1, <2>3, <2>4
  <2>6. Counted(g[k - 1])
    BY <2>2, <2>5
  <2>7. g[k] = ServeTarget(g[k - 1], l[k]) /\ l[k] \in P!Targets
    BY <1>1, <1>4, <2>5
  <2>8. Counted(g[k])
    BY <1>5, <2>6, <2>7
  <2> QED BY <2>3, <2>8
<1>7. Counted(done)
  BY <1>1, <1>2, <1>6
<1> QED BY <1>7 DEF Counted, done, filled

(* After k targets of the list l: acc is the block, which was b0 when the  *)
(* response had arrived, and the snoops that were answered; dirty tells    *)
(* that an answer was promised to them.                                    *)
ServedUpTo(acc, k, l, b0, dirty) ==
    /\ acc = [blk |-> acc.blk, supplied |-> acc.supplied, broken |-> acc.broken]
    /\ "Writable" \in acc.blk => "Writable" \in b0
    /\ (\A j \in 1 .. k : ~P!ClaimTarget(l[j])) =>
          /\ "Valid" \in acc.blk /\ "Readable" \in acc.blk
          /\ "Dirty" \in acc.blk <=>
                "Dirty" \in b0 \/ \E j \in 1 .. k : P!StoreTarget(l[j])
    /\ acc.supplied =
          IF dirty THEN Cardinality({j \in 1 .. k : l[j].source = "FromSnoop"}) ELSE 0

LEMMA ServeOne ==
    ASSUME NEW m, NEW b, NEW ans, NEW l, P!Servable(l, m, b, ans),
           NEW b0, b0 = FillStatus(b, ans), NEW dirty, dirty = m.pendingDirty,
           dirty \in BOOLEAN,
           NEW k \in 1 .. Len(l), NEW acc, ServedUpTo(acc, k - 1, l, b0, dirty),
           NEW r, r = ServeTarget(acc, l[k])
    PROVE  ServedUpTo(r, k, l, b0, dirty)
<1> DEFINE t == l[k]
           S == {j \in 1 .. k - 1 : l[j].source = "FromSnoop"}
           R == {j \in 1 .. k : l[j].source = "FromSnoop"}
<1>1. /\ Len(l) \in Nat /\ DOMAIN l = 1 .. Len(l) /\ k \in DOMAIN l
      /\ t.source \in {"FromCPU", "FromPrefetcher", "FromSnoop"}
  <2>1. l \in Seq(P!Targets)
    BY DEF P!Servable
  <2>2. Len(l) \in Nat /\ DOMAIN l = 1 .. Len(l) /\ k \in DOMAIN l /\ l[k] \in P!Targets
    BY <2>1
  <2> QED BY <2>2 DEF P!Targets, P!Sources
<1>2. k \in Nat /\ k - 1 \in Nat /\ 1 .. k = (1 .. k - 1) \cup {k} /\ k \notin 1 .. k - 1
  BY <1>1
<1>3. \A j \in 1 .. k - 1 : j \in DOMAIN l /\ ~P!ClaimTarget(l[j])
  BY <1>1, <1>2 DEF P!Servable, P!ClaimEnds
<1>4. /\ acc = [blk |-> acc.blk, supplied |-> acc.supplied, broken |-> acc.broken]
      /\ "Writable" \in acc.blk => "Writable" \in b0
      /\ "Valid" \in acc.blk /\ "Readable" \in acc.blk
      /\ "Dirty" \in acc.blk <=> "Dirty" \in b0 \/ \E j \in 1 .. k - 1 : P!StoreTarget(l[j])
      /\ acc.supplied = IF dirty THEN Cardinality(S) ELSE 0
  BY <1>3 DEF ServedUpTo
<1>5. /\ IsFiniteSet(S) /\ Cardinality(S) \in Nat
      /\ t.source = "FromSnoop" => R = S \cup {k} /\ Cardinality(R) = Cardinality(S) + 1
      /\ t.source # "FromSnoop" => R = S
  <2>1. IsFiniteSet(1 .. k - 1)
    BY <1>2, FS_Interval
  <2>2. IsFiniteSet(S) /\ k \notin S
    BY <1>2, <2>1, FS_Subset
  <2>3. Cardinality(S) \in Nat /\ Cardinality(S \cup {k}) = Cardinality(S) + 1
    BY <2>2, FS_CardinalityType, FS_AddElement, Zenon
  <2>4. /\ t.source = "FromSnoop" => R = S \cup {k}
        /\ t.source # "FromSnoop" => R = S
    BY <1>2
  <2> QED BY <2>2, <2>3, <2>4, Zenon
<1>6. P!StoreTarget(t) <=> t.source = "FromCPU" /\ t.cmd = "WriteReq"
  BY DEF P!StoreTarget
<1>7. /\ (\E j \in 1 .. k : P!StoreTarget(l[j])) <=>
            P!StoreTarget(t) \/ \E j \in 1 .. k - 1 : P!StoreTarget(l[j])
      /\ (\A j \in 1 .. k : ~P!ClaimTarget(l[j])) => ~P!ClaimTarget(t)
  BY <1>2
<1> HIDE DEF S, R, t
<1>8. r = ServeTarget(acc, t)
  BY DEF t
<1>9. acc.supplied \in Nat
  BY <1>4, <1>5
<1>10. CASE t.source = "FromCPU"
  <2> DEFINE w == IF t.cmd = "WriteReq" THEN {"Dirty"} ELSE {}
             x == acc.broken \/ (IF t.cmd = "WriteReq" THEN "Writable" ELSE "Valid")
                                   \notin acc.blk
  <2>1. r = [acc EXCEPT !.broken = x, !.blk = acc.blk \cup w]
    BY <1>4, <1>8, <1>10, Zenon DEF ServeTarget
  <2> HIDE DEF x
  <2>2. /\ r = [blk |-> r.blk, supplied |-> r.supplied, broken |-> r.broken]
        /\ r.blk = acc.blk \cup w /\ r.supplied = acc.supplied
    BY <1>4, <2>1, Zenon
  <2>3. R = S
    BY <1>5, <1>10
  <2>4. /\ "Writable" \in r.blk => "Writable" \in b0
        /\ "Valid" \in r.blk /\ "Readable" \in r.blk
        /\ "Dirty" \in r.blk <=> "Dirty" \in acc.blk \/ P!StoreTarget(t)
    BY <1>4, <1>6, <1>10, <2>2
  <2> QED BY <1>4, <1>7, <2>2, <2>3, <2>4, Zenon DEF ServedUpTo, R
<1>11. CASE t.source = "FromPrefetcher"
  <2>1. r = [acc EXCEPT !.blk = acc.blk \cup {"HWPrefetched"}]
    BY <1>4, <1>8, <1>11, Zenon DEF ServeTarget
  <2>2. /\ r = [blk |-> r.blk, supplied |-> r.supplied, broken |-> r.broken]
        /\ r.blk = acc.blk \cup {"HWPrefetched"} /\ r.supplied = acc.supplied
    BY <1>4, <2>1, Zenon
  <2>3. R = S
    BY <1>5, <1>11
  <2>4. /\ "Writable" \in r.blk => "Writable" \in b0
        /\ "Valid" \in r.blk /\ "Readable" \in r.blk
        /\ "Dirty" \in r.blk <=> "Dirty" \in acc.blk \/ P!StoreTarget(t)
    BY <1>4, <1>6, <1>11, <2>2
  <2> QED BY <1>4, <1>7, <2>2, <2>3, <2>4, Zenon DEF ServedUpTo, R
<1>12. CASE t.source = "FromSnoop"
  <2> DEFINE y == SnoopedBlock(acc.blk, t.cmd)
             n == IF Responds(acc.blk) THEN acc.supplied + 1 ELSE acc.supplied
  <2>1. r = [acc EXCEPT !.blk = y, !.supplied = n]
    BY <1>4, <1>8, <1>12, Zenon DEF ServeTarget
  <2>2. /\ y = {} \/ y = acc.blk \ {"Writable"}
        /\ ~P!ClaimTarget(t) => y = acc.blk \ {"Writable"}
    BY <1>12 DEF SnoopedBlock, P!ClaimTarget, P!NeedsExclusive, MQ!IsInvalidate
  <2>3. n = IF dirty THEN Cardinality(S) + 1 ELSE 0
    <3>1. k \in P!SnoopsIn(l)
      BY <1>1, <1>12 DEF P!SnoopsIn, t
    <3>2. dirty => "Dirty" \in acc.blk
      <4>1. CASE ans = "Dirty"
        BY <1>4, <4>1 DEF FillStatus
      <4>2. CASE dirty /\ ans # "Dirty"
        <5>1. PICK j \in DOMAIN l : j < k /\ P!StoreTarget(l[j])
          BY <3>1, <4>2 DEF P!Servable, P!DirtyBefore
        <5>2. j \in 1 .. k - 1
          BY <1>1, <1>2, <5>1
        <5> QED BY <1>4, <5>1, <5>2
      <4> QED BY <4>1, <4>2
    <3>3. ~dirty => "Dirty" \notin acc.blk
      <4> SUFFICES ASSUME ~dirty PROVE "Dirty" \notin acc.blk
        OBVIOUS
      <4>1. ans # "Dirty" /\ b = {} /\ \A j \in DOMAIN l : j < k => ~P!StoreTarget(l[j])
        BY <3>1 DEF P!Servable
      <4>2. \A j \in 1 .. k - 1 : ~P!StoreTarget(l[j])
        BY <1>1, <1>2, <1>3, <4>1
      <4>3. "Dirty" \notin b0
        BY <4>1 DEF FillStatus
      <4> QED BY <1>4, <4>2, <4>3
    <3> QED BY <1>4, <3>2, <3>3 DEF Responds
  <2> HIDE DEF y, n
  <2>4. /\ r = [blk |-> r.blk, supplied |-> r.supplied, broken |-> r.broken]
        /\ r.blk = y /\ r.supplied = n
    BY <1>4, <2>1, Zenon
  <2>5. ~P!StoreTarget(t)
    BY <1>6, <1>12
  <2>6. r.supplied = IF dirty THEN Cardinality(R) ELSE 0
    BY <1>5, <1>12, <2>3, <2>4
  <2>7. /\ "Writable" \in r.blk => "Writable" \in b0
        /\ ~P!ClaimTarget(t) =>
              /\ "Valid" \in r.blk /\ "Readable" \in r.blk
              /\ "Dirty" \in r.blk <=> "Dirty" \in acc.blk
    BY <1>4, <2>2, <2>4
  <2> QED BY <1>4, <1>7, <2>4, <2>5, <2>6, <2>7 DEF ServedUpTo, R
<1> QED BY <1>1, <1>10, <1>11, <1>12

(* What the answered targets leave: the block is valid and readable unless *)
(* a snoop took it, it is writable only if the response was, and every     *)
(* snoop that was promised an answer got it.                               *)
LEMMA ServedAll ==
    ASSUME NEW m, NEW b, NEW ans, NEW l, P!Servable(l, m, b, ans),
           m.pendingDirty \in BOOLEAN,
           NEW done, done = ServeTargets(Received(b, ans), l)
    PROVE  /\ "Writable" \in done.blk => "Writable" \in b \/ ans # "Shared"
           /\ ~m.postInvalidate => "Valid" \in done.blk /\ "Readable" \in done.blk
           /\ done.supplied = IF m.pendingDirty THEN Cardinality(P!SnoopsIn(m.targets.list))
                                                ELSE 0
<1> DEFINE b0 == FillStatus(b, ans)
           dirty == m.pendingDirty
           filled == Received(b, ans)
<1>1. Len(l) \in Nat /\ DOMAIN l = 1 .. Len(l)
  BY DEF P!Servable
<1>2. PICK g : History(g, filled, l, Len(l)) /\ done = g[Len(l)]
  BY <1>1, ServeHistory
<1>3. ServedUpTo(filled, 0, l, b0, dirty)
  <2>1. /\ filled = [blk |-> b0, supplied |-> 0, broken |-> FALSE]
        /\ "Valid" \in b0 /\ "Readable" \in b0
    BY DEF Received, FillStatus
  <2>2. {j \in 1 .. 0 : l[j].source = "FromSnoop"} = {} /\ Cardinality({}) = 0
    BY FS_EmptySet
  <2>3. \A j \in 1 .. 0 : FALSE
    OBVIOUS
  <2> HIDE DEF filled, b0, dirty
  <2> QED BY <2>1, <2>2, <2>3 DEF ServedUpTo
<1>4. g[0] = filled /\ \A k \in 1 .. Len(l) : g[k] = ServeTarget(g[k - 1], l[k])
  BY <1>1, <1>2 DEF History
<1> DEFINE Wrong == {k \in 0 .. Len(l) : ~ServedUpTo(g[k], k, l, b0, dirty)}
<1> HIDE DEF b0, dirty, filled
<1>5. Wrong = {}
  <2> SUFFICES ASSUME Wrong # {} PROVE FALSE
    OBVIOUS
  <2>1. Wrong \in SUBSET Nat
    BY <1>1
  <2> DEFINE k == Min(Wrong)
  <2>2. k \in Wrong /\ \A j \in Wrong : k <= j
    <3> HIDE DEF Wrong
    <3> QED BY <2>1, LeastTime
  <2> HIDE DEF k
  <2>3. k \in 0 .. Len(l) /\ ~ServedUpTo(g[k], k, l, b0, dirty)
    BY <2>2
  <2>4. k # 0
    BY <1>3, <1>4, <2>3
  <2>5. k \in 1 .. Len(l) /\ k - 1 \in 0 .. Len(l) /\ ~(k <= k - 1)
    BY <1>1, <2>3, <2>4
  <2>6. ServedUpTo(g[k - 1], k - 1, l, b0, dirty)
    BY <2>2, <2>5
  <2>7. g[k] = ServeTarget(g[k - 1], l[k])
    BY <1>4, <2>5
  <2>8. b0 = FillStatus(b, ans) /\ dirty = m.pendingDirty /\ dirty \in BOOLEAN
    BY DEF b0, dirty
  <2>9. ServedUpTo(g[k], k, l, b0, dirty)
    BY <2>5, <2>6, <2>7, <2>8, ServeOne, Zenon
  <2> QED BY <2>3, <2>9
<1>6. ServedUpTo(done, Len(l), l, b0, dirty)
  BY <1>1, <1>2, <1>5
<1>7. ~m.postInvalidate => \A j \in 1 .. Len(l) : ~P!ClaimTarget(l[j])
  BY <1>1 DEF P!Servable
<1>8. {j \in 1 .. Len(l) : l[j].source = "FromSnoop"} = P!SnoopsIn(m.targets.list)
  <2>1. P!SnoopsIn(l) = P!SnoopsIn(m.targets.list)
    BY DEF P!Servable
  <2> QED BY <1>1, <2>1 DEF P!SnoopsIn
<1>9. "Writable" \in b0 => "Writable" \in b \/ ans # "Shared"
  BY DEF b0, FillStatus
<1> QED BY <1>6, <1>7, <1>8, <1>9, Zenon DEF ServedUpTo, dirty

-----------------------------------------------------------------------------
(* How the operations on the MSHRs keep Tracked: one block changes, the    *)
(* others keep their MSHRs and their status bits.                          *)
LEMMA TrackedAt ==
    ASSUME NEW st, Tracked(st), NEW r, NEW a,
           r.answer = [x \in Addrs |-> r.answer[x]], r.owed = [x \in Addrs |-> r.owed[x]],
           \A x \in Addrs : x # a => /\ r.tags[x] = st.tags[x] \/ r.tags[x] = {}
                                     /\ r.answer[x] = st.answer[x] /\ r.owed[x] = st.owed[x],
           \A x, b, e, n : x # a /\ P!BlockOK(st.mshrQueue, x, b, e, n)
                              => P!BlockOK(r.mshrQueue, x, b, e, n),
           a \in Addrs => P!BlockOK(r.mshrQueue, a, r.tags[a], r.answer[a], r.owed[a])
    PROVE  Tracked(r)
<1> SUFFICES ASSUME NEW x \in Addrs
             PROVE  P!BlockOK(r.mshrQueue, x, r.tags[x], r.answer[x], r.owed[x])
  BY DEF Tracked
<1>1. P!BlockOK(st.mshrQueue, x, st.tags[x], st.answer[x], st.owed[x])
  BY DEF Tracked
<1>2. CASE x = a
  BY <1>2
<1>3. CASE x # a
  <2>1. P!BlockOK(r.mshrQueue, x, st.tags[x], st.answer[x], st.owed[x])
    BY <1>1, <1>3
  <2>2. P!BlockOK(r.mshrQueue, x, {}, st.answer[x], st.owed[x])
    BY <2>1, Sizes, P!LessTracks DEF P!Settled
  <2> QED BY <1>3, <2>1, <2>2
<1> QED BY <1>2, <1>3

(* A block loses status bits, but not only its readability.                *)
LEMMA TrackedLess ==
    ASSUME NEW st, Tracked(st), NEW r, r.mshrQueue = st.mshrQueue, SameBook(r, st),
           NEW a, \A x \in Addrs : x # a => r.tags[x] = st.tags[x],
           NEW b, b = st.tags[a], r.tags[a] = {} \/ r.tags[a] = b \ {"Writable"}
    PROVE  Tracked(r)
<1>1. r.answer = [x \in Addrs |-> r.answer[x]] /\ r.owed = [x \in Addrs |-> r.owed[x]]
  BY DEF Tracked, SameBook
<1>2. ASSUME a \in Addrs
      PROVE  P!BlockOK(r.mshrQueue, a, r.tags[a], r.answer[a], r.owed[a])
  <2>1. P!BlockOK(st.mshrQueue, a, b, st.answer[a], st.owed[a])
    BY <1>2 DEF Tracked
  <2>2. r.tags[a] \subseteq b /\ (P!Settled(b) => P!Settled(r.tags[a]))
    BY DEF P!Settled
  <2>3. P!BlockOK(st.mshrQueue, a, r.tags[a], st.answer[a], st.owed[a])
    BY <2>1, <2>2, Sizes, P!LessTracks
  <2> QED BY <2>3 DEF SameBook
<1> QED BY <1>1, <1>2, TrackedAt DEF SameBook

LEMMA TrackedHit ==
    ASSUME NEW st, Tracked(st), NEW a \in Addrs, NEW cmd, Hit(st, a, cmd),
           NEW r, r.mshrQueue = st.mshrQueue, SameBook(r, st),
           r.tags[a] = HitStatus(st.tags[a], cmd),
           \A x \in Addrs : x # a => r.tags[x] = st.tags[x]
    PROVE  Tracked(r)
<1>1. r.answer = [x \in Addrs |-> r.answer[x]] /\ r.owed = [x \in Addrs |-> r.owed[x]]
  BY DEF Tracked, SameBook
<1>2. P!BlockOK(r.mshrQueue, a, r.tags[a], r.answer[a], r.owed[a])
  <2> DEFINE b == st.tags[a]
             y == r.tags[a]
  <2>1. P!BlockOK(st.mshrQueue, a, b, st.answer[a], st.owed[a])
    BY DEF Tracked
  <2>2. /\ "Readable" \in b \/ "Writable" \in b
        /\ "Valid" \in b => "Valid" \in y
        /\ "Readable" \in b => "Readable" \in y
    BY DEF Hit, HitStatus
  <2> HIDE DEF b, y
  <2>3. P!BlockOK(st.mshrQueue, a, y, st.answer[a], st.owed[a])
    BY <2>1, <2>2, Sizes, P!HitTracks
  <2> QED BY <2>3 DEF SameBook, y
<1> QED BY <1>1, <1>2, TrackedAt DEF SameBook

LEMMA TrackedJoin ==
    ASSUME NEW st, Stored(st), Tracked(st), NEW i \in P!Held(st.mshrQueue),
           NEW cmd \in {"ReadReq", "WriteReq"}, NEW lat \in Nat,
           cmd = "WriteReq" => "Writable" \notin st.tags[st.mshrQueue.registers[i].blkAddr],
           NEW r, r.mshrQueue = Joined(st.mshrQueue, i, cmd, lat, st.order),
           r.tags = st.tags, SameBook(r, st)
    PROVE  Tracked(r)
<1> DEFINE q == st.mshrQueue
           t == r.mshrQueue
           blk == q.registers[i].blkAddr
<1>1. P!Misses(q, st.order) /\ st.order \in Nat
  BY DEF Stored, Sound
<1>2. t = P!Put(q, i, P!MSHR_allocateTarget(q.registers[i], cmd, lat, st.order))
  BY SameTarget DEF P!Put, Joined
<1>3. i \in P!Held(q) /\ cmd \in {"ReadReq", "WriteReq"} /\ lat \in Nat
  OBVIOUS
<1> HIDE DEF q, t
<1>4. P!Joins(q, t, i, cmd)
  BY ONLY <1>1, <1>2, <1>3, Sizes, P!JoinTracks, Zenon
<1>5. \A a \in Addrs : P!BlockOK(q, a, st.tags[a], st.answer[a], st.owed[a])
  BY DEF Tracked, q
<1>6. P!Missed(cmd, st.tags[blk])
  BY DEF q, P!Missed
<1> HIDE DEF blk
<1>7. \A a \in Addrs : P!BlockOK(t, a, st.tags[a], st.answer[a], st.owed[a])
  <2> TAKE a \in Addrs
  <2>1. P!BlockOK(q, a, st.tags[a], st.answer[a], st.owed[a])
    BY <1>5
  <2>2. a = blk => P!Missed(cmd, st.tags[a])
    BY <1>6
  <2> QED BY ONLY <1>4, <2>1, <2>2 DEF P!Joins, blk
<1> QED BY <1>7 DEF Tracked, SameBook, t

(* Without an MSHR a block is settled, and nobody was promised an answer.  *)
LEMMA Unclaimed ==
    ASSUME NEW st, Stored(st), Tracked(st), NEW a \in Addrs,
           MQ!findMatch(st.mshrQueue, a) = 0
    PROVE  st.owed[a] = 0 /\ P!Settled(st.tags[a])
<1> DEFINE q == st.mshrQueue
<1>1. P!Base(P!Registers(P!Blocks), q)
  BY MissFacts DEF Stored
<1>2. P!findMatch(q, a) = 0
  BY SameMatch
<1>3. P!BlockOK(q, a, st.tags[a], st.answer[a], st.owed[a])
  BY DEF Tracked
<1> HIDE DEF q
<1>4. \A j \in P!Elements(q.allocatedList) : q.registers[j].blkAddr # a
  BY ONLY <1>1, <1>2, Sizes, P!FindOK
<1> QED BY <1>3, <1>4 DEF P!BlockOK, P!Held

LEMMA TrackedAllocate ==
    ASSUME NEW st, Stored(st), Tracked(st), NEW a \in Addrs,
           NEW cmd \in {"ReadReq", "WriteReq", "HardPFReq"}, NEW lat \in Nat,
           MQ!findMatch(st.mshrQueue, a) = 0, st.mshrQueue.allocated < Mshrs,
           cmd = "ReadReq" => "Readable" \notin st.tags[a],
           cmd = "WriteReq" => "Writable" \notin st.tags[a],
           cmd = "HardPFReq" => st.tags[a] = {},
           NEW r, r.mshrQueue = MQ!MSHRQueue_allocate(st.mshrQueue, a, cmd, lat, st.order),
           SameBook(r, st), r.tags[a] = st.tags[a] \ {"Readable"},
           \A x \in Addrs : x # a => r.tags[x] = st.tags[x]
    PROVE  Tracked(r)
<1> DEFINE q == st.mshrQueue
           t == r.mshrQueue
           b == r.tags[a]
<1>1. /\ P!Misses(q, st.order) /\ st.order \in Nat /\ q.allocated < P!N
  <2>1. P!Misses(q, st.order) /\ st.order \in Nat
    BY DEF Stored, Sound
  <2>2. q.allocated \in Nat
    BY <2>1, MissFacts
  <2> QED BY <2>1, <2>2, Sizes DEF P!N
<1>2. t = P!MSHRQueue_allocate(q, a, cmd, lat, st.order) /\ P!findMatch(q, a) = 0
  BY SameAllocate, SameMatch
<1>3. a \in Addrs /\ cmd \in {"ReadReq", "WriteReq", "HardPFReq"} /\ lat \in Nat
  OBVIOUS
<1>4. st.owed[a] = 0 /\ P!Settled(st.tags[a])
  BY Unclaimed
<1>5. /\ "Readable" \notin b
      /\ b # {} => cmd = "WriteReq"
      /\ cmd = "WriteReq" => "Writable" \notin b
  BY <1>4 DEF P!Settled
<1> HIDE DEF q, t, b
<1>6. /\ \A y, x, e, n : y # a /\ P!BlockOK(q, y, x, e, n) => P!BlockOK(t, y, x, e, n)
      /\ \A x, e : /\ "Readable" \notin x
                   /\ x # {} => cmd = "WriteReq"
                   /\ cmd = "WriteReq" => "Writable" \notin x
                   => P!BlockOK(t, a, x, e, 0)
  BY ONLY <1>1, <1>2, <1>3, Sizes, P!AllocateTracks
<1>7. P!BlockOK(t, a, b, r.answer[a], 0)
  BY <1>5, <1>6
<1>8. P!BlockOK(r.mshrQueue, a, r.tags[a], r.answer[a], r.owed[a])
  BY <1>4, <1>7 DEF SameBook, t, b
<1>9. r.answer = [x \in Addrs |-> r.answer[x]] /\ r.owed = [x \in Addrs |-> r.owed[x]]
  BY DEF Tracked, SameBook
<1>10. \A y, x, e, n : y # a /\ P!BlockOK(st.mshrQueue, y, x, e, n)
                          => P!BlockOK(r.mshrQueue, y, x, e, n)
  BY <1>6 DEF q, t
<1> QED BY <1>8, <1>9, <1>10, TrackedAt, Zenon DEF SameBook

LEMMA TrackedSend ==
    ASSUME NEW st, Stored(st), Tracked(st), NEW i \in P!Elements(st.mshrQueue.readyList),
           NEW ans \in Answers(st.mshrQueue.registers[i].targets.needsExclusive),
           NEW r, r.mshrQueue = MQ!MSHRQueue_markInService(st.mshrQueue, i, ans = "Dirty"),
           r.tags = st.tags, r.owed = st.owed,
           r.answer = [st.answer EXCEPT ![st.mshrQueue.registers[i].blkAddr] = ans]
    PROVE  Tracked(r)
<1> DEFINE q == st.mshrQueue
           t == r.mshrQueue
           a == q.registers[i].blkAddr
<1>1. P!Misses(q, st.order) /\ st.order \in Nat
  BY DEF Stored, Sound
<1>2. a \in Addrs
  BY <1>1, MissFacts
<1>3. /\ t = P!MSHRQueue_markInService(q, i, ans = "Dirty")
      /\ i \in P!Elements(q.readyList) /\ ans \in {"Exclusive", "Dirty", "Shared"}
      /\ q.registers[i].targets.needsExclusive => ans # "Shared"
  BY SameMark DEF Answers
<1>4. P!BlockOK(q, a, st.tags[a], st.answer[a], st.owed[a])
  BY <1>2 DEF Tracked
<1>5. /\ r.answer = [x \in Addrs |-> r.answer[x]] /\ r.owed = [x \in Addrs |-> r.owed[x]]
      /\ r.answer[a] = ans /\ \A x \in Addrs : x # a => r.answer[x] = st.answer[x]
  <2>1. st.answer = [x \in Addrs |-> st.answer[x]] /\ st.owed = [x \in Addrs |-> st.owed[x]]
    BY DEF Tracked
  <2>2. r.answer = [st.answer EXCEPT ![a] = ans]
    OBVIOUS
  <2> HIDE DEF a
  <2> QED BY <1>2, <2>1, <2>2
<1> HIDE DEF q, t
<1>6. /\ \A y, x, e, n : y # a /\ P!BlockOK(q, y, x, e, n) => P!BlockOK(t, y, x, e, n)
      /\ \A x, e, n : P!BlockOK(q, a, x, e, n) => P!BlockOK(t, a, x, ans, n)
  BY ONLY <1>1, <1>3, Sizes, P!SendTracks, Zenon
<1> HIDE DEF a
<1>7. P!BlockOK(r.mshrQueue, a, r.tags[a], r.answer[a], r.owed[a])
  BY <1>4, <1>5, <1>6 DEF t
<1>8. \A y, x, e, n : y # a /\ P!BlockOK(st.mshrQueue, y, x, e, n)
                         => P!BlockOK(r.mshrQueue, y, x, e, n)
  BY <1>6 DEF q, t
<1> QED BY <1>5, <1>7, <1>8, TrackedAt

LEMMA TrackedKept ==
    ASSUME NEW st, Stored(st), Tracked(st), NEW i \in P!Held(st.mshrQueue),
           NEW cmd \in P!SnoopCommands, NEW a \in Addrs,
           a = st.mshrQueue.registers[i].blkAddr,
           NEW r, r.mshrQueue = Snooped(st.mshrQueue, i, cmd, st.order),
           r.tags = st.tags, r.answer = st.answer, Owing(r, st, i, a, cmd)
    PROVE  Tracked(r)
<1> DEFINE q == st.mshrQueue
           t == r.mshrQueue
           h == P!MSHR_handleSnoop(q.registers[i], cmd, st.order)
           k == IF h.memInhibit THEN st.owed[a] + 1 ELSE st.owed[a]
<1>1. P!Misses(q, st.order) /\ st.order \in Nat
  BY DEF Stored, Sound
<1>2. t = P!Put(q, i, h.mshr) /\ r.owed = [st.owed EXCEPT ![a] = k]
  BY SameSnoop DEF P!Put, Snooped, Promised, Owing
<1>3. i \in P!Held(q) /\ cmd \in P!SnoopCommands /\ a = q.registers[i].blkAddr
  OBVIOUS
<1>4. P!BlockOK(q, a, st.tags[a], st.answer[a], st.owed[a])
  BY DEF Tracked
<1> HIDE DEF q, t
<1>5. /\ \A y, x, e, n : y # a /\ P!BlockOK(q, y, x, e, n) => P!BlockOK(t, y, x, e, n)
      /\ \A x, e, n : P!BlockOK(q, a, x, e, n)
                         => P!BlockOK(t, a, x, e, IF h.memInhibit THEN n + 1 ELSE n)
  <2>1. h = P!MSHR_handleSnoop(q.registers[i], cmd, st.order) /\ t = P!Put(q, i, h.mshr)
    BY <1>2
  <2> HIDE DEF h, k
  <2>2. /\ \A y, x, e, n : y # q.registers[i].blkAddr /\ P!BlockOK(q, y, x, e, n)
                               => P!BlockOK(t, y, x, e, n)
        /\ \A x, e, n : P!BlockOK(q, q.registers[i].blkAddr, x, e, n)
               => P!BlockOK(t, q.registers[i].blkAddr, x, e,
                            IF h.memInhibit THEN n + 1 ELSE n)
    BY ONLY <1>1, <1>3, <2>1, Sizes, P!SnoopTracks
  <2> QED BY ONLY <1>3, <2>2
<1>6. P!BlockOK(t, a, st.tags[a], st.answer[a], k)
  BY ONLY <1>4, <1>5, Zenon
<1> HIDE DEF k
<1>7. /\ r.answer = [x \in Addrs |-> r.answer[x]] /\ r.owed = [x \in Addrs |-> r.owed[x]]
      /\ r.owed[a] = k /\ \A x \in Addrs : x # a => r.owed[x] = st.owed[x]
  BY <1>2 DEF Tracked
<1>8. P!BlockOK(r.mshrQueue, a, r.tags[a], r.answer[a], r.owed[a])
  BY <1>6, <1>7, Zenon DEF t
<1>9. \A y, x, e, n : y # a /\ P!BlockOK(st.mshrQueue, y, x, e, n)
                         => P!BlockOK(r.mshrQueue, y, x, e, n)
  BY <1>5 DEF q, t
<1>10. \A x \in Addrs : x # a => r.tags[x] = st.tags[x] /\ r.answer[x] = st.answer[x]
  OBVIOUS
<1> QED BY ONLY Tracked(st), <1>7, <1>8, <1>9, <1>10, TrackedAt

LEMMA TrackedTick ==
    ASSUME NEW st, Stored(st), Tracked(st), NEW r, r.mshrQueue = MQ!QueueTick(st.mshrQueue),
           r.tags = st.tags, SameBook(r, st)
    PROVE  Tracked(r)
<1> DEFINE q == st.mshrQueue
           t == r.mshrQueue
<1>1. P!Misses(q, st.order) /\ t = P!QueueTick(q)
  BY SameTick DEF Stored
<1>2. \A a \in Addrs : P!BlockOK(q, a, st.tags[a], st.answer[a], st.owed[a])
  BY DEF Tracked
<1> HIDE DEF q, t
<1>3. \A a, x, e, n : P!BlockOK(q, a, x, e, n) => P!BlockOK(t, a, x, e, n)
  BY ONLY <1>1, Sizes, P!TickTracks
<1>4. \A a \in Addrs : P!BlockOK(t, a, st.tags[a], st.answer[a], st.owed[a])
  BY <1>2, <1>3
<1> QED BY <1>4 DEF Tracked, SameBook, t

LEMMA SameCardinality == \A S : P!Cardinality(S) = Cardinality(S)
  BY DEF P!Cardinality, Cardinality

(* A response: what is left of the block agrees with what is left of the   *)
(* MSHR, and every promised snoop has been answered.                       *)
LEMMA TrackedRespond ==
    ASSUME NEW st, Stored(st), Tracked(st), NEW i \in P!Ids,
           st.mshrQueue.registers[i].inService,
           Unblocked(st, i).mshrQueue = st.mshrQueue,
           NEW a \in Addrs, a = st.mshrQueue.registers[i].blkAddr,
           NEW r, r.mshrQueue = MQ!Answered(FilledQueue(st, i), i),
           \A x \in Addrs : x # a => r.tags[x] = st.tags[x] \/ r.tags[x] = {},
           r.tags[a] = {} \/ r.tags[a] = Remains(st, i),
           Noted(r, st, a, "none", st.owed[a] - Serving(st, i).supplied)
    PROVE  Tracked(r)
<1> DEFINE q == st.mshrQueue
           m == q.registers[i]
           e == st.answer[a]
           x == st.tags[a]
           f == FilledQueue(st, i)
           l == f.registers[i].targets.list
           t == r.mshrQueue
           done == Serving(st, i)
           left == AfterSnoops(f.registers[i], done.blk)
           v == r.tags[a]
<1>1. P!Misses(q, st.order) /\ st.order \in Nat
  BY DEF Stored, Sound
<1>2. P!Responds(q, i, e = "Shared", f, t)
  <2>1. f = P!Filled(q, i, TRUE, e = "Shared")
    BY SameFill, Zenon DEF FilledQueue
  <2>2. t = P!Answered(f, i)
    BY SameAnswer
  <2> HIDE DEF f, t, q, e
  <2> QED BY <2>1, <2>2 DEF P!Responds
<1>3. i \in P!Ids /\ q.registers[i].inService /\ a = q.registers[i].blkAddr
  OBVIOUS
<1>4. P!BlockOK(q, a, x, e, st.owed[a])
  BY Zenon DEF Tracked
<1>5. done = ServeTargets(Received(x, e), l)
  BY Zenon DEF Serving
<1>6. /\ v = {} \/ v = IF Again(st, i) THEN left \ {"Readable"} ELSE left
      /\ Again(st, i) <=> P!Defers(f.registers[i])
  BY Zenon DEF Remains, Again, P!Defers
<1>7. m.pendingDirty \in BOOLEAN /\ m.targets.list \in Seq(P!Targets)
  <2>1. q \in P!QueueOf(P!Registers(P!Blocks))
    BY <1>1, MissFacts, Zenon DEF P!Base
  <2>2. m \in P!Registers(P!Blocks)
    BY <2>1 DEF P!QueueOf
  <2> HIDE DEF m
  <2> QED BY <2>2 DEF P!Registers, P!TargetLists
<1> HIDE DEF q, t, f, e, x, done, v
<1>80. P!AnswersTo(q, t, f, i, e)
  BY ONLY <1>1, <1>2, <1>3, Sizes, P!RespondTracks
<1>8. /\ \A b, y, d, n : b # a /\ P!BlockOK(q, b, y, d, n) => P!BlockOK(t, b, y, d, n)
      /\ \A y, n : P!BlockOK(q, a, y, e, n) =>
            /\ P!Servable(f.registers[i].targets.list, q.registers[i], y, e)
            /\ f.registers[i].postInvalidate = q.registers[i].postInvalidate
            /\ f.registers[i].postDowngrade = q.registers[i].postDowngrade
            /\ n = P!SavedIn(q.registers[i])
            /\ \A z : P!LeavesOf(f.registers[i], q.registers[i], y, e, z)
                   => P!BlockOK(t, a, z, "none", 0)
  BY ONLY <1>3, <1>80 DEF P!AnswersTo
<1>9. /\ P!Servable(l, m, x, e) /\ st.owed[a] = P!SavedIn(m)
      /\ f.registers[i].postInvalidate = m.postInvalidate
      /\ f.registers[i].postDowngrade = m.postDowngrade
      /\ P!LeavesOf(f.registers[i], m, x, e, v) => P!BlockOK(t, a, v, "none", 0)
  BY <1>4, <1>8, Zenon
<1> HIDE DEF l, m
<1>10. /\ "Writable" \in done.blk => "Writable" \in x \/ e # "Shared"
       /\ ~m.postInvalidate => "Valid" \in done.blk /\ "Readable" \in done.blk
       /\ done.supplied = IF m.pendingDirty THEN Cardinality(P!SnoopsIn(m.targets.list)) ELSE 0
  BY <1>5, <1>7, <1>9, ServedAll
<1>11. st.owed[a] - done.supplied = 0
  <2> DEFINE S == P!SnoopsIn(m.targets.list)
  <2>1. Cardinality(S) \in Nat
    <3>1. S \subseteq 1 .. Len(m.targets.list) /\ Len(m.targets.list) \in Nat
      BY <1>7 DEF P!SnoopsIn
    <3>2. IsFiniteSet(1 .. Len(m.targets.list))
      BY <3>1, FS_Interval
    <3> QED BY <3>1, <3>2, FS_Subset, FS_CardinalityType
  <2>2. st.owed[a] = IF m.pendingDirty THEN Cardinality(S) ELSE 0
    <3>1. m.inService
      BY <1>3 DEF m
    <3> QED BY <1>9, <3>1, SameCardinality DEF P!SavedIn
  <2> QED BY <1>10, <2>1, <2>2
<1>12. P!LeavesOf(f.registers[i], m, x, e, v)
  <2>1. /\ m.postInvalidate => left = {}
        /\ m.postDowngrade => "Writable" \notin left
        /\ left \subseteq done.blk
        /\ left = {} \/ ("Valid" \in left /\ "Readable" \in left)
    BY <1>9, <1>10 DEF AfterSnoops
  <2> HIDE DEF left
  <2> QED BY <1>6, <1>10, <2>1 DEF P!LeavesOf, P!Settled
<1>13. /\ r.answer = [y \in Addrs |-> r.answer[y]] /\ r.owed = [y \in Addrs |-> r.owed[y]]
       /\ r.answer[a] = "none" /\ r.owed[a] = 0
       /\ \A y \in Addrs : y # a => r.answer[y] = st.answer[y] /\ r.owed[y] = st.owed[y]
  <2>1. /\ st.answer = [y \in Addrs |-> st.answer[y]] /\ st.owed = [y \in Addrs |-> st.owed[y]]
    BY DEF Tracked
  <2>2. /\ r.answer = [st.answer EXCEPT ![a] = "none"]
        /\ r.owed = [st.owed EXCEPT ![a] = 0]
    BY <1>11 DEF Noted, done
  <2> QED BY <2>1, <2>2, Zenon
<1>14. P!BlockOK(r.mshrQueue, a, r.tags[a], r.answer[a], r.owed[a])
  BY <1>9, <1>12, <1>13, Zenon DEF t, v
<1>15. \A b, y, d, n : b # a /\ P!BlockOK(st.mshrQueue, b, y, d, n)
                          => P!BlockOK(r.mshrQueue, b, y, d, n)
  BY <1>8 DEF q, t
<1>16. \A y \in Addrs : y # a => r.tags[y] = st.tags[y] \/ r.tags[y] = {}
  OBVIOUS
<1> QED BY ONLY Tracked(st), a \in Addrs, <1>13, <1>14, <1>15, <1>16, TrackedAt

LEMMA TrackedNew ==
    ASSUME NEW st, st.mshrQueue = MQ!NewQueue(Mshrs, 4, DemandMshrReserve),
           st.tags = [a \in Addrs |-> {}], st.answer = [a \in Addrs |-> "none"],
           st.owed = [a \in Addrs |-> 0]
    PROVE  Tracked(st)
<1> DEFINE q == st.mshrQueue
<1>1. q = P!NewQueue(Mshrs, 4, DemandMshrReserve)
  BY SameNew
<1> HIDE DEF q
<1>2. \A a, e : P!BlockOK(q, a, {}, e, 0)
  BY ONLY <1>1, Sizes, P!NewTracks
<1> QED BY <1>2 DEF Tracked, q

(* What Tracked says of a block with an MSHR, and of one without.          *)
LEMMA TrackedBlock ==
    ASSUME NEW st, Stored(st), Tracked(st), NEW a \in Addrs,
           NEW i, i = MQ!findMatch(st.mshrQueue, a), NEW m, m = st.mshrQueue.registers[i]
    PROVE  /\ i = 0 => st.owed[a] = 0
           /\ i # 0 => /\ P!Tracks(m, st.tags[a], st.answer[a], st.owed[a])
                       /\ m.targets.list \in Seq(P!Targets)
                       /\ m.deferredTargets.list \in Seq(P!Targets)
                       /\ i \in P!Held(st.mshrQueue) /\ m.blkAddr = a
<1> DEFINE q == st.mshrQueue
<1>1. i = 0 => st.owed[a] = 0
  BY Unclaimed, Zenon
<1>2. ASSUME i # 0
      PROVE  /\ P!Tracks(m, st.tags[a], st.answer[a], st.owed[a])
             /\ m.targets.list \in Seq(P!Targets) /\ m.deferredTargets.list \in Seq(P!Targets)
             /\ i \in P!Held(q) /\ m.blkAddr = a
  <2>1. P!Misses(q, st.order) /\ P!findMatch(q, a) # 0 /\ i = P!findMatch(q, a)
    BY <1>2, SameMatch DEF Stored
  <2>2. P!Base(P!Registers(P!Blocks), q)
    BY <2>1, MissFacts
  <2>3. /\ P!findMatch(q, a) \in P!Elements(q.allocatedList)
        /\ q.registers[P!findMatch(q, a)].blkAddr = a
    <3> HIDE DEF q
    <3> QED BY ONLY <2>1, <2>2, Sizes, P!FindOK
  <2>4. i \in P!Held(q) /\ m.blkAddr = a /\ m = q.registers[i]
    BY <2>1, <2>3 DEF P!Held
  <2>5. P!BlockOK(q, a, st.tags[a], st.answer[a], st.owed[a])
    BY DEF Tracked
  <2>6. P!Tracks(m, st.tags[a], st.answer[a], st.owed[a])
    BY <2>4, <2>5 DEF P!BlockOK
  <2>7. m \in P!Registers(P!Blocks)
    <3>1. i \in P!Ids
      BY <2>4, <2>1, Sizes, MissFacts DEF P!Ids, P!N
    <3> QED BY <2>2, <2>4, <3>1 DEF P!Base, P!QueueOf
  <2> QED BY <2>4, <2>6, <2>7 DEF P!Registers, P!TargetLists
<1> QED BY <1>1, <1>2

-----------------------------------------------------------------------------
(* A request of the CPU side, while neither queue is full.                 *)
LEMMA JoinOK ==
    ASSUME NEW st, Inv(st), st.writeBuffer.allocated < WriteBuffers,
           NEW i \in P!Held(st.mshrQueue), NEW cmd \in {"ReadReq", "WriteReq"},
           NEW lat \in Nat, NEW r, r = Coalesce(st, i, cmd, lat)
    PROVE  /\ Inv(r) /\ st.mshrQueue.allocated > 0 /\ r.writeBuffer = st.writeBuffer
           /\ View(r) = View(st) \/ View(r) = LastTarget(View(st))
           /\ Tracked(st) /\ (cmd = "WriteReq" =>
                  "Writable" \notin st.tags[st.mshrQueue.registers[i].blkAddr])
              => Tracked(r)
<1> DEFINE q == st.mshrQueue
           new == Joined(q, i, cmd, lat, st.order)
<1>1. /\ Sound(st) /\ P!Misses(q, st.order) /\ PW!WriteInv(st.writeBuffer) /\ st.order \in Nat
      /\ Stored(st) /\ Scheduled(st)
  BY DEF Inv, Stored, Sound
<1>2. i # 0 /\ q.allocated > 0
  BY <1>1, MissFacts
<1>3. P!Misses(new, st.order + 1) /\ P!Same(q, new)
  <2>1. new = P!Put(q, i, P!MSHR_allocateTarget(q.registers[i], cmd, lat, st.order))
    BY SameTarget DEF P!Put, Joined
  <2>2. i \in P!Held(q) /\ cmd \in {"ReadReq", "WriteReq"} /\ lat \in Nat
    OBVIOUS
  <2> HIDE DEF q, new
  <2> QED BY ONLY <1>1, <2>1, <2>2, Sizes, P!MissesJoin, Zenon
<1>4. /\ new.allocated = q.allocated /\ P!Held(new) = P!Held(q)
      /\ P!Times(new) \subseteq P!Times(q) /\ P!Prefetches(new) \subseteq P!Prefetches(q)
  BY <1>3 DEF P!Same
<1>5. /\ Sound(r) /\ r.mshrQueue = new /\ r.writeBuffer = st.writeBuffer
      /\ r.order = st.order + 1 /\ r.noTargetMSHR \in {st.noTargetMSHR, i}
      /\ r.pfq = st.pfq /\ r.tags = st.tags /\ Keeps(r, st)
      /\ Awake(st) => Awake(r)
      /\ View(r) = View(st) \/ View(r) = LastTarget(View(st))
      /\ SameBook(r, st)
  <2>1. new = Joined(st.mshrQueue, i, cmd, lat, st.order)
    OBVIOUS
  <2>2. new.allocated = st.mshrQueue.allocated /\ r = Coalesce(st, i, cmd, lat)
    BY <1>4
  <2> HIDE DEF new
  <2> QED BY ONLY <1>1, <1>2, <2>1, <2>2, CoalesceFacts
<1> HIDE DEF new
<1>6. Stored(r)
  <2>1. r.noTargetMSHR = 0 \/ r.noTargetMSHR \in P!Held(new)
    BY <1>1, <1>4, <1>5 DEF Stored
  <2>2. \A b \in P!Prefetches(new) : r.tags[b] = {}
    BY <1>1, <1>4, <1>5 DEF Stored
  <2>3. Fits(r.writeBuffer.allocated, new.allocated, P!deferring(new), Len(r.pfq))
    <3>1. r.writeBuffer.allocated \in Nat /\ r.writeBuffer.allocated < WriteBuffers
      BY <1>1, <1>5, WriteFacts
    <3> QED BY ONLY <3>1, Sizes DEF Fits
  <2> QED BY <1>1, <1>3, <1>5, <2>1, <2>2, <2>3 DEF Stored
<1>7. Scheduled(r)
  <2>1. MQ!canPrefetch(new) <=> MQ!canPrefetch(q)
    BY <1>1, <1>3, <1>4, MissFacts
  <2>2. MQ!canPrefetch(r.mshrQueue) /\ r.pfq # <<>> => Awake(r)
    BY <1>1, <1>5, <2>1 DEF Scheduled
  <2> QED BY <1>1, <1>4, <1>5, <2>2, ScheduledKept
<1>8. ASSUME Tracked(st), cmd = "WriteReq" =>
                             "Writable" \notin st.tags[st.mshrQueue.registers[i].blkAddr]
      PROVE  Tracked(r)
  <2>1. r.mshrQueue = Joined(st.mshrQueue, i, cmd, lat, st.order)
    BY <1>5 DEF new
  <2> QED BY <1>1, <1>5, <1>8, <2>1, TrackedJoin, Zenon
<1> QED BY <1>2, <1>5, <1>6, <1>7, <1>8 DEF Inv

LEMMA MissOK ==
    ASSUME NEW st, Inv(st), st.writeBuffer.allocated < WriteBuffers,
           st.mshrQueue.allocated < Mshrs, NEW a \in Addrs,
           NEW cmd \in {"ReadReq", "WriteReq"}, NEW lat \in Nat,
           MQ!findMatch(st.mshrQueue, a) = 0, NEW r, r = Allocate(st, a, cmd, lat)
    PROVE  /\ Inv(r) /\ r.writeBuffer = st.writeBuffer
           /\ View(r) = Blocking!allocateBufferInternal(View(st), "MSHRs")
           /\ Tracked(st) /\ ~Hit(st, a, cmd) => Tracked(r)
<1> DEFINE q == st.mshrQueue
           new == MQ!MSHRQueue_allocate(q, a, cmd, lat, st.order)
<1>1. /\ Sound(st) /\ P!Misses(q, st.order) /\ PW!WriteInv(st.writeBuffer) /\ st.order \in Nat
      /\ Stored(st) /\ Scheduled(st)
  BY Zenon DEF Inv, Stored, Sound
<1>2. q.allocated \in Nat /\ q.allocated < P!N
  BY <1>1, Sizes, MissFacts DEF P!N
<1>3. /\ P!Misses(new, st.order + 1) /\ P!More1(q, new, lat)
      /\ P!Prefetches(new) \subseteq P!Prefetches(q)
  <2>1. new = P!MSHRQueue_allocate(q, a, cmd, lat, st.order) /\ P!findMatch(q, a) = 0
    BY SameAllocate, SameMatch
  <2>2. /\ a \in Addrs /\ lat \in Nat /\ cmd \in {"ReadReq", "WriteReq", "HardPFReq"}
        /\ cmd # "HardPFReq"
    OBVIOUS
  <2> HIDE DEF q, new
  <2> QED BY ONLY <1>1, <1>2, <2>1, <2>2, Sizes, P!MissesAllocate
<1>4. /\ new.allocated = q.allocated + 1 /\ P!Held(q) \subseteq P!Held(new)
      /\ P!Times(new) \subseteq P!Times(q) \cup {lat}
  BY <1>3 DEF P!More1
<1>5. MQ!isFull(new) <=> new.allocated >= Mshrs
  BY <1>3, MissFacts
<1>6. /\ Sound(r) /\ r.mshrQueue = new /\ r.writeBuffer = st.writeBuffer
      /\ r.order = st.order + 1 /\ r.noTargetMSHR = st.noTargetMSHR
      /\ r.pfq = st.pfq /\ Emptier(r, st) /\ Keeps(r, st) /\ Awake(r) /\ Soon(r, lat)
      /\ View(r) = Blocking!allocateBufferInternal(View(st), "MSHRs")
      /\ SameBook(r, st) /\ r.tags[a] = st.tags[a] \ {"Readable"}
      /\ \A x \in Addrs : x # a => r.tags[x] = st.tags[x]
  <2>1. /\ new = MQ!MSHRQueue_allocate(st.mshrQueue, a, cmd, lat, st.order)
        /\ st.mshrQueue.allocated \in Nat /\ new.allocated = st.mshrQueue.allocated + 1
        /\ st.mshrQueue.allocated < Mshrs
    BY <1>2, <1>4
  <2>2. a \in Addrs /\ lat \in Nat /\ r = Allocate(st, a, cmd, lat)
    OBVIOUS
  <2> HIDE DEF new, q
  <2> QED BY ONLY <1>1, <1>5, <2>1, <2>2, AllocateFacts
<1> HIDE DEF new
<1>7. Stored(r)
  <2>1. r.noTargetMSHR = 0 \/ r.noTargetMSHR \in P!Held(new)
    BY <1>1, <1>4, <1>6 DEF Stored
  <2>2. \A b \in P!Prefetches(new) : r.tags[b] = {}
    <3>1. \A b \in P!Prefetches(q) : b \in Addrs /\ st.tags[b] = {}
      BY <1>1, MissFacts DEF P!Prefetches, P!Prefetching, Stored
    <3> QED BY <1>3, <1>6, <3>1 DEF Emptier
  <2>3. Fits(r.writeBuffer.allocated, new.allocated, P!deferring(new), Len(r.pfq))
    <3>1. r.writeBuffer.allocated \in Nat /\ r.writeBuffer.allocated < WriteBuffers
      BY <1>1, <1>6, WriteFacts
    <3> QED BY ONLY <3>1, Sizes DEF Fits
  <2> QED BY <1>1, <1>3, <1>6, <2>1, <2>2, <2>3 DEF Stored
<1>8. Scheduled(r)
  <2>1. \A x \in P!Times(q) \cup PW!Times(st.writeBuffer) : Soon(r, x)
    <3>1. P!Times(q) \cup PW!Times(st.writeBuffer) \subseteq Nat
      BY <1>1, MissFacts, WriteFacts
    <3> QED BY <1>1, <1>6, <3>1 DEF Scheduled, Keeps
  <2>2. \A x \in P!Times(new) \cup PW!Times(r.writeBuffer) : Soon(r, x)
    BY <1>4, <1>6, <2>1
  <2> QED BY <1>6, <2>2 DEF Scheduled
<1>9. ASSUME Tracked(st), ~Hit(st, a, cmd)
      PROVE  Tracked(r)
  <2>1. /\ r.mshrQueue = MQ!MSHRQueue_allocate(st.mshrQueue, a, cmd, lat, st.order)
        /\ cmd \in {"ReadReq", "WriteReq", "HardPFReq"}
    BY <1>6 DEF new
  <2>2. /\ cmd = "ReadReq" => "Readable" \notin st.tags[a]
        /\ cmd = "WriteReq" => "Writable" \notin st.tags[a]
        /\ cmd = "HardPFReq" => st.tags[a] = {}
    BY <1>9 DEF Hit, MQ!NeedsExclusive
  <2> QED BY <1>1, <1>6, <1>9, <2>1, <2>2, TrackedAllocate
<1> QED BY <1>6, <1>7, <1>8, <1>9 DEF Inv

LEMMA RequestOK ==
    ASSUME NEW st, Inv(st), st.writeBuffer.allocated < WriteBuffers,
           st.mshrQueue.allocated < Mshrs, NEW a \in Addrs,
           NEW cmd \in {"ReadReq", "WriteReq"}, NEW lat \in Nat, NEW pf \in Proposals,
           NEW r, r = recvTimingReq(st, a, cmd, lat, pf)
    PROVE  /\ Inv(r)
           /\ \/ View(r) = View(st)
              \/ View(r) = LastTarget(View(st)) /\ st.mshrQueue.allocated > 0
              \/ View(r) = Blocking!allocateBufferInternal(View(st), "MSHRs")
           /\ Tracked(st) => Tracked(r)
<1> DEFINE i == MQ!findMatch(st.mshrQueue, a)
<1>0. /\ Hit(st, a, cmd) =>
            \E y : /\ y = HitStatus(st.tags[a], cmd)
                   /\ r = Tag(st, a, y) \/ r = Notified(Tag(st, a, y), a, pf, lat)
      /\ ~Hit(st, a, cmd) /\ i # 0 =>
            r = Notified(Coalesce(st, i, cmd, lat), a, pf, lat)
      /\ ~Hit(st, a, cmd) /\ i = 0 =>
            r = Notified(Allocate(st, a, cmd, lat), a, pf, lat)
  BY RequestCases
<1> HIDE DEF i
<1>1. Sound(st) /\ P!Misses(st.mshrQueue, st.order) /\ Stored(st)
  BY DEF Inv, Stored
<1>2. CASE Hit(st, a, cmd)
  <2>1. PICK y : /\ y = HitStatus(st.tags[a], cmd)
                 /\ r = Tag(st, a, y) \/ r = Notified(Tag(st, a, y), a, pf, lat)
    BY <1>0, <1>2
  <2> DEFINE h == Tag(st, a, y)
  <2>2. /\ SameButTags(h, st) /\ h.tags = [b \in Addrs |-> h.tags[b]]
        /\ \A b \in Addrs : b # a => h.tags[b] = st.tags[b]
        /\ SameBook(h, st) /\ h.tags[a] = y
    BY <1>1, TagFacts
  <2> HIDE DEF h
  <2>3. \A b \in P!Prefetches(st.mshrQueue) : h.tags[b] = {}
    <3>1. \A b \in P!Prefetches(st.mshrQueue) : b \in Addrs /\ st.tags[b] = {}
      BY <1>1, MissFacts DEF P!Prefetches, P!Prefetching, Stored
    <3>2. st.tags[a] # {}
      BY <1>2, HitPresent
    <3> QED BY <2>2, <3>1, <3>2
  <2>4. Inv(h) /\ View(h) = View(st)
    BY <2>2, <2>3, TagsOK
  <2>5. h.writeBuffer.allocated < WriteBuffers
    BY <2>2 DEF SameButTags
  <2>8. Tracked(st) => Tracked(h)
    BY <1>2, <2>1, <2>2, TrackedHit DEF SameButTags
  <2>6. CASE r = h
    BY <2>4, <2>6, <2>8
  <2>7. CASE r = Notified(h, a, pf, lat)
    BY <2>4, <2>5, <2>7, <2>8, NotifiedOK
  <2> QED BY <2>1, <2>6, <2>7 DEF h
<1>3. CASE ~Hit(st, a, cmd) /\ i # 0
  <2> DEFINE h == Coalesce(st, i, cmd, lat)
  <2>1. r = Notified(h, a, pf, lat)
    BY <1>0, <1>3
  <2>2. i \in P!Held(st.mshrQueue) /\ st.mshrQueue.registers[i].blkAddr = a
    <3>1. P!findMatch(st.mshrQueue, a) # 0 /\ i = P!findMatch(st.mshrQueue, a)
      BY <1>3, SameMatch DEF i
    <3>2. P!Base(P!Registers(P!Blocks), st.mshrQueue)
      BY <1>1, MissFacts
    <3>3. /\ P!findMatch(st.mshrQueue, a) \in P!Elements(st.mshrQueue.allocatedList)
          /\ st.mshrQueue.registers[P!findMatch(st.mshrQueue, a)].blkAddr = a
      BY ONLY <3>1, <3>2, Sizes, P!FindOK
    <3> QED BY <3>1, <3>3 DEF P!Held
  <2>3. /\ Inv(h) /\ st.mshrQueue.allocated > 0 /\ h.writeBuffer = st.writeBuffer
        /\ View(h) = View(st) \/ View(h) = LastTarget(View(st))
        /\ Tracked(st) => Tracked(h)
    <3>1. cmd = "WriteReq" => "Writable" \notin st.tags[st.mshrQueue.registers[i].blkAddr]
      BY <1>3, <2>2 DEF Hit, MQ!NeedsExclusive
    <3> QED BY <2>2, <3>1, JoinOK
  <2> HIDE DEF h
  <2>4. Inv(r) /\ View(r) = View(h) /\ (Tracked(h) => Tracked(r))
    BY <2>1, <2>3, NotifiedOK
  <2> QED BY <2>3, <2>4
<1>4. CASE ~Hit(st, a, cmd) /\ i = 0
  <2> DEFINE h == Allocate(st, a, cmd, lat)
  <2>1. r = Notified(h, a, pf, lat)
    BY <1>0, <1>4
  <2>3. /\ Inv(h) /\ h.writeBuffer = st.writeBuffer
        /\ View(h) = Blocking!allocateBufferInternal(View(st), "MSHRs")
        /\ Tracked(st) => Tracked(h)
    <3>1. MQ!findMatch(st.mshrQueue, a) = 0
      BY <1>4 DEF i
    <3> QED BY <1>4, <3>1, MissOK
  <2> HIDE DEF h
  <2>4. Inv(r) /\ View(r) = View(h) /\ (Tracked(h) => Tracked(r))
    BY <2>1, <2>3, NotifiedOK
  <2> QED BY <2>3, <2>4
<1> QED BY <1>2, <1>3, <1>4
=============================================================================
