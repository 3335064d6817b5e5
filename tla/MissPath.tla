------------------------------ MODULE MissPath ------------------------------
(***************************************************************************)
(* The timing-mode miss path of one classic cache closest to the core      *)
(* (mem/cache/cache_impl.hh, base.hh): requests of the CPU side, the MSHR  *)
(* queue and the write buffer, the choice of the next request to send, the *)
(* event of the memory-side request queue (mem/packet_queue.cc), the       *)
(* queued prefetcher (mem/cache/prefetch/queued.cc), snoops of other       *)
(* caches and the responses that fill the cache.  It composes the queues   *)
(* of MSHRQueue with the blocking protocol of CacheBlocking and implements *)
(* the latter.                                                             *)
(*                                                                         *)
(* The bus and the other caches are the environment: they take or refuse a *)
(* request, answer in any order and snoop at any time, within what a       *)
(* coherent system can send.  The replacement policy is any choice of a    *)
(* victim.  Data, uncacheable, locked and software-prefetch accesses are   *)
(* left out.                                                               *)
(***************************************************************************)
EXTENDS Naturals, SequencesExt

CONSTANTS
    Mshrs, DemandMshrReserve, WriteBuffers, ExtraWriteReserve,
    NumTarget,      \* p->tgts_per_mshr
    Addrs,          \* block addresses, all of one set
    Ways,           \* the associativity
    Latencies,      \* forward latency and header delay, relative to now
    PayloadDelays,  \* time until the payload of a response has arrived
    QueueSize,      \* p->queue_size of the prefetcher
    PrefetchAddrs,  \* the addresses calculatePrefetch may propose
    SnoopAddrs,     \* the addresses other caches use
    MaxOrder,       \* bound: no request is accepted once order has reached it
    MaxSnoops       \* bound: snoops of other caches in a behaviour

ASSUME MissPathAssumption ==
    /\ Mshrs \in Nat \ {0} /\ DemandMshrReserve \in Nat
    /\ WriteBuffers \in Nat \ {0} /\ ExtraWriteReserve \in Nat \ {0}
    /\ NumTarget \in Nat \ {0} /\ Ways \in Nat \ {0} /\ QueueSize \in Nat \ {0}
    /\ PrefetchAddrs \subseteq Addrs /\ SnoopAddrs \subseteq Addrs
    /\ Latencies \subseteq Nat /\ PayloadDelays \subseteq Nat
    /\ MaxOrder \in Nat /\ MaxSnoops \in Nat

VARIABLES
    s,      \* the cache
    peer,   \* the master on the CPU side, as in CacheBlocking
    snoops  \* the number of snoops so far

vars == <<s, peer, snoops>>

(* The two queues and the blocking protocol.  The view of the cache that   *)
(* CacheBlocking has is the refinement mapping.                            *)
MQ == INSTANCE MSHRQueue WITH
          NumEntries <- Mshrs, Reserve <- 4, DemandReserve <- DemandMshrReserve,
          q <- s.mshrQueue, order <- s.order
WB == INSTANCE MSHRQueue WITH
          NumEntries <- WriteBuffers, Reserve <- Mshrs + ExtraWriteReserve,
          DemandReserve <- 0, q <- s.writeBuffer, order <- s.order

BlockingView ==
    [blocked |-> s.blocked, portBlocked |-> s.portBlocked,
     mustSendRetry |-> s.mustSendRetry, retryScheduled |-> s.retryScheduled,
     failed |-> s.failed, noTarget |-> s.noTargetMSHR # 0,
     allocated |-> [n \in {"MSHRs", "WriteBuffer"} |->
         IF n = "MSHRs" THEN s.mshrQueue.allocated ELSE s.writeBuffer.allocated]]
Blocking == INSTANCE CacheBlocking WITH c <- BlockingView

Init ==
    /\ peer = "idle" /\ snoops = 0
    /\ s = [blocked |-> {}, portBlocked |-> FALSE, mustSendRetry |-> FALSE,
            retryScheduled |-> FALSE, failed |-> FALSE,
            mshrQueue |-> MQ!NewQueue(Mshrs, 4, DemandMshrReserve),
            writeBuffer |-> WB!NewQueue(WriteBuffers, Mshrs + ExtraWriteReserve, 0),
            noTargetMSHR |-> 0,
            tags |-> [a \in Addrs |-> {}],         \* status bits of each block
            sendEvent |-> {}, waitingOnRetry |-> FALSE,
            snoopRespQueue |-> <<>>, pfq |-> <<>>, order |-> 0,
            payload |-> 0,  \* history: payload of the last response with a rerequest
            answer |-> [a \in Addrs |-> "none"],   \* what the bus will answer
            owed |-> [a \in Addrs |-> 0],          \* snoops promised an answer
            broken |-> FALSE]                      \* an assert did not hold

Assert_(st, cond) == [st EXCEPT !.broken = @ \/ ~cond]
Present(st, a) == st.tags[a] # {}

-----------------------------------------------------------------------------
(* PacketQueue::schedSendEvent, and the memory-side port's requestBus.     *)
schedSendEvent(st, when) ==
    IF st.waitingOnRetry THEN Assert_(st, st.sendEvent = {})
    ELSE [st EXCEPT !.sendEvent = {Min(@ \cup {Max({when, 1})})}]

(* BaseCache::allocateBufferInternal.                                      *)
Occupy(st, n, a, cmd, when) ==
    LET q == IF n = "MSHRs" THEN st.mshrQueue ELSE st.writeBuffer
        new == MQ!MSHRQueue_allocate(q, a, cmd, when, st.order)
        put == IF n = "MSHRs" THEN [st EXCEPT !.mshrQueue = new, !.order = @ + 1]
                              ELSE [st EXCEPT !.writeBuffer = new, !.order = @ + 1]
    IN  IF MQ!isFull(new) THEN Blocking!setBlocked(put, n) ELSE put

allocateBufferInternal(st, n, a, cmd, when, requestBus) ==
    IF requestBus THEN schedSendEvent(Occupy(st, n, a, cmd, when), when)
                  ELSE Occupy(st, n, a, cmd, when)

(* Faulty form: every freed entry unblocks the cache.                      *)
ReleaseAlways(st, n, new) ==
    Blocking!clearBlocked(IF n = "MSHRs" THEN [st EXCEPT !.mshrQueue = new]
                                         ELSE [st EXCEPT !.writeBuffer = new], n)

(* A queue has changed: the cache unblocks when it is no longer full.      *)
Release(st, n, new) ==
    LET old == IF n = "MSHRs" THEN st.mshrQueue ELSE st.writeBuffer
        put == IF n = "MSHRs" THEN [st EXCEPT !.mshrQueue = new]
                              ELSE [st EXCEPT !.writeBuffer = new]
    IN  IF MQ!isFull(old) /\ ~MQ!isFull(new) THEN Blocking!clearBlocked(put, n)
                                             ELSE put

(* BaseCache::markInServiceInternal.                                       *)
markInService(st, n, i, pending_dirty_resp) ==
    Release(st, n, MQ!MSHRQueue_markInService(
                       IF n = "MSHRs" THEN st.mshrQueue ELSE st.writeBuffer,
                       i, pending_dirty_resp))

-----------------------------------------------------------------------------
(* The queued prefetcher.  calculatePrefetch is any choice of at most one  *)
(* address, pf is what it proposed.                                        *)
PrefetchReady(st) ==    \* nextPrefetchReadyTime, a set of at most one time
    IF st.pfq = <<>> THEN {} ELSE {Head(st.pfq).tick}

Enqueue(pfq, a) ==      \* queue_filter, then the bound of the queue
    IF \E k \in DOMAIN pfq : pfq[k].addr = a THEN pfq
    ELSE Append(IF Len(pfq) = QueueSize THEN Tail(pfq) ELSE pfq,
                [addr |-> a, tick |-> 1])

(* queue_squash, then the proposed address.  queue_filter keeps the        *)
(* addresses of the queue apart, so at most one is squashed.               *)
notify(st, a, pf) ==
    LET kept == RemoveFirstMatch(st.pfq, LAMBDA p : p.addr = a)
    IN  [st EXCEPT !.pfq = IF pf = <<>> THEN kept ELSE Enqueue(kept, Head(pf))]

Notified(st, a, pf, lat) ==
    LET n == notify(st, a, pf)
    IN  IF n.pfq = <<>> THEN n
        ELSE schedSendEvent(n, Max(PrefetchReady(n) \cup {lat}))

-----------------------------------------------------------------------------
(* Cache::recvTimingReq for a load or a store (access included).           *)
Hit(st, a, cmd) ==
    LET permission == IF MQ!NeedsExclusive(cmd) THEN "Writable" ELSE "Readable"
    IN  permission \in st.tags[a]

(* A request joins the MSHR of its block; the last one there is room for   *)
(* blocks the cache.                                                       *)
Coalesce(st, i, cmd, lat) ==
    LET added == [st EXCEPT !.mshrQueue.registers[i] =
                                MQ!MSHR_allocateTarget(@, cmd, lat, st.order),
                            !.order = @ + 1]
    IN  IF MQ!getNumTargets(added.mshrQueue.registers[i]) = NumTarget
        THEN Blocking!setBlocked([added EXCEPT !.noTargetMSHR = i], "NoTargets")
        ELSE added

(* Faulty form: the block stays readable.                                  *)
AllocateReadable(st, a, cmd, lat) ==
    allocateBufferInternal(st, "MSHRs", a, cmd, lat, TRUE)

(* A write miss on a valid block makes it unreadable until it completes.   *)
Allocate(st, a, cmd, lat) ==
    LET checked == Assert_(st, Present(st, a) =>
                                 /\ MQ!NeedsExclusive(cmd)
                                 /\ "Writable" \notin st.tags[a])
    IN  allocateBufferInternal([checked EXCEPT !.tags[a] = @ \ {"Readable"}],
                               "MSHRs", a, cmd, lat, TRUE)

recvTimingReq(st, a, cmd, lat, pf) ==
    LET i == MQ!findMatch(st.mshrQueue, a)
        dirty == IF cmd = "WriteReq" THEN {"Dirty"} ELSE {}
        hit == [st EXCEPT !.tags[a] = (@ \ {"HWPrefetched"}) \cup dirty]
    IN  IF Hit(st, a, cmd)
        THEN IF "HWPrefetched" \in st.tags[a] THEN Notified(hit, a, pf, lat) ELSE hit
        ELSE Notified(IF i # 0 THEN Coalesce(st, i, cmd, lat)
                               ELSE Allocate(st, a, cmd, lat), a, pf, lat)

RefuseReq ==
    /\ ~Blocking!Accepts(s)
    /\ s' = [s EXCEPT !.mustSendRetry = TRUE]
    /\ peer' = "waiting"
    /\ UNCHANGED snoops

AcceptReq(a, cmd, lat, pf) ==
    /\ Blocking!Accepts(s) /\ s.order < MaxOrder
    /\ s' = [recvTimingReq(s, a, cmd, lat, pf) EXCEPT !.mustSendRetry = FALSE]
    /\ UNCHANGED <<peer, snoops>>

ProcessSendRetry ==
    /\ s.retryScheduled
    /\ s' = [s EXCEPT !.retryScheduled = FALSE, !.mustSendRetry = FALSE]
    /\ peer' = "idle"
    /\ UNCHANGED snoops

-----------------------------------------------------------------------------
(* Cache::getNextMSHR without its prefetch: the queue and the register to  *)
(* send from.  A pending request to the block of the chosen one goes first,*)
(* whatever its ready time.                                                *)
None == [queue |-> "none", i |-> 0]
MissEntry(i) == [queue |-> "MSHRs", i |-> i]
WriteEntry(i) == [queue |-> "WriteBuffer", i |-> i]

(* Faulty form: misses never wait for a writeback.                         *)
MissesFirst(st) ==
    LET miss == MQ!getNextMSHR(st.mshrQueue)
        write == WB!getNextMSHR(st.writeBuffer)
    IN  IF miss # 0 THEN MissEntry(miss)
        ELSE IF write # 0 THEN WriteEntry(write) ELSE None

NextQueued(st) ==
    LET miss == MQ!getNextMSHR(st.mshrQueue)
        write == WB!getNextMSHR(st.writeBuffer)
        preferWrite == write # 0 /\ \/ miss = 0
                                    \/ /\ WB!isFull(st.writeBuffer)
                                       /\ st.writeBuffer.inServiceEntries = 0
        w == st.writeBuffer.registers[write]
        earlierMiss == MQ!findPending(st.mshrQueue, w.blkAddr)
        pendingWrite == WB!findPending(st.writeBuffer,
                                       st.mshrQueue.registers[miss].blkAddr)
    IN  IF preferWrite
        THEN IF earlierMiss # 0 /\ st.mshrQueue.registers[earlierMiss].order < w.order
             THEN MissEntry(earlierMiss) ELSE WriteEntry(write)
        ELSE IF miss = 0 THEN None
        ELSE IF pendingWrite # 0 THEN WriteEntry(pendingWrite) ELSE MissEntry(miss)

(* Faulty form: the block is not looked up again when the prefetch issues. *)
PrefetchUnchecked(st) ==
    [st EXCEPT !.pfq = Tail(@), !.mshrQueue =
        MQ!MSHRQueue_allocate(@, Head(st.pfq).addr, "HardPFReq", 0, st.order)]

(* The prefetch of getNextMSHR: the oldest of the queue leaves it and gets *)
(* an MSHR unless its block is present or on the way.                      *)
IssuePrefetch(st) ==
    LET a == Head(st.pfq).addr
        popped == [st EXCEPT !.pfq = Tail(@)]
    IN  IF \/ Present(st, a)
           \/ MQ!findMatch(st.mshrQueue, a) # 0
           \/ WB!findMatch(st.writeBuffer, a) # 0
        THEN popped
        ELSE allocateBufferInternal(popped, "MSHRs", a, "HardPFReq", 0, FALSE)

CanIssuePrefetch(st) ==
    NextQueued(st) = None /\ MQ!canPrefetch(st.mshrQueue) /\ st.pfq # <<>>

(* Cache::nextMSHRReadyTime, as a set of times that is empty for MaxTick.  *)
ReadyTime(q) ==
    IF q.readyList = <<>> THEN {} ELSE {q.registers[Head(q.readyList)].readyTime}
nextMSHRReadyTime(st) ==
    LET times == ReadyTime(st.mshrQueue) \cup ReadyTime(st.writeBuffer) \cup
                 (IF MQ!canPrefetch(st.mshrQueue) THEN PrefetchReady(st) ELSE {})
    IN  IF times = {} THEN {} ELSE {Min(times)}

(* Faulty form: writebacks and prefetches that wait are forgotten.         *)
RescheduleMisses(st) ==
    LET times == ReadyTime(st.mshrQueue)
    IN  IF times = {} THEN st ELSE schedSendEvent(st, Min(times))

(* Faulty form: one event sends one request, what is left is forgotten.    *)
NoReschedule(st) == st

Reschedule(st) ==
    LET times == nextMSHRReadyTime(st)
    IN  IF times = {} THEN st ELSE schedSendEvent(st, Min(times))

(* What the bus knows once it has taken a request: a sharer exists, no     *)
(* other copy exists, or the owner passes its dirty line on.               *)
Answers(exclusive) ==
    {"Exclusive", "Dirty"} \cup (IF exclusive THEN {} ELSE {"Shared"})

(* getTimingPacket and the request in service.  An L1 block can be present *)
(* only for an upgrade (getBusPacket asserts it), and never for a prefetch *)
(* (PrefetchNotRedundant), so none is squashed here.                       *)
SendMiss(st, i, ans) ==
    LET m == st.mshrQueue.registers[i]
        checked == Assert_(st, Present(st, m.blkAddr) =>
                                 /\ m.targets.needsExclusive
                                 /\ "Writable" \notin st.tags[m.blkAddr])
    IN  markInService([checked EXCEPT !.answer[m.blkAddr] = ans],
                      "MSHRs", i, ans = "Dirty")

SendWrite(st, i) ==
    markInService(Assert_(st, ~Present(st, st.writeBuffer.registers[i].blkAddr)),
                  "WriteBuffer", i, FALSE)

(* PacketQueue::hasAddr of the snoop response queue.                       *)
hasAddr(st, a) ==
    \E k \in DOMAIN st.snoopRespQueue : st.snoopRespQueue[k].addr = a

(* CacheReqPacketQueue::sendDeferredPacket, at a point of time at which    *)
(* the bus takes the request (ans is its answer) or refuses it.  A snoop   *)
(* response to the same block goes first: the port tries again when the    *)
(* head of the snoop response queue is due (deferredPacketReadyTime), and  *)
(* until then does not look at the other requests.                         *)
sendDeferredPacket(st, taken, ans) ==
    LET p == IF CanIssuePrefetch(st) THEN IssuePrefetch(st) ELSE st
        n == NextQueued(p)
        m == IF n.queue = "MSHRs" THEN p.mshrQueue.registers[n.i]
                                  ELSE p.writeBuffer.registers[n.i]
    IN  CASE n = None -> Reschedule(p)
          [] n # None /\ hasAddr(p, m.blkAddr) ->
                 schedSendEvent(p, Head(p.snoopRespQueue).tick)
          [] n # None /\ ~hasAddr(p, m.blkAddr) /\ ~taken ->
                 [p EXCEPT !.waitingOnRetry = TRUE]
          [] n # None /\ ~hasAddr(p, m.blkAddr) /\ taken ->
                 Reschedule(IF n.queue = "MSHRs" THEN SendMiss(p, n.i, ans)
                                                 ELSE SendWrite(p, n.i))

(* The answer depends on the request only for a miss: one to a block that  *)
(* must be exclusive is never answered with a shared copy.                 *)
PossibleAnswer(st, ans) ==
    LET p == IF CanIssuePrefetch(st) THEN IssuePrefetch(st) ELSE st
        n == NextQueued(p)
    IN  IF n.queue = "MSHRs"
        THEN ans \in Answers(p.mshrQueue.registers[n.i].targets.needsExclusive)
        ELSE ans = "Exclusive"

ProcessSendEvent(taken, ans) ==
    /\ s.sendEvent = {0} /\ PossibleAnswer(s, ans)
    /\ s' = sendDeferredPacket([Assert_(s, ~s.waitingOnRetry) EXCEPT
                                  !.sendEvent = {}], taken, ans)
    /\ UNCHANGED <<peer, snoops>>

Retry(taken, ans) ==
    /\ s.waitingOnRetry /\ PossibleAnswer(s, ans)
    /\ s' = sendDeferredPacket([s EXCEPT !.waitingOnRetry = FALSE],
                               taken, ans)
    /\ UNCHANGED <<peer, snoops>>

-----------------------------------------------------------------------------
(* Cache::doTimingSupplyResponse, for n snoops: the responses go to the    *)
(* back of the snoop response queue, their times moved behind the last one *)
(* (schedSendTiming with force_order).                                     *)
doTimingSupplyResponse(queue, a, lat, n) ==
    LET when == IF queue = <<>> THEN lat ELSE Max({lat, Last(queue).tick})
    IN  queue \o [k \in 1 .. n |-> [addr |-> a, tick |-> when]]

(* Cache::handleSnoop on a block with status bits b (L1: nobody above).    *)
SnoopedBlock(b, cmd) == IF MQ!IsInvalidate(cmd) THEN {} ELSE b \ {"Writable"}
Responds(b) == "Dirty" \in b

(* One saved snoop, one answered request or one prefetch of the MSHR       *)
(* that is filled: acc is the block and the snoops that were answered.     *)
ServeTarget(acc, t) ==
    CASE t.source = "FromCPU" ->
             [acc EXCEPT !.broken = @ \/ (IF t.cmd = "WriteReq" THEN "Writable" ELSE "Valid")
                                          \notin acc.blk,
                         !.blk = @ \cup IF t.cmd = "WriteReq" THEN {"Dirty"} ELSE {}]
      [] t.source = "FromPrefetcher" ->
             [acc EXCEPT !.blk = @ \cup {"HWPrefetched"}]
      [] t.source = "FromSnoop" ->
             [acc EXCEPT !.blk = SnoopedBlock(@, t.cmd),
                         !.supplied = IF Responds(acc.blk) THEN @ + 1 ELSE @]

(* The targets in their order.                                             *)
ServeTargets(filled, list) ==
    LET f[k \in 0 .. Len(list)] ==
            IF k = 0 THEN filled ELSE ServeTarget(f[k - 1], list[k])
    IN  f[Len(list)]

(* Faulty form: a line received dirty is taken for a clean one.            *)
FillClean(b, ans) ==
    b \cup {"Valid", "Readable"} \cup (IF ans = "Shared" THEN {} ELSE {"Writable"})

(* Cache::handleFill: the status bits of the filled block.                 *)
FillStatus(b, ans) ==
    b \cup {"Valid", "Readable"} \cup (IF ans = "Shared" THEN {} ELSE {"Writable"})
      \cup (IF ans = "Dirty" THEN {"Dirty"} ELSE {})

(* After the targets: the copy a snoop took away or downgraded.            *)
AfterSnoops(m, b) ==
    IF b = {} \/ m.postInvalidate THEN {}
    ELSE IF m.postDowngrade THEN b \ {"Writable"} ELSE b

(* Cache::allocateBlock: a block with an MSHR of its own is not replaced,  *)
(* the fill then uses tempBlock.  v is the victim, "none" a free frame.    *)
Victims(st) ==
    LET valid == {a \in Addrs : Present(st, a)}
    IN  IF Cardinality(valid) < Ways THEN {"none"} ELSE valid
UsesTempBlock(st, a, v) ==
    ~Present(st, a) /\ v # "none" /\ MQ!findMatch(st.mshrQueue, v) # 0

WriteBack(st, a, lat) ==
    allocateBufferInternal(st, "WriteBuffer", a, "Writeback", lat, TRUE)

(* Faulty form: the cache keeps waiting for a target to become free.       *)
StayBlocked(st, i) ==
    IF st.noTargetMSHR = i THEN [st EXCEPT !.noTargetMSHR = 0] ELSE st

(* Cache::recvTimingResp.  First there is room for targets again.          *)
Unblocked(st, i) ==
    IF st.noTargetMSHR = i
    THEN [Blocking!clearBlocked(st, "NoTargets") EXCEPT !.noTargetMSHR = 0] ELSE st

(* Then the fill, which may let the targets take the deferred ones with    *)
(* them, and the targets in order, beginning with the block received.      *)
FilledQueue(st, i) ==
    MQ!Filled(Unblocked(st, i).mshrQueue, i, TRUE,
              st.answer[st.mshrQueue.registers[i].blkAddr] = "Shared")
Received(b, ans) == [blk |-> FillStatus(b, ans), supplied |-> 0, broken |-> FALSE]
Serving(st, i) ==
    LET a == st.mshrQueue.registers[i].blkAddr
    IN  ServeTargets(Received(st.tags[a], st.answer[a]),
                     FilledQueue(st, i).registers[i].targets.list)

(* What the saved snoops leave of the block; it is not readable while      *)
(* deferred targets are asked for again.                                   *)
Again(st, i) == FilledQueue(st, i).registers[i].deferredTargets.list # <<>>
Remains(st, i) ==
    LET left == AfterSnoops(FilledQueue(st, i).registers[i], Serving(st, i).blk)
    IN  IF Again(st, i) THEN left \ {"Readable"} ELSE left

(* After the MSHR is answered: a rerequest, which asks for the bus once    *)
(* the payload of this response has arrived, or a prefetch.                *)
AskAgain(st, again, payload) ==
    IF again THEN schedSendEvent([st EXCEPT !.payload = payload], payload)
    ELSE IF MQ!canPrefetch(st.mshrQueue) /\ st.pfq # <<>>
    THEN schedSendEvent(st, Min(PrefetchReady(st))) ELSE st

(* Last the writeback of the victim or of tempBlock.  The responses to the *)
(* saved snoops are ready at supply.                                       *)
recvTimingResp(st, i, v, lat, supply, payload) ==
    LET a == st.mshrQueue.registers[i].blkAddr
        temp == UsesTempBlock(st, a, v)
        evict == ~Present(st, a) /\ v # "none" /\ ~temp
        done == Serving(st, i)
        visible == Remains(st, i)
        victimMSHR == st.mshrQueue.registers[MQ!findMatch(st.mshrQueue, v)]
        put == [Assert_(Unblocked(st, i),
                        /\ ~done.broken
                        /\ temp => /\ "Writable" \in st.tags[v] => "Dirty" \in st.tags[v]
                                   /\ victimMSHR.targets.needsExclusive
                        /\ temp /\ FilledQueue(st, i).registers[i].postInvalidate
                              => done.blk = {})
                  EXCEPT !.tags[a] = IF temp THEN {} ELSE visible,
                         !.answer[a] = "none",
                         !.owed[a] = @ - done.supplied,
                         !.snoopRespQueue =
                             doTimingSupplyResponse(@, a, supply, done.supplied)]
        clean == IF evict THEN [put EXCEPT !.tags[v] = {}] ELSE put
        asked == AskAgain(Release(clean, "MSHRs", MQ!Answered(FilledQueue(st, i), i)),
                          Again(st, i), payload)
    IN  IF evict /\ "Dirty" \in st.tags[v] THEN WriteBack(asked, v, lat)
        ELSE IF temp /\ "Dirty" \in visible THEN WriteBack(asked, a, lat) ELSE asked

RecvTimingResp(i, v, lat, supply, payload) ==
    /\ s.mshrQueue.registers[i].inService
    /\ s' = recvTimingResp(s, i, v, lat, supply, payload)
    /\ UNCHANGED <<peer, snoops>>

-----------------------------------------------------------------------------
(* Cache::recvTimingSnoopReq.  A snoop that the MSHR does not keep meets   *)
(* the write buffer first and then the block.                              *)
SnoopWriteBuffer(st, a, cmd, lat) ==
    LET w == WB!findMatch(st.writeBuffer, a)
        single == Cardinality({i \in ToSet(st.writeBuffer.allocatedList) :
                                 st.writeBuffer.registers[i].blkAddr = a}) = 1
        supplied == [Assert_(st, single) EXCEPT
                       !.snoopRespQueue = doTimingSupplyResponse(@, a, lat, 1)]
    IN  IF w = 0 THEN st
        ELSE IF MQ!IsInvalidate(cmd) THEN markInService(supplied, "WriteBuffer", w, FALSE)
        ELSE supplied

SnoopBlock(st, a, cmd, lat) ==
    [st EXCEPT !.tags[a] = SnoopedBlock(@, cmd),
               !.snoopRespQueue = doTimingSupplyResponse(@, a, lat,
                                      IF Responds(st.tags[a]) THEN 1 ELSE 0)]

recvTimingSnoopReq(st, a, cmd, lat) ==
    LET i == MQ!findMatch(st.mshrQueue, a)
        h == MQ!MSHR_handleSnoop(st.mshrQueue.registers[i], cmd, st.order)
        kept == [st EXCEPT !.mshrQueue.registers[i] = h.mshr, !.order = @ + 1,
                           !.owed[a] = IF h.memInhibit THEN @ + 1 ELSE @]
    IN  IF i # 0 /\ h.handled THEN kept
        ELSE SnoopBlock(SnoopWriteBuffer(IF i # 0 THEN kept ELSE st, a, cmd, lat),
                        a, cmd, lat)

(* Another cache upgrades only a copy it still has: not while this one     *)
(* has the block, or is about to get it, for itself.                       *)
OthersMayShare(a) ==
    LET i == MQ!findMatch(s.mshrQueue, a)
        m == s.mshrQueue.registers[i]
    IN  /\ "Writable" \notin s.tags[a]
        /\ i # 0 /\ m.inService =>
               /\ s.answer[a] = "Shared" \/ m.postDowngrade
               /\ ~m.postInvalidate

RecvTimingSnoopReq(a, cmd, lat) ==
    /\ snoops < MaxSnoops /\ snoops' = snoops + 1
    /\ cmd = "UpgradeReq" => OthersMayShare(a)
    /\ s' = recvTimingSnoopReq(s, a, cmd, lat)
    /\ UNCHANGED peer

(* The snoop response queue sends its head on its own event once it is     *)
(* due; the bus may refuse it, and it stays the head.                      *)
SnoopRespDue == s.snoopRespQueue # <<>> /\ Head(s.snoopRespQueue).tick = 0
SendSnoopResp ==
    /\ SnoopRespDue
    /\ s' = [s EXCEPT !.snoopRespQueue = Tail(@)]
    /\ UNCHANGED <<peer, snoops>>

(* Time passes once the events of this point of time are done.             *)
SoonerPacket(p) == [p EXCEPT !.tick = MQ!Sooner(@)]
Tick ==
    /\ 0 \notin s.sendEvent
    /\ s' = [s EXCEPT !.mshrQueue = MQ!QueueTick(@), !.writeBuffer = WB!QueueTick(@),
                      !.sendEvent = {t - 1 : t \in @},
                      !.pfq = [k \in DOMAIN s.pfq |-> SoonerPacket(s.pfq[k])],
                      !.snoopRespQueue = [k \in DOMAIN s.snoopRespQueue |->
                                            SoonerPacket(s.snoopRespQueue[k])],
                      !.payload = MQ!Sooner(@)]
    /\ s' # s
    /\ UNCHANGED <<peer, snoops>>

Registers == DOMAIN s.mshrQueue.registers
Proposals == {<<>>} \cup {<<a>> : a \in PrefetchAddrs}

Next ==
    \/ RefuseReq
    \/ \E a \in Addrs, cmd \in {"ReadReq", "WriteReq"}, lat \in Latencies, pf \in Proposals :
           AcceptReq(a, cmd, lat, pf)
    \/ ProcessSendRetry
    \/ \E taken \in BOOLEAN, ans \in Answers(FALSE) : ProcessSendEvent(taken, ans)
    \/ \E taken \in BOOLEAN, ans \in Answers(FALSE) : Retry(taken, ans)
    \/ \E i \in Registers, v \in Victims(s), lat, supply \in Latencies,
          payload \in PayloadDelays : RecvTimingResp(i, v, lat, supply, payload)
    \/ \E a \in SnoopAddrs, cmd \in {"ReadReq", "ReadExReq", "UpgradeReq"},
          lat \in Latencies : RecvTimingSnoopReq(a, cmd, lat)
    \/ SendSnoopResp
    \/ Tick

Spec == Init /\ [][Next]_vars

(* Weak fairness of ProcessSendEvent, Tick, ProcessSendRetry, Retry with a *)
(* request that is taken, SendSnoopResp and RecvTimingResp: the simulator  *)
(* runs every scheduled event and time goes on; the bus retries and takes  *)
(* a refused request, takes snoop responses and answers requests.  Only    *)
(* the action itself falsifies the guard of each of them for good, so each *)
(* is stated by its guard, which is also much cheaper to evaluate than     *)
(* ENABLED of handlers of this size.  Nothing is assumed of the CPU side   *)
(* or of the other caches.                                                 *)
Fairness ==
    /\ []<>(0 \notin s.sendEvent) /\ []<>(\A t \in s.sendEvent : t = 0)
    /\ []<>~s.retryScheduled
    /\ []<>~s.waitingOnRetry
    /\ []<>~SnoopRespDue
    /\ \A a \in Addrs : []<>(s.answer[a] = "none")

FairSpec == Spec /\ Fairness

-----------------------------------------------------------------------------
(* No request is forgotten: when an MSHR or a writeback waits for the bus  *)
(* the send event comes no later than its ready time (or the next tick),   *)
(* unless the port waits for a retry of the bus.  Two things can delay the *)
(* event, and no longer than they last themselves: a snoop response that   *)
(* is sent first (sendDeferredPacket) and the payload of the response      *)
(* after which an MSHR is sent again (recvTimingResp).  When only a        *)
(* prefetch could be sent, some send event is scheduled.                   *)
SendEventScheduled ==
    LET queued == ReadyTime(s.mshrQueue) \cup ReadyTime(s.writeBuffer)
        snoopResp == IF s.snoopRespQueue = <<>> THEN 0 ELSE Head(s.snoopRespQueue).tick
    IN  \/ s.waitingOnRetry
        \/ /\ queued # {} =>
                \E t \in s.sendEvent : t <= Max({1, Min(queued), snoopResp, s.payload})
           /\ nextMSHRReadyTime(s) # {} => s.sendEvent # {}

(* The snoops saved in an MSHR whose answer this cache has promised.       *)
SavedSnoops(a) ==
    LET m == s.mshrQueue.registers[MQ!findMatch(s.mshrQueue, a)]
    IN  IF MQ!findMatch(s.mshrQueue, a) # 0 /\ m.inService /\ m.pendingDirty
        THEN Cardinality({k \in DOMAIN m.targets.list :
                            m.targets.list[k].source = "FromSnoop"}) ELSE 0

(* Every snoop that was promised an answer (memInhibit) while the request  *)
(* for the block was in service is still among the targets of the MSHR, or *)
(* was answered from the filled block: the block was dirty when the snoop  *)
(* was replayed.                                                           *)
PromisesKept == \A a \in Addrs : s.owed[a] = SavedSnoops(a)

(* No access overtakes a store: while a store to a block waits in its MSHR,*)
(* among the targets or deferred, no load or store hits the block.         *)
NoAccessPastStore ==
    \A a \in Addrs :
        LET i == MQ!findMatch(s.mshrQueue, a)
            m == s.mshrQueue.registers[i]
            waiting == m.targets.list \o m.deferredTargets.list
        IN  i # 0 /\ (\E k \in DOMAIN waiting : /\ waiting[k].source = "FromCPU"
                                               /\ waiting[k].cmd = "WriteReq")
              => ~Hit(s, a, "ReadReq") /\ ~Hit(s, a, "WriteReq")

(* A prefetch never duplicates work, although it was queued long before it *)
(* is issued: a block has one MSHR, and none only for a prefetch of a      *)
(* block that is present.                                                  *)
PrefetchNotRedundant ==
    \A i, j \in ToSet(s.mshrQueue.allocatedList) :
        LET m == s.mshrQueue.registers[i]
        IN  /\ m.blkAddr = s.mshrQueue.registers[j].blkAddr => i = j
            /\ MQ!getTarget(m).cmd = "HardPFReq" => ~Present(s, m.blkAddr)

(* A block has at most one writeback in the write buffer: a snoop that     *)
(* meets two of them would not know which data is current                  *)
(* (recvTimingSnoopReq asserts a single match), and the fill between them  *)
(* read the memory before the first one had reached it.                    *)
SingleWriteback ==
    \A i, j \in ToSet(s.writeBuffer.allocatedList) :
        s.writeBuffer.registers[i].blkAddr = s.writeBuffer.registers[j].blkAddr => i = j

FromCPU(l) == SelectSeq(l, LAMBDA t : t.source = "FromCPU")

(* No MSHR has more requests of the CPU side than tgts_per_mshr allows.    *)
TargetsWithinLimit ==
    \A i \in ToSet(s.mshrQueue.allocatedList) :
        LET m == s.mshrQueue.registers[i]
        IN  Len(FromCPU(m.targets.list \o m.deferredTargets.list)) <= NumTarget

(* The asserts of the code hold: of the queues, of the send event, of the  *)
(* fill, of the write permission of a store that is answered, of the       *)
(* replacement of a block in transition, and of writebacks: none of a      *)
(* block that is present, one of a block.  Those hold only while the       *)
(* writeback of a block leaves before the block is requested again, which  *)
(* takes room in the write buffer and one latency for all requests:        *)
(* SingleWriteback shows what happens otherwise.                           *)
AssertionsHold == ~s.broken /\ ~s.mshrQueue.failed /\ ~s.writeBuffer.failed

(* Every miss and every writeback leaves its queue: no send event is lost  *)
(* between a refusing bus, snoop responses to the same block, prefetches   *)
(* and rerequests for deferred targets (sendDeferredPacket,                *)
(* schedSendEvent).                                                        *)
EveryMissIsServed ==
    \A a \in Addrs : /\ MQ!findMatch(s.mshrQueue, a) # 0 ~> MQ!findMatch(s.mshrQueue, a) = 0
                     /\ WB!findMatch(s.writeBuffer, a) # 0 ~> WB!findMatch(s.writeBuffer, a) = 0

(* A master that was refused is retried (clearBlocked, processSendRetry):  *)
(* the cache does not stay blocked.                                        *)
RefusedIsRetried == peer = "waiting" ~> peer = "idle"

(* The cache blocks and retries exactly as CacheBlocking says.             *)
ImplementsBlocking == Blocking!Spec
=============================================================================
