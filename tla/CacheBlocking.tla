--------------------------- MODULE CacheBlocking ---------------------------
(***************************************************************************)
(* How a classic cache refuses requests and wakes up the master it         *)
(* refused: the blocked mask of BaseCache (mem/cache/base.hh), the retry   *)
(* protocol of its CPU-side port (mem/cache/base.cc, cache_impl.hh) and    *)
(* the occupancy of the two queues that drive it, the MSHR queue and the   *)
(* write buffer (mem/cache/mshr_queue.hh).  A queue is only the number of  *)
(* its allocated entries here; which entry it is, and what it holds, is    *)
(* the business of MSHRQueue and MissPath.                                 *)
(***************************************************************************)
EXTENDS Naturals

CONSTANTS
    Mshrs,              \* p->mshrs
    DemandMshrReserve,  \* p->demand_mshr_reserve
    WriteBuffers,       \* p->write_buffers
    ExtraWriteReserve   \* the 1000 of "p->mshrs+1000" in the constructor

ASSUME BlockingAssumption ==
    /\ Mshrs \in Nat \ {0}
    /\ DemandMshrReserve \in Nat
    /\ WriteBuffers \in Nat \ {0}
    /\ ExtraWriteReserve \in Nat \ {0}

VARIABLES
    c,      \* the cache: blocked mask, port, queue occupancy, noTargetMSHR
    peer    \* the master connected to the CPU-side port

vars == <<c, peer>>

-----------------------------------------------------------------------------
(* The constants of the two queues; a queue's index is also the index of   *)
(* the BlockedCause it raises when it is full.                             *)

Queues == {"MSHRs", "WriteBuffer"}
BlockedCause == Queues \cup {"NoTargets"}

num_entries(q) == IF q = "MSHRs" THEN Mshrs ELSE WriteBuffers
numReserve(q) == IF q = "MSHRs" THEN 4 ELSE Mshrs + ExtraWriteReserve
demandReserve(q) == IF q = "MSHRs" THEN DemandMshrReserve ELSE 0
numEntries(q) == num_entries(q) + numReserve(q) - 1

(* Faulty form: one entry too late.                                        *)
isFullOneLate(s, q) == s.allocated[q] + numReserve(q) > numEntries(q) + 1

(* A queue is full one entry before it eats into its reserve.  The queue   *)
(* compares signed ints, written here without a subtraction.               *)
isFull(s, q) == s.allocated[q] + numReserve(q) > numEntries(q)

(* Faulty form: prefetches may take every MSHR.                            *)
PrefetchToTheLast(s) == ~isFull(s, "MSHRs")

(* The entries kept for demand misses are not given to prefetches.         *)
canPrefetch(s) ==
    s.allocated["MSHRs"] + numReserve("MSHRs") + demandReserve("MSHRs")
        < numEntries("MSHRs")

-----------------------------------------------------------------------------
(* CacheSlavePort: the port's own copy of "blocked" and its retry event.   *)
(* "failed" records that an assert of the code did not hold.               *)

(* Faulty form: a retry scheduled in this cycle is left scheduled.         *)
PortNoCancel(s) ==
    [s EXCEPT !.failed = @ \/ s.portBlocked, !.portBlocked = TRUE]

CacheSlavePort_setBlocked(s) ==
    [s EXCEPT !.failed = @ \/ s.portBlocked,
              !.portBlocked = TRUE,
              !.retryScheduled = FALSE,
              !.mustSendRetry = @ \/ s.retryScheduled]

CacheSlavePort_clearBlocked(s) ==
    [s EXCEPT !.failed = @ \/ ~s.portBlocked
                           \/ (s.mustSendRetry /\ s.retryScheduled),
              !.portBlocked = FALSE,
              !.retryScheduled = @ \/ s.mustSendRetry]

-----------------------------------------------------------------------------
(* BaseCache: the mask of causes, one bit per cause.                       *)

setBlocked(s, cause) ==
    LET p == IF s.blocked = {} THEN CacheSlavePort_setBlocked(s) ELSE s
    IN  [p EXCEPT !.blocked = @ \cup {cause}]

clearBlocked(s, cause) ==
    LET m == [s EXCEPT !.blocked = @ \ {cause}]
    IN  IF m.blocked = {} THEN CacheSlavePort_clearBlocked(m) ELSE m

(* Faulty form: full is tested before the allocation instead of after it.  *)
BlockOnlyOnOverflow(s, q) ==
    LET a == [s EXCEPT !.failed = @ \/ ~(s.allocated[q] < numEntries(q)),
                       !.allocated[q] = @ + 1]
    IN  IF isFull(s, q) THEN setBlocked(a, q) ELSE a

(* MSHRQueue::allocate asserts a free entry, then the cache blocks.        *)
allocateBufferInternal(s, q) ==
    LET a == [s EXCEPT !.failed = @ \/ ~(s.allocated[q] < numEntries(q)),
                       !.allocated[q] = @ + 1]
    IN  IF isFull(a, q) THEN setBlocked(a, q) ELSE a

(* Faulty form: the queue need not have been full.                         *)
UnblockAlways(s, q) ==
    clearBlocked([s EXCEPT !.allocated[q] = @ - 1], q)

(* An entry of q is given back: the tail of recvTimingResp, of             *)
(* markInServiceInternal for a request that expects no response, and of    *)
(* getTimingPacket for a squashed prefetch.                                *)
deallocate(s, q) ==
    LET d == [s EXCEPT !.allocated[q] = @ - 1]
    IN  IF isFull(s, q) /\ ~isFull(d, q) THEN clearBlocked(d, q) ELSE d

-----------------------------------------------------------------------------
Init ==
    /\ c = [blocked |-> {}, portBlocked |-> FALSE, mustSendRetry |-> FALSE,
            retryScheduled |-> FALSE, failed |-> FALSE,
            allocated |-> [q \in Queues |-> 0], noTarget |-> FALSE]
    /\ peer = "idle"

(* Faulty form: a request may overtake the retry the port owes.            *)
AcceptWhileRetryPending(s) == ~s.portBlocked

(* The port lets a request through to the cache.                           *)
Accepts(s) == ~s.portBlocked /\ ~s.mustSendRetry

(* CpuSidePort::recvTimingReq, refused: the master waits for a retry.  (A  *)
(* request another cache has inhibited passes before this test and changes *)
(* neither the port nor the queues.)                                       *)
RefuseReq ==
    /\ ~Accepts(c)
    /\ c' = [c EXCEPT !.mustSendRetry = TRUE]
    /\ peer' = "waiting"

(* CpuSidePort::recvTimingReq, accepted.  Cache::recvTimingReq first moves *)
(* at most one writeback to the write buffer (a flushed or a replaced      *)
(* block), then hits or joins an MSHR with room to spare ("hit"), becomes  *)
(* the last target an MSHR has room for, or takes an entry of a queue.  It *)
(* never refuses, so mustSendRetry becomes FALSE after it.                 *)
Handle(s, wb, outcome) ==
    LET w == IF wb THEN allocateBufferInternal(s, "WriteBuffer") ELSE s
    IN  CASE outcome = "hit" -> w
          [] outcome = "miss" -> allocateBufferInternal(w, "MSHRs")
          [] outcome = "write" -> allocateBufferInternal(w, "WriteBuffer")
          [] outcome = "lastTarget" ->
                 setBlocked([w EXCEPT !.noTarget = TRUE], "NoTargets")

AcceptReq(wb, outcome) ==
    /\ Accepts(c)
    /\ outcome = "lastTarget" => ~wb /\ c.allocated["MSHRs"] > 0
    /\ c' = [Handle(c, wb, outcome) EXCEPT !.mustSendRetry = FALSE]
    /\ UNCHANGED peer

(* CacheSlavePort::processSendRetry.                                       *)
ProcessSendRetry ==
    /\ c.retryScheduled
    /\ c' = [c EXCEPT !.retryScheduled = FALSE, !.mustSendRetry = FALSE]
    /\ peer' = "idle"

(* Cache::getNextMSHR finds nothing to send and issues a prefetch.         *)
IssuePrefetch ==
    /\ canPrefetch(c)
    /\ c' = allocateBufferInternal(c, "MSHRs")
    /\ UNCHANGED peer

(* Faulty form: a response without an MSHR.                                *)
AnyMSHR == TRUE

(* The entries of the MSHR queue other than noTargetMSHR.                  *)
OtherMSHR == c.allocated["MSHRs"] > IF c.noTarget THEN 1 ELSE 0

(* markInServiceInternal for a writeback that was sent, or that a snoop    *)
(* discarded.                                                              *)
MarkInService ==
    /\ c.allocated["WriteBuffer"] > 0
    /\ c' = deallocate(c, "WriteBuffer")
    /\ UNCHANGED peer

(* Cache::getTimingPacket gives back the MSHR of a squashed prefetch.      *)
ForceDeallocate ==
    /\ OtherMSHR
    /\ c' = deallocate(c, "MSHRs")
    /\ UNCHANGED peer

(* Cache::recvTimingResp for noTargetMSHR: room for targets again, then    *)
(* the MSHR is given back or kept for its deferred targets, and last the   *)
(* replaced block goes to the write buffer.                                *)
RespondNoTarget(s, again, wb) ==
    LET n == [clearBlocked(s, "NoTargets") EXCEPT !.noTarget = FALSE]
        d == IF again THEN n ELSE deallocate(n, "MSHRs")
    IN  IF wb THEN allocateBufferInternal(d, "WriteBuffer") ELSE d

(* The same for an entry that is not noTargetMSHR, of either queue: an     *)
(* uncacheable write waits for its response in the write buffer.           *)
Respond(s, q, again, wb) ==
    LET d == IF again THEN s ELSE deallocate(s, q)
    IN  IF wb THEN allocateBufferInternal(d, "WriteBuffer") ELSE d

(* Room for a replaced block while the cache is blocked comes out of the   *)
(* reserve.                                                                *)
RoomInWriteBuffer == c.allocated["WriteBuffer"] < numEntries("WriteBuffer")

RecvTimingResp(q, again, wb) ==
    /\ wb => RoomInWriteBuffer
    /\ q = "WriteBuffer" => ~again /\ ~wb /\ c.allocated[q] > 0
    /\ q = "MSHRs" => OtherMSHR
    /\ c' = Respond(c, q, again, wb)
    /\ UNCHANGED peer

RecvNoTargetResp(again, wb) ==
    /\ c.noTarget
    /\ wb => RoomInWriteBuffer
    /\ c' = RespondNoTarget(c, again, wb)
    /\ UNCHANGED peer

Next ==
    \/ RefuseReq
    \/ \E wb \in BOOLEAN, o \in {"hit", "miss", "write", "lastTarget"} :
           AcceptReq(wb, o)
    \/ ProcessSendRetry
    \/ IssuePrefetch
    \/ MarkInService
    \/ ForceDeallocate
    \/ \E q \in Queues, again \in BOOLEAN, wb \in BOOLEAN :
           RecvTimingResp(q, again, wb)
    \/ \E again \in BOOLEAN, wb \in BOOLEAN : RecvNoTargetResp(again, wb)

Spec == Init /\ [][Next]_vars

-----------------------------------------------------------------------------
(* The type of every variable.                                             *)
TypeOK ==
    /\ c \in [blocked : SUBSET BlockedCause, portBlocked : BOOLEAN,
              mustSendRetry : BOOLEAN, retryScheduled : BOOLEAN,
              failed : BOOLEAN, allocated : [Queues -> Nat],
              noTarget : BOOLEAN]
    /\ peer \in {"idle", "waiting"}

(* No lost wake-up: a master the port refused, and has not retried since,  *)
(* waits for a cause that still blocks the cache or for a retry event that *)
(* is scheduled, whatever blocks and unblocks happen in between            *)
(* (setBlocked cancels the event, clearBlocked schedules it again).        *)
NoLostWakeup == peer = "waiting" => c.blocked # {} \/ c.retryScheduled

(* No unexpected retry: the port owes a retry exactly when a master waits  *)
(* for one, and the event is scheduled only while requests are accepted;   *)
(* a crossbar or a CPU asserts on a retry it does not wait for.            *)
NoUnexpectedRetry ==
    /\ c.mustSendRetry <=> peer = "waiting"
    /\ c.retryScheduled => c.mustSendRetry /\ ~c.portBlocked

(* The blocked mask says exactly what is exhausted, through every sequence *)
(* of allocations, responses, squashes and snoops: a cause that stayed set *)
(* would block the cache for ever, one missing would overrun the queue.    *)
BlockedExactlyWhenExhausted ==
    /\ \A q \in Queues : q \in c.blocked <=> isFull(c, q)
    /\ "NoTargets" \in c.blocked <=> c.noTarget
    /\ c.portBlocked <=> c.blocked # {}

(* The asserts of setBlocked, clearBlocked, EventManager::schedule and     *)
(* MSHRQueue::allocate hold on every path.                                 *)
AssertionsHold == ~c.failed

(* The MSHR queue never uses the reserve beyond its nominal size: prefetches *)
(* and demand misses together stay within p->mshrs entries.                *)
MSHRsWithinLimit == c.allocated["MSHRs"] <= Mshrs

(* A prefetch never blocks the cache: it leaves the demand reserve, and at *)
(* least one MSHR, to the requests of the CPU side.                        *)
PrefetchNeverBlocks ==
    [][IssuePrefetch =>
           /\ c'.blocked = c.blocked
           /\ c'.allocated["MSHRs"] + DemandMshrReserve < Mshrs]_vars
=============================================================================
