------------------------------ MODULE MSHRQueue ------------------------------
(***************************************************************************)
(* A queue of MSHRs (mem/cache/mshr_queue.hh and mshr_queue.cc): the free, *)
(* allocated and ready lists over a fixed array of registers, its          *)
(* occupancy counters, and the life of its MSHRs from the miss that        *)
(* allocates one to the response that gives it back.  The specification    *)
(* drives one queue the way the cache does (mem/cache/cache_impl.hh):      *)
(* a miss allocates when the queue is not full, later requests to the      *)
(* block join, the bus accepts the request at the head of the ready list,  *)
(* snoops of other caches arrive at any time, and responses arrive in any  *)
(* order.                                                                  *)
(***************************************************************************)
EXTENDS MSHR, SequencesExt

CONSTANTS
    NumEntries,     \* num_entries: the nominal size
    Reserve,        \* numReserve
    DemandReserve,  \* demandReserve
    Addrs,          \* block addresses
    Latencies,      \* ready times of new requests, relative to now
    MaxOrder        \* bound: requests and snoops in a behaviour

ASSUME QueueAssumption ==
    /\ NumEntries \in Nat \ {0} /\ Reserve \in Nat \ {0}
    /\ DemandReserve \in Nat /\ Latencies \subseteq Nat /\ MaxOrder \in Nat

VARIABLES
    q,      \* the queue
    order   \* BaseCache::order, numbers requests and snoops

vars == <<q, order>>

-----------------------------------------------------------------------------
(* The queue of num_entries nominal entries and the given reserves.        *)
NewQueue(num_entries, reserve, demand_reserve) ==
    LET n == num_entries + reserve - 1
    IN  [numEntries |-> n, numReserve |-> reserve, demandReserve |-> demand_reserve,
         registers |-> [i \in 1 .. n |-> FreeMSHR],
         freeList |-> [i \in 1 .. n |-> i], allocatedList |-> <<>>,
         readyList |-> <<>>, allocated |-> 0, inServiceEntries |-> 0,
         failed |-> FALSE]

isFull(s) == s.allocated + s.numReserve > s.numEntries
canPrefetch(s) == s.allocated + s.numReserve + s.demandReserve < s.numEntries

(* 0 stands for NULL.                                                      *)
FirstFor(s, list, blk_addr) ==
    LET i == SelectInSeq(list, LAMBDA r : s.registers[r].blkAddr = blk_addr)
    IN  IF i = 0 THEN 0 ELSE list[i]

findMatch(s, blk_addr) == FirstFor(s, s.allocatedList, blk_addr)
findPending(s, blk_addr) == FirstFor(s, s.readyList, blk_addr)

getNextMSHR(s) ==
    IF s.readyList = <<>> \/ s.registers[Head(s.readyList)].readyTime > 0
    THEN 0 ELSE Head(s.readyList)

-----------------------------------------------------------------------------
(* "failed" records that an assert of the code did not hold.               *)
Check(s, cond) == [s EXCEPT !.failed = @ \/ ~cond]

(* Faulty form: insertion in front of the entries that are ready as late.  *)
AddBeforeTies(s, i) ==
    LET later == SelectInSeq(s.readyList, LAMBDA r :
                     s.registers[r].readyTime >= s.registers[i].readyTime)
    IN  [s EXCEPT !.readyList = IF later = 0 THEN Append(@, i)
                                             ELSE InsertAt(@, later, i)]

(* Insertion behind every entry that is ready no later.                    *)
addToReadyList(s, i) ==
    LET later == SelectInSeq(s.readyList, LAMBDA r :
                     s.registers[r].readyTime > s.registers[i].readyTime)
    IN  [s EXCEPT !.readyList = IF later = 0 THEN Append(@, i)
                                             ELSE InsertAt(@, later, i)]

(* The entry that allocate takes, and the queue after it.                  *)
NextFree(s) == Head(s.freeList)

MSHRQueue_allocate(s, blk_addr, cmd, when_ready, ord) ==
    LET i == NextFree(s)
        checked == Check(s, /\ s.freeList # <<>>
                            /\ getNumTargets(s.registers[i]) = 0
                            /\ IsReset(s.registers[i].targets)
                            /\ IsReset(s.registers[i].deferredTargets))
    IN  addToReadyList(
          [checked EXCEPT
             !.registers[i] = MSHR_allocate(blk_addr, cmd, when_ready, ord),
             !.freeList = Tail(@),
             !.allocatedList = Append(@, i),
             !.allocated = @ + 1], i)

(* Faulty form: the counter of entries in service is not kept.             *)
LeakInService(s, i) ==
    [s EXCEPT !.registers[i] = FreeMSHR,
              !.allocatedList = RemoveFirst(@, i), !.readyList = RemoveFirst(@, i),
              !.freeList = <<i>> \o @, !.allocated = @ - 1]

deallocateOne(s, i) ==
    LET m == s.registers[i]
        checked == Check(s, /\ m.targets.list = <<>>
                            /\ IsReset(m.deferredTargets))
    IN  [checked EXCEPT
           !.registers[i] = FreeMSHR,
           !.allocatedList = RemoveFirst(@, i),
           !.freeList = <<i>> \o @,
           !.allocated = @ - 1,
           !.inServiceEntries = IF m.inService THEN @ - 1 ELSE @,
           !.readyList = IF m.inService THEN @ ELSE RemoveFirst(@, i)]

MSHRQueue_markInService(s, i, pending_dirty_resp) ==
    LET m == s.registers[i]
        checked == Check(s, ~m.inService)
    IN  IF isForwardNoResponse(m)
        THEN deallocateOne([checked EXCEPT !.registers[i] = MSHR_popTarget(m)], i)
        ELSE [checked EXCEPT
                !.registers[i] = MSHR_markInService(m, pending_dirty_resp),
                !.readyList = RemoveFirst(@, i),
                !.inServiceEntries = @ + 1]

markPending(s, i) ==
    addToReadyList([Check(s, s.registers[i].inService) EXCEPT
                      !.registers[i].inService = FALSE,
                      !.inServiceEntries = @ - 1], i)

(* The prefetch at the front of an MSHR is dropped; the MSHR stays when    *)
(* CPU-side requests have joined it.                                       *)
forceDeallocateTarget(s, i) ==
    LET m == MSHR_popTarget(s.registers[i])
        popped == [Check(s, hasTargets(s.registers[i])) EXCEPT !.registers[i] = m]
    IN  IF hasTargets(m) THEN popped
        ELSE IF m.deferredTargets.list # <<>>
             THEN [popped EXCEPT !.registers[i] = promoteDeferredTargets(m)]
             ELSE deallocateOne(popped, i)

(* Cache::recvTimingResp, as far as the queue is concerned: the fill is    *)
(* offered to the MSHR, every target is answered, and the MSHR is reused   *)
(* for its deferred targets or given back.                                 *)
Filled(s, i, is_fill, shared) ==
    LET m == s.registers[i]
        takes == is_fill /\ FillTakesDeferred(m, shared)
    IN  [Check(s, takes => ~m.targets.needsExclusive) EXCEPT
           !.registers[i] = IF is_fill THEN MSHR_handleFill(m, shared) ELSE m]

Answered(s, i) ==
    LET done == [s EXCEPT !.registers[i].targets.list = <<>>]
        m == done.registers[i]
    IN  IF m.deferredTargets.list # <<>>
        THEN markPending([done EXCEPT
                            !.registers[i] = promoteDeferredTargets(m)], i)
        ELSE deallocateOne(done, i)

(* Time passes for the whole queue.                                        *)
Sooner(t) == IF t > 0 THEN t - 1 ELSE 0
OlderTarget(t) == [t EXCEPT !.readyTime = Sooner(@)]
SoonerAll(l) == [l EXCEPT !.list = [j \in DOMAIN l.list |-> OlderTarget(l.list[j])]]
OlderMSHR(m) == [m EXCEPT !.readyTime = Sooner(@), !.targets = SoonerAll(@),
                          !.deferredTargets = SoonerAll(@)]
QueueTick(s) ==
    [s EXCEPT !.registers = [i \in DOMAIN s.registers |-> OlderMSHR(s.registers[i])]]

-----------------------------------------------------------------------------
CpuCommands == {"ReadReq", "WriteReq", "UpgradeReq"}
SnoopCommands == {"ReadReq", "ReadExReq", "UpgradeReq"}

Init == q = NewQueue(NumEntries, Reserve, DemandReserve) /\ order = 0

Counted == order < MaxOrder /\ order' = order + 1

(* A miss without an MSHR (Cache::recvTimingReq, not blocked).             *)
Miss(a, cmd, when) ==
    /\ findMatch(q, a) = 0 /\ ~isFull(q)
    /\ Counted
    /\ q' = MSHRQueue_allocate(q, a, cmd, when, order)

(* A prefetch (Cache::getNextMSHR with nothing ready).                     *)
Prefetch(a) ==
    /\ getNextMSHR(q) = 0 /\ canPrefetch(q) /\ findMatch(q, a) = 0
    /\ Counted
    /\ q' = MSHRQueue_allocate(q, a, "HardPFReq", 0, order)

(* A miss that joins an MSHR.                                              *)
Coalesce(i, cmd, when) ==
    /\ Counted
    /\ q' = [q EXCEPT !.registers[i] = MSHR_allocateTarget(@, cmd, when, order)]

(* The bus takes the request of the next MSHR; an upgrade that missed      *)
(* completely is only forwarded.  pd: another cache promised to answer     *)
(* with a dirty line and no sharers.                                       *)
Send(fwd, pd) ==
    LET i == getNextMSHR(q)
    IN  /\ i # 0
        /\ fwd => IsUpgrade(getTarget(q.registers[i]).cmd)
        /\ q' = MSHRQueue_markInService([q EXCEPT !.registers[i].isForward = fwd], i, pd)
        /\ UNCHANGED order

(* A prefetch at the head is squashed before it is sent.                   *)
SquashPrefetch ==
    LET i == getNextMSHR(q)
    IN  /\ i # 0 /\ getTarget(q.registers[i]).cmd = "HardPFReq"
        /\ q' = forceDeallocateTarget(q, i)
        /\ UNCHANGED order

(* A snoop of another cache finds the MSHR of its block.  Another cache    *)
(* upgrades only a copy it still has, not one that the request in service  *)
(* has taken away.                                                         *)
Snoop(i, cmd) ==
    /\ LET m == q.registers[i]
       IN  cmd = "UpgradeReq" /\ m.inService =>
               ~m.postInvalidate /\ (~m.pendingDirty \/ m.postDowngrade)
    /\ Counted
    /\ q' = [q EXCEPT !.registers[i] = MSHR_handleSnoop(@, cmd, order).mshr]

(* A response arrives: a fill unless the request was only forwarded.  A    *)
(* request for an exclusive copy is not answered with a shared one.        *)
Respond(i, shared) ==
    LET m == q.registers[i]
    IN  /\ m.inService
        /\ m.pendingDirty => ~shared
        /\ q' = Answered(Filled(q, i, ~m.isForward, shared), i)
        /\ UNCHANGED order

Tick ==
    /\ q' = QueueTick(q) /\ q' # q
    /\ UNCHANGED order

Allocated == ToSet(q.allocatedList)

Next ==
    \/ \E a \in Addrs, cmd \in CpuCommands, when \in Latencies : Miss(a, cmd, when)
    \/ \E a \in Addrs : Prefetch(a)
    \/ \E i \in Allocated, cmd \in CpuCommands, when \in Latencies :
           Coalesce(i, cmd, when)
    \/ \E fwd \in BOOLEAN, pd \in BOOLEAN : Send(fwd, pd)
    \/ SquashPrefetch
    \/ \E i \in Allocated, cmd \in SnoopCommands : Snoop(i, cmd)
    \/ \E i \in Allocated, shared \in BOOLEAN : Respond(i, shared)
    \/ Tick

Spec == Init /\ [][Next]_vars

-----------------------------------------------------------------------------
(* The type of the queue's lists and counters.                             *)
TypeOK ==
    /\ \A l \in {q.freeList, q.allocatedList, q.readyList} :
           l \in Seq(1 .. q.numEntries)
    /\ q.allocated \in 0 .. q.numEntries
    /\ q.inServiceEntries \in 0 .. q.numEntries
    /\ order \in 0 .. MaxOrder

NoDuplicates(l) == Cardinality(ToSet(l)) = Len(l)
Waiting == {i \in Allocated : ~q.registers[i].inService}

(* The three lists and the two counters agree: each register is free or    *)
(* allocated, once; the ready list holds the allocated ones not in service *)
(* (allocate, markInService, markPending, forceDeallocateTarget and        *)
(* deallocateOne each move a register between them); and no block has two  *)
(* MSHRs.                                                                  *)
ListsAgree ==
    /\ NoDuplicates(q.freeList \o q.allocatedList)
    /\ ToSet(q.freeList \o q.allocatedList) = 1 .. q.numEntries
    /\ NoDuplicates(q.readyList) /\ ToSet(q.readyList) = Waiting
    /\ q.allocated = Len(q.allocatedList)
    /\ q.inServiceEntries = Cardinality(Allocated \ Waiting)
    /\ \A i, j \in Allocated :
           q.registers[i].blkAddr = q.registers[j].blkAddr => i = j

(* The ready list is ordered by the time its requests become ready.        *)
ReadySorted ==
    IsSorted(q.readyList, LAMBDA i, j :
                 q.registers[i].readyTime <= q.registers[j].readyTime)

Before(l, i, j) == \E x, y \in DOMAIN l : x < y /\ l[x] = i /\ l[y] = j

(* From queue s to queue t no MSHR overtakes one that waited with it, and  *)
(* one that joins the ready list waits behind those ready at its time.     *)
KeepsTurns(s, t) ==
    LET waited == ToSet(s.readyList) \cap ToSet(t.readyList)
        joined == ToSet(t.readyList) \ ToSet(s.readyList)
    IN  /\ \A i, j \in waited :
               Before(t.readyList, i, j) => Before(s.readyList, i, j)
        /\ \A i \in joined, j \in waited :
               t.registers[i].readyTime = t.registers[j].readyTime =>
                   Before(t.readyList, j, i)

(* The bus is offered the MSHR that is ready first, and of those ready at  *)
(* the same time the one that was added first: each step that misses,      *)
(* sends, drops a prefetch, answers or lets time pass leaves the ready     *)
(* list sorted, keeps the turns of the MSHRs that go on waiting, and puts  *)
(* a new or a rerequested one behind those it ties with (addToReadyList).  *)
ServedInTurn == [][ReadySorted' /\ KeepsTurns(q, q')]_vars

(* The requests of the CPU side are answered in the order they arrived,    *)
(* across the targets and the deferred targets of an MSHR.                 *)
ProgramOrder ==
    \A i \in Allocated :
        LET m == q.registers[i]
            l == m.targets.list \o m.deferredTargets.list
        IN  \A j, k \in DOMAIN l :
              (j < k /\ l[j].source = "FromCPU" /\ l[k].source = "FromCPU")
                => l[j].order < l[k].order

(* A saved snoop takes effect at its place in the target list: nothing of  *)
(* the CPU side is served from the same fill behind an invalidation, and   *)
(* no write behind a read that leaves the block shared.                    *)
SnoopsTakeEffectInOrder ==
    \A i \in Allocated :
        LET l == q.registers[i].targets.list
        IN  \A j, k \in DOMAIN l :
              (j < k /\ l[j].source = "FromSnoop" /\ l[k].source = "FromCPU")
                => ~NeedsExclusive(l[j].cmd) /\ ~NeedsExclusive(l[k].cmd)

(* Behind an invalidation no deferred request is still an upgrade: its     *)
(* copy is gone, so it has to fetch the data.                              *)
NoStaleUpgrade ==
    \A i \in Allocated :
        LET m == q.registers[i]
        IN  m.inService /\ m.postInvalidate =>
              \A k \in DOMAIN m.deferredTargets.list :
                  m.deferredTargets.list[k].cmd # "UpgradeReq"

(* The asserts of MSHR and MSHRQueue hold: a free register is clean, a     *)
(* deallocated one has no targets left, a fill takes deferred writes only  *)
(* into a transaction that did not ask for an exclusive copy itself.       *)
AssertionsHold == ~q.failed
=============================================================================
