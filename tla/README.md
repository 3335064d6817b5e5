# TLA+ models of the cache hierarchy under the LDS prefetcher

The repository holds a prefetcher for linked data structures (LDS), under
development, and the gem5 source tree it is to be built into. The prefetcher
lives by the miss path of gem5's *classic* cache: it needs free MSHRs, it must
not delay demand misses, and what it fetches must not break ordering or
coherence. This project models that miss path in TLA+, the packet queues and the
crossbar it sends through, several such caches sharing a block, and those parts
of the prefetcher whose code is definite enough to translate.

Paths below are relative to `src/`; `mem/` stands for `gem5_src/mem/`.

## 1. Inventory

| Component | State | Operations | Interacts with |
|---|---|---|---|
| Blocking and retry: `BaseCache`, `CacheSlavePort` (`mem/cache/base.hh`, `base.cc`) | mask `blocked`, the port's `blocked`, `mustSendRetry`, the retry event | `setBlocked`, `clearBlocked`, `allocateBufferInternal`, `markInServiceInternal`, `processSendRetry`, `CpuSidePort::recvTimingReq` | the master on the CPU side; both queues |
| MSHR (`mem/cache/mshr.*`) | `targets`, `deferredTargets` and their flags, `inService`, `pendingDirty`, `postInvalidate`, `postDowngrade`, `readyTime`, `order` | `allocate`, `allocateTarget`, `markInService`, `handleSnoop`, `handleFill`, `promoteDeferredTargets`, `popTarget` | the cache; snoops |
| MSHR queue, also used as write buffer (`mem/cache/mshr_queue.*`) | free, allocated and ready list, `allocated`, `inServiceEntries` | `allocate`, `deallocateOne`, `markInService`, `markPending`, `forceDeallocateTarget`, searches | the cache |
| Timing miss path: `Cache` (`mem/cache/cache_impl.hh`) | the tags' status bits, `tempBlock`, `noTargetMSHR`, `order` | `recvTimingReq`, `getNextMSHR`, `getTimingPacket`, `sendDeferredPacket`, `recvTimingResp`, `recvTimingSnoopReq` | everything above and below |
| Packet queues of the ports (`mem/packet_queue.*`) | `transmitList`, send event, `waitingOnRetry`, `drainManager` | `schedSendTiming`, `schedSendEvent`, `sendDeferredPacket`, `processSendEvent`, `retry`, `drain` | the peer of the port |
| Crossbar layers: `BaseXBar::Layer` (`mem/xbar.*`) | per destination `state`, `waitingForLayer`, `waitingForPeer`, release event, `drainManager` | `tryTiming`, `succeededTiming`, `failedTiming`, `releaseLayer`, `retryWaiting`, `recvRetry`, `drain` | source ports, the peer behind the destination |
| Coherent crossbar and snoop filter (`mem/coherent_xbar.cc`, `snoop_filter.*`) | `routeTo`, `outstandingSnoop`; per line `requested`, `holder` | `recvTimingReq`, `forwardTiming`, `recvTimingResp`, `recvTimingSnoopResp`; `lookupRequest`, `updateRequest`, `updateResponse`, `updateSnoopResponse` | the caches above, the memory below |
| Simple memory (`mem/simple_mem.cc`, `abstract_mem.cc`) | the data, `packetQueue`, `isBusy` | `recvTimingReq`, `dequeue` | the crossbar |
| Queued prefetcher (`mem/cache/prefetch/queued.*`) | `pfq` | `notify`, `getPacket`, `nextPrefetchReadyTime` | `recvTimingReq`, `getNextMSHR` |
| LDS direction predictor (`direction_predictor.*`) | `dp_array` | `update_array`, `getPrediction` | pattern table |
| LDS pattern table (`pattern_table.*`) | `pattern_table` | `DecodedInstAccess`, `needAccessTLB`, `updatePaddr`, `calculatePref`, `stopPref` | decode stage, TLB, cache |
| LDS target register bitmap, shell (`targetregbitmap.*`, `ldsprefetcher.*`) | bitmap, branch queue | mostly empty | |
| Tags and replacement, stride and tagged prefetchers | tables | | environment of the miss path here |

What is hard in this code:

* **Concurrency without threads.** CPU-side requests, snoops, bus retries,
  responses and the send, retry and prefetch events arrive in any order, and
  each handler reads what the others left.
* **Waiting.** Three causes block one port; one send event serves misses,
  writebacks, rerequests and prefetches. A forgotten wake-up hangs the
  simulated system, an extra one trips an assert elsewhere.
* **Ordering.** Requests and snoops of one block must take effect in the order
  they reached the bus although answers come later, across two target lists,
  two queues and `tempBlock`.
* **Calls within calls.** A retry, a snoop or a response is a chain of calls in
  zero time that may come back to the object that started it: a layer in
  `RETRY`, a packet queue in the middle of `sendTiming`.
* **Distributed decisions.** Who answers a request, and who must be asked, is
  decided by flags of one packet that several caches set in turn, and by a snoop
  filter that sees only part of what happens.
* **Limits.** Queues with reserves, targets per MSHR, the prefetch queue.

For each component, what makes it correct:

* blocking: blocked exactly while something is exhausted; every refused master
  is retried, once; prefetches leave MSHRs to demand misses;
* MSHR: program order of CPU requests, saved snoops replayed at their place,
  no upgrade of a copy that is gone;
* MSHR queue: lists and counters agree, MSHRs are served in the order they become
  ready, ties in the order they were added;
* miss path: no request is forgotten, promised snoop answers are given, no
  access overtakes a store, asserts hold, prefetches are not redundant;
* packet queue: the event is there when a packet is, order is kept through
  refusals and re-entry, every packet leaves, a drain is reported;
* layers: a refused port is held once, woken, called in order;
* caches over a crossbar: single writer, no stale or lost data, one answer to
  each request, and the snoop filter leaves out nobody who matters;
* direction predictor: indices in range; pattern table: pointers are
  recorded.

The hazards, each at its line with the property that would catch it, are listed
in `PROJECT.json`.

## 2. Modules and how they correspond to the code

A C++ object is a record; a method is an operator from record to record with
the method's name (`MSHR_…`, `CacheSlavePort_…` where two classes share one); a
handler the event loop calls is an action. Asserts of the code are not assumed:
a failed one sets a flag (`failed`, `broken`) that `AssertionsHold` reads.
Operators introduced by "Faulty form" are plausible mistakes, each used to
confirm that a property can fail; the specifications do not use them.

**`CacheBlocking`** – the abstract view of a cache: the blocked mask, the port,
and of each queue only the number of allocated entries. Actions:
`RefuseReq`/`AcceptReq` (`CpuSidePort::recvTimingReq`), `ProcessSendRetry`,
`IssuePrefetch` (`getNextMSHR`), `MarkInService` (a writeback leaves),
`ForceDeallocate` (a squashed prefetch), `RecvTimingResp`/`RecvNoTargetResp`.
A writeback of a response is taken only while the write buffer, reserve
included, has room (`RoomInWriteBuffer`); the reserve is `p->mshrs + 1000` in the
code and a constant here.

**`CacheBlocking_proofs`** – its theorems (section 5).

**`MSHR`** – operators on one register. Times are relative to `curTick()`.
**`MSHR_proofs`** holds lemmas about them: each operation keeps the invariant
`RegisterOK` of a register, and what a register says of its block (`Tracks`).

**`MSHRQueue`** – the queue over an array of registers, and a specification
that drives one queue as the cache does. Commands come from the CPU side
(`ReadReq`, `WriteReq`, and `UpgradeReq` as an L2 sees it) and from snoops.
`UpgradeReq` snoops come only while another cache can still have a copy.
**`MSHRQueue_proofs`** holds its theorems, the lemmas about lists (insertion,
removal, counting) they rest on, and what a cache may rely on when it uses the
queue for misses (`Misses`) or for writebacks (`WriteInv`).

**`MissPath`** – one cache with nothing above it. It instantiates `MSHRQueue`
twice (`MQ` the MSHR queue, `WB` the write buffer) and `CacheBlocking` once
(`Blocking`), whose `c` is the view `BlockingView`; that mapping is the
refinement checked as `ImplementsBlocking`. Further state: status bits of every
block (all of one set of `Ways` frames), the send event as a set of at most one
time, `waitingOnRetry`, the packets of the snoop response queue with their times,
`pfq`, what the bus will answer (`answer`, fixed when the request is taken, as in
the code where the snoops happen in the same call), the history counter `owed` of
snoops that were promised an answer, and the history field `payload`, the time the
last response with a rerequest needs for its payload. All times are relative to
`curTick()`. Two of them delay the send event: when a snoop response to the same
block must go first, the port tries again only when the head of the snoop response
queue is due (`deferredPacketReadyTime`), and a rerequest asks for the bus when the
payload of the response has arrived. The environment (bus, other caches,
replacement policy, `calculatePrefetch`) is a choice: a request is taken or
refused, answers are shared, exclusive or dirty as the request permits, any
valid block may be the victim, and latencies and payload delays are any members
of `Latencies` and `PayloadDelays`.

In a cache with nothing above it a prefetch MSHR never has its block present
when it is sent (`PrefetchNotRedundant`), so the squash in `getTimingPacket`
cannot occur here; `MSHRQueue` and `CacheBlocking` have it as an action.
`queue_squash` and `queue_filter` of the prefetcher are on, as by default, so an
address is in `pfq` once. Two modules hold the proofs: **`MissPathInv_proofs`**
has the facts about the fields of the cache record, the invariant and the lemmas
of the operations and of a request, **`MissPath_proofs`** the other handlers and
the theorems.

**`PacketQueue`** – the queue behind a port, with `sendTiming` as a call that
takes two steps: the packet leaves the list (`processSendEvent`, `retry`), then
the call returns (`SendTaken`, `SendRefused`); in between, a peer that will take
the packet may queue others. Ticks are relative to the present.
**`PacketQueue_proofs`** holds its theorems.

**`XBarLayer`** – all layers of one direction of a crossbar and the ports that
send through them. `Send` is what `recvTimingReq` (and, for the other
directions, `recvTimingResp` and `recvTimingSnoopResp`) does to a layer.
`retryWaiting` is split at the call of `sendRetry`: `Resend` and `NoResend` are
the answers of the called port, `StillRetry` the code after the call; nothing
else runs in between (`Quiet`), as the calls take zero time.
**`XBarLayer_proofs`** holds its theorems.

**`CoherentCaches`** – `NumCaches` top-level caches and one block. It reuses the
operators of `MSHR`. The data of the block is the number of stores it has
absorbed, so staleness and loss are visible. One action sends a miss and snoops
the others (`SendMiss`, or `MissRefused` when the memory is busy after the
snoops took effect), as in the code, where this is one chain of calls through
`CoherentXBar::recvTimingReq`. `RecvMemResp` and `RecvSnoopResp` deliver an
answer. The rest of a cache appears as what it can do to the block: evict it
(`Evict`), or leave no way for a fill (`temp`, the `tempBlock` path). The caches
send their own writeback of a block before a new miss to it; the exception is
the subject of `SingleWriteback` (section 6). Timing of the layers, latencies
and blocked ports are left out: any cache may send at any time, which includes
every order the layers allow. The snoop filter is always present, and
`FilterIsTransparent` shows that a crossbar without one behaves alike.
**`CoherentCaches_proofs`** holds its theorems.

**`DirectionPredictor`, `PatternTable`** – the two LDS tables. These files do
not compile as they stand (undeclared names, conditions in English); the modules
say which reading they take. The condition "pattern table is empty" can be read
as "no entry" (the constructor makes some, so it is never true) or as "no valid
entry" (it is true until the first load); the constant `EmptyMeans` chooses, and
the finding holds under both. `new PT_entry` does not initialize the pointer
fields, so those of an entry made by a load are any values.

## 3. Runs

| Run | Configuration | Shows |
|---|---|---|
| `blocking` | 5 MSHRs, 1 reserved for demand, 3 write buffers with reserve 2 more than the MSHRs | the safety of the blocking protocol; deadlock is checked |
| `mshr_queue` | 2 nominal entries + reserve, 2 blocks, latencies 0 and 1, 4 requests and snoops | list consistency, the order of service (`ServedInTurn`) and of targets, asserts |
| `miss_path` | 2 MSHRs, 2 write buffers, 2 targets each, 2 blocks in one frame, prefetches of the second, 1 snoop of the first, latency and payload delay of 2 ticks, 5 ordered events; a write buffer reserve that satisfies `AmpleReserve` (section 5) | the composition's safety and the refinement |
| `miss_path_live` | as `miss_path` with 1 write buffer, latency 0 and 4 ordered events, `FairSpec` | liveness |
| `xbar_layer` | 2 layers, 3 ports, `FairSpec` | safety and liveness of the layers; unbounded in time, deadlock is checked |
| `packet_queue` | 4 packets, delays up to 2 ticks, `FairSpec` | order, wake-up, drain; deadlock is checked |
| `coherent_caches` | 3 caches, 2 targets per MSHR, 2 stores, any number of loads | coherence, answers, the snoop filter, asserts |
| `single_writeback`, `targets_within_limit`, `direction_index`, `pattern_loads`, `xbar_drain` | small | expected violations (section 6) |

Why the bounds are enough: two blocks in one frame make every fill a
replacement and every miss a conflict; two MSHRs and two targets make each of
the three blocked causes occur; a victim with an upgrade of its own
(`tempBlock`) needs five ordered events, a deferred target behind a snoop four;
a downgrade followed by an invalidation, by several other caches, occurs in
`mshr_queue` and in `coherent_caches`. Blocks are not
symmetric, since prefetches and snoops use one of them each. A cache next to the
core gets no header delay with its requests, so one latency is what such a cache
has; it is 2 ticks in `miss_path`, so that a snoop response in the way and a
payload delay the send event beyond the next tick. Different ready times in one
queue are covered by `mshr_queue`, and by the theorems for every set of latencies
and delays. `MaxOrder` and
`MaxSnoops` bound the requests and snoops of a behaviour, so a behaviour ends: deadlock is not checked in those runs, and
that nothing remains waiting is what `EveryMissIsServed` and
`RefusedIsRetried` say.

Three ports on two layers let one port wait for the peer, one for the layer, and
the retried one go elsewhere. Four packets allow a refused packet, two that
arrive meanwhile in either order and one queued by the peer; a third tick of
delay adds no order. Three caches are needed for an owner, a requester and a
bystander, and for a chain of promises; two targets for a snoop
saved behind a request; two stores for one that could be lost to another. `NumTarget`
bounds that model more narrowly than the code, which tests equality and can be
stepped past (`TargetsWithinLimit`): with two targets no request of the CPU side
arrives after a snoop was saved. Two caches with three targets, where one does,
pass as well; three of each take TLC too long; the theorems hold for every
`NumTarget`. Stores are bounded by
`MaxStores`, so that run need not go on for ever and its deadlock is not checked;
`OneAnswer` states that no request in service is left without an answer.

What each property is about is stated beside its definition. The six
`AssertionsHold` cover the asserts of the module they are in.

## 4. Fairness

`FairSpec` of `MissPath` assumes that a scheduled event runs and time passes (the event queue
guarantees both), that the bus eventually retries and takes a refused
request, takes a snoop response that is due, and answers each request in service (the port
protocol obliges the peer). Nothing is assumed of the CPU side or of other
caches. These are weak fairness conditions on `ProcessSendEvent`, `Tick`,
`ProcessSendRetry`, an accepted `Retry`, `SendSnoopResp` and `RecvTimingResp`;
each is written as "infinitely often not pending", because only the action
itself ends its own pending state (and TLC cannot afford `ENABLED` of actions of
that size).

`PacketQueue` and `XBarLayer` state theirs with `WF_` and `SF_`. Weak fairness:
an event that is due runs, time goes on, a call that was made returns, a peer
that refused calls `retry`. Strong fairness is used twice. The events and
retries of a layer are disabled for a moment whenever another layer is in the middle of
its zero-time call, so the weak form would say nothing of them; and a
peer that is offered a packet over and over takes it in the end, without which
no queue could promise anything. Ports that have not been called need never send.

## 5. Proofs

`CacheBlocking_proofs` proves with TLAPS, for all sizes of the queues and of
the reserves that satisfy `BlockingAssumption` (at least one MSHR, one write
buffer, one extra reserve entry; any demand reserve):

* `TypeCorrect`, `RefusedMasterIsRetried`, `RetryOnlyWhenOwed`, `MaskIsExact`,
  `NoAssertFails`, `NominalSizeKept`: the invariants of run `blocking`;
* `PrefetchLeavesDemandMSHRs`: its action property.

The invariants are not inductive one by one. `NoLostWakeup` needs to know that
the retry event is scheduled *exactly* when a retry is owed and the port accepts
(one direction lets `setBlocked` cancel it without loss, the other lets
`clearBlocked` schedule it without tripping the assert); that needs the port's
flag to agree with the mask; that needs each bit of the mask to agree with the
fullness of its queue, also while one step of a response has been taken and the
next has not. `CacheInv(s)` is this statement about a cache record, so
intermediate states of a handler can be put into it; `IndInv` adds the retry
owed to the peer and the MSHR behind `noTargetMSHR`. Each operation has a lemma
(`AllocateKeepsInv`, `DeallocateKeepsInv`, `HandleKeepsInv`, …) and
`StepKeepsIndInv` has one step per action.

`XBarLayer_proofs` proves, for any sets of layers and ports (`PortAssumption`
only says that `NoPort` is not a port):

* `TypeCorrect`, `RefusedHeldOnce`, `NoLostWakeup`, `NoAssertFails`: the
  invariants of run `xbar_layer`;
* `Orderly`: its action property `NoBarging`.

The inductive invariant `IInv` is the conjunction of the four invariants with
`CalledIsFree`: the port that `retryWaiting` calls no longer waits. They need
each other: a port does not queue twice because one that sends is not refused,
hence held by no layer; the release event is not scheduled twice because only a
busy layer has one; a layer does not idle over its queue because its peer then
owes a retry. `SendKeeps`, `ReleaseKeeps` and `RetryKeeps` treat the three
operations that move ports between queues.

`PacketQueue_proofs` proves, for every `MaxDelay` and `MaxPackets` in `Nat`, the
invariants of run `packet_queue`: `TypeCorrect`, `PacketIsWoken`,
`RefusedIsRetriedFirst`, `OrderKept`, `NoAssertFails`. `WokenOnTime` says nothing of
the time within a call of `sendTiming`, so its inductive form adds `RightTime`
(an event, if there is one, suits the first packet) and `InCall` (the packet that
is being sent could go back to the head without disturbing the order, and no
event is scheduled unless the peer queued something); `Numbered` ties packet
numbers to arrivals and `RetryOwed` the peer's debt to `waitingOnRetry`. The
comment in `schedSendTiming` fears that a packet could go before a refused one:
it cannot, because the refused packet's tick is already past and no new packet's
is.

`MSHRQueue_proofs` proves, for every number of entries, reserve (at least one),
demand reserve, set of blocks, set of latencies and `MaxOrder`
(`QueueAssumption`), every property of run `mshr_queue`: `TypeCorrect`,
`ListsStayConsistent`, `ReadyListInTurn`, `AnswersInProgramOrder`,
`SnoopsInOrder`, `UpgradesReplaced`, `AssertsHold`. The inductive invariant
`QueueInv` was checked by TLC on the run's instance before it was proved. It has
two layers.

* The queue: `Lists` (each register is free or allocated and in its list once;
  the ready list holds the allocated ones not in service; the counters count),
  `Sorted`, no two MSHRs for a block, and a free register is clean.
* Each register, `RegisterOK` of `MSHR_proofs`. `InOrder` is program order within
  the targets, within the deferred targets and from the former to the latter;
  it needs every order to be below the counter, and it survives a new
  transaction only because a register that is not in service defers nothing
  (`Plain`). `InEffect` (snoops at their place) needs the flags `postInvalidate`
  and `postDowngrade` to remember the saved snoops (`Remembered`): a fill merges
  deferred targets behind the targets only if no snoop was saved. `Fresh` (no
  stale upgrade) needs `hasUpgrade` of the deferred list not to be behind its
  contents (`Summarised`), or the replacement in `handleSnoop` would be skipped.
  `Claims` is what the assert in `handleFill` rests on: a transaction whose
  targets need an exclusive copy has `pendingDirty` set, so it defers nothing
  that a fill could take unless a snoop was saved.

Every operation has one lemma for a register (`AllocateTargetOK`,
`HandleSnoopOK`, `PromoteOK`, …) and one for the queue (`AllocateQueueOK`,
`MarkInServiceQueueOK`, `RespondOK`, …); `NextIInv` has one step per action.
`ReadyListInTurn` is about steps: the ready list changes only by `addToReadyList`
and by the removal of one register, each of which keeps the turns (`KeepsTurns`)
of all others; and in a sorted list the place before the first register that is
ready later is behind all ties.

`MissPath_proofs` composes these results. For every number of MSHRs, write
buffers, targets, ways and queued prefetches, all latencies and any sets of
blocks, it proves of `Spec` of `MissPath`:

* `MissPathImplementsBlocking`: the refinement `ImplementsBlocking`. The initial
  state maps to one of `CacheBlocking`, and each action of the miss path to one of
  its actions or to a stutter; with it (`MissPathRetries`) the promises of the
  retry protocol hold on the miss path;
* `NoRequestForgotten`: `SendEventScheduled`;
* `PrefetchesNotRedundant`: `PrefetchNotRedundant`;
* `WriteBufferHasRoom`: neither queue is asked for an entry it does not have, and
  no assert of `MSHRQueue`, `setBlocked` or `clearBlocked` fails;
* `SnoopPromisesKept`: `PromisesKept`;
* `StoresNotOvertaken`: `NoAccessPastStore`.

Besides `MissPathAssumption` (sizes are positive) these theorems have one
hypothesis, `AmpleReserve`: `Mshrs + QueueSize < ExtraWriteReserve`. The code has
1000 for the last (`base.cc:72`) and checks nothing; with the default of 32 queued
prefetches the hypothesis holds for every cache with fewer than 968 MSHRs.

The invariant `IInv` is that of `CacheBlocking` for the view of the cache, and
`Inv`, which has two parts. `Stored` says that the MSHR queue satisfies the
invariant of `MSHRQueue_proofs` and never forwards, that the write buffer holds
only writebacks, that `noTargetMSHR` is an allocated MSHR (so its response comes
and unblocks), and that the block of an MSHR whose first target is a prefetch is
not in the cache. This last fact holds because a block has one MSHR: only the
response of the prefetch can fill it, and what that response leaves in the MSHR
are deferred demand requests. `Stored` also bounds the write buffer by `Fits`:
while it is full, its entries, the MSHRs, the MSHRs with deferred targets and the
queued prefetches add up to no more than they did when it became full. A full write buffer blocks the port, so nothing is
accepted and nothing enters `pfq`; a prefetch that is issued moves from `pfq` to an
MSHR; a response that adds a writeback ends an MSHR or its deferred targets.
`Scheduled` says that a time at which some entry of either queue becomes ready
is covered by the send event, not only the earliest one: the event must still
be right for the others when the first has gone. A time is covered (`Soon`) by an
event that is no later than it, than the next tick, than the first snoop response
(`Delays`) or than `payload`. That is kept because the snoop response queue only
grows at its back, in order of time (`Timed`), and its head leaves when it is due:
an event that waited for it is then due as well.

The last two theorems need a third part, `Tracked`, which ties the MSHR of each
block to the block's status bits, to the answer the bus has chosen for it and to
the snoops that were promised an answer (`Tracks` of `MSHR_proofs`). `OutOfSight`:
the block is unreadable, it is present only for an upgrade, and it is not
writable while a store waits. `WellAsked`: a snoop that takes the block away is
the last target, and requests are deferred only behind it or with a store.
`WellAnswered`: a dirty response is expected only if the bus will pass dirty
data or a store comes before every saved snoop. A block without an MSHR is
absent or readable, and owes nothing. `Tracked` says nothing of the queues' times
and is kept by each handler beside `Inv`.

The hard step is the response, whose loop over the targets is the recursive
function `ServeTargets`. `ServedUpTo` says what the loop has done to the block and
how many snoops it has answered after its first `k` targets; `ServeOne` keeps it,
and `HistoryExists`, an induction by least counterexample, gives the recursive
function its values. So every promised snoop meets a dirty block, and what the
snoops leave of the block suits the deferred targets that are asked for again
(`TrackResume`).

Operations that end in `Reschedule` establish `Scheduled` from nothing; the others
keep it (`ScheduledKept`). Each handler has a lemma that gives the invariant
after it and the step of `CacheBlocking` it is (`RequestOK`, `SentOK`,
`ResponseOK`, `SnoopOK`, `TickOK`), and `StepKeepsInv` has one step per action.
The lemmas of `MSHRQueue_proofs` are used through two instances, and those of
`CacheBlocking_proofs` through a third with the refinement mapping for `c`; tlapm
can use only lemmas stated as plain formulas this way, hence their form.

`CoherentCaches_proofs` proves, for any number of caches, of targets per MSHR and
of stores (`CacheAssumption`: the first two are positive), every invariant of run
`coherent_caches`:

* `Coherent`: a readable copy has absorbed every store, a writable copy is alone,
  no load returns a value older than its issue;
* `ExactlyOneAnswer`: each request in service is answered once, and the promises
  are not circular;
* `Transparent`: the snoop filter makes no difference to what a request does;
* `NoAssertFails` and `TypeCorrect`;
* `StoresOnce` (in no run): the stores issued are those performed and those that
  wait in one list of one register, so none is lost or performed twice.

None of them is inductive. The invariant `IInv` has three parts, with two notions
of an answer: *real*, on its way in the queue of the memory or of a cache, and
*promised*, a snoop saved behind the request of a cache that will own the block.

* `Protocol`. `Routes`: a real answer suits the request it is for, and no request
  has two. `Owed`, `OwedOnce`, `Expected`: the same of promises, and no request
  in service lacks an answer of either kind. A request that asked for an
  exclusive copy is a *claim*; a request that a later claim will invalidate
  (`postInvalidate`) is *doomed*. `ClaimAlone`, `ReadAlone`, `WriteAlone`,
  `OneOwner`, `OneRealClaim`, `LastClaim`: who may hold a copy beside a claim, a
  read that is being answered, a writable copy; all claims but the last are
  doomed. `Chained`: the claims can be ranked so that each promises to the next
  and only the first has a real answer; this is what excludes a circle of
  promises, and it cannot be said of two caches at a time. `ClaimLast` and
  `OwnersAnswer` are about the order of a cache's own answers: the one that gives
  the block away is the last. `OnlyCopy`: an exclusive answer of the memory to a
  read meets no other copy when it arrives, though it was decided when the request
  was sent. `Current`, `MemCurrent`, `AllReady`: who has the latest data.
* `Filter`: a cache in neither set of the filter has no copy, no writeback, no
  request and no answer to give; the filter may know too many caches.
* `Crossbar`: `routeTo` and `outstandingSnoop` are the requests in service and
  those of them that memory does not answer.

The two loops, over the snoopers of a request and over the targets of a response,
are recursive functions in the model. A lemma names the function (`Serving`) and
the lemma `Induction`, proved from the well-foundedness of `<` on `Nat` with the
set of good indices as a plain set, carries what each iteration keeps to its end. A
request that was sent is described by `Sends` and an answer that was received by
`Received`, whichever action it came from; each part of `Protocol` has a lemma for
each of the two. `StoresOnce` counts with a running sum over the caches.

Only model-checked: what `AssertionsHold` of `MissPath` says beyond
`WriteBufferHasRoom`, and all liveness (TLAPS 1.4.5 does not prove liveness under
fairness). `AssertionsHold` of `MissPath` is not true of every instance (see
`SingleWriteback`), so it has no theorem. Every other invariant of a passing run
is stated by one.

## 6. Disagreements between code and documentation

* `SingleWriteback` (`cache_impl.hh:1878`): with a full write buffer
  `getNextMSHR` sends the rerequest for a block before the writeback of the
  block's dirty data when the rerequest has the lower order, although the
  comment in its other branch requires the writeback first. It takes a fill into
  `tempBlock` with deferred targets. The second fill then queues a second
  writeback of the block, and the next snoop fails
  `assert(writebacks.size() == 1)` (`cache_impl.hh:1796`). Besides, that fill reads
  the memory before the first writeback has reached it, so the store the writeback
  carries can be lost. The passing runs of
  `MissPath` that check `AssertionsHold` have two write buffers, which two
  blocks cannot fill with this conflict pending, and one latency; with one write
  buffer `AssertionsHold` fails for this reason. The same branch is taken when
  the rerequest is not ready yet: with two write buffers and `Latencies = {0, 2}`
  (a request that carries a crossbar's header delay, so not from a core directly)
  `SingleWriteback` fails as well.
* `TargetsWithinLimit` (`cache_impl.hh:679`): the target limit is compared for
  equality and can be stepped over by a snoop's target.
* `DrainedLayerIsQuiet` (`xbar.cc:596`): `Layer::drain` means to check that no
  one is waiting and checks only whether the layer is idle. After a refused
  send the layer becomes idle while a port waits for the peer, and reports that
  it is drained.
* `IndexInTable` (`direction_predictor.cc:113`): the second index of a pair may
  be one past the table.
* `PointersAreRecorded` (`pattern_table.cc:97`): loops from `begin()` to `begin()`.
  A load from the node whose base register the first load brought into the table
  finds no entry, so no pointer is recorded.

## 7. Not modelled, and why

* Of the caches: atomic and functional accesses (sequential, no waiting),
  statistics, checkpoints, uncacheable, locked and software-prefetch accesses,
  WriteInvalidate, error responses (`cache_impl.hh:1073`), and what needs a second
  cache level: `downstreamPending`,
  snoops from below (`lookupSnoop`, `updateSnoopForward`), writebacks from above.
* Of `MissPath`, but in `CoherentCaches`: data, and answers that invalidate the
  block again (`ReadRespWithInvalidate`, line 1266).
* Of the crossbar: packet timing and the address map. The composition of layers
  with caches is left to the choice of `CoherentCaches` which cache sends next.
* Replacement policies (any victim is allowed) and the stride and tagged
  prefetchers (any address is allowed): the safety of the miss path does not
  depend on them.
* Limits that only very long behaviours reach: the 100 packets of a queue and the
  512 entries of the routing tables. That of the write buffer is proved not to be
  reached (`WriteBufferHasRoom`).
* The rest of gem5 (instruction sets, CPU models, devices, DRAM timing, Ruby, the
  event queue), which the repository carries unchanged: it is the environment of
  these models. Most of it is tables, encodings and timing without a protocol.
* Of the LDS prefetcher, the register bitmap and the shell: `access_TRB` is
  empty, conditions are English phrases, no code calls them.

## 8. Plan

1. *Done*: `CacheBlocking` with proofs, `MSHR`, `MSHRQueue`, `MissPath`, the two
   LDS tables; `XBarLayer` with proofs, `PacketQueue` with proofs, `CoherentCaches`.
2. *Done*: proofs of `MSHRQueue`; of `MissPath`, the refinement of
   `CacheBlocking`, all invariants but `AssertionsHold`, and that the reserve of
   the write buffer suffices; all of `CoherentCaches`.
3. A two-level `CoherentCaches`: a cache above another, snoops from below,
   `downstreamPending`, prefetch squash.
4. `QueuedPrefetcher` with `observeAccess`, `on_miss`, `cache_snoop`; the stride
   table and `LRU` as operators against reference definitions.
