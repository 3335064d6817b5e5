--------------------------- MODULE CoherentCaches ---------------------------
(***************************************************************************)
(* Several top-level caches (mem/cache/cache_impl.hh) that share one block *)
(* over a coherent crossbar (mem/coherent_xbar.cc) with a snoop filter     *)
(* (mem/snoop_filter.cc), above a simple memory (mem/simple_mem.cc).  A    *)
(* crossbar without a snoop filter snoops all the other caches, which      *)
(* FilterIsTransparent says makes no difference.  A request that a cache   *)
(* sends is snooped by the other caches and offered to the memory in one   *)
(* step, as sendTimingReq is a chain of calls; the answer is delivered     *)
(* later, by the memory or by the cache that promised it.                  *)
(*                                                                         *)
(* The data of the block is the number of stores it has absorbed, and      *)
(* latest is the number of stores performed: a copy is current when the    *)
(* two agree.  A load remembers the value of latest when it is issued.     *)
(* The fields of an MSHR target that MSHR.tla passes through are used for  *)
(* this: readyTime is latest at the issue of a load, order the cache whose *)
(* request a snoop is.  The other blocks of the caches appear as           *)
(* evictions, and as a fill that finds no way to use (tempBlock).  A cache *)
(* sends its own writeback before a new miss to the block: the exception,  *)
(* a full write buffer, is the question of MissPath!SingleWriteback.       *)
(***************************************************************************)
EXTENDS MSHR, FiniteSets, SequencesExt

CONSTANTS
    NumCaches,      \* caches on the slave ports 1 .. NumCaches
    NumTarget,      \* bound: targets of an MSHR when a CPU request joins it
    MaxStores       \* bound: stores that the CPUs issue

ASSUME CacheAssumption ==
    /\ NumCaches \in Nat \ {0} /\ NumTarget \in Nat \ {0} /\ MaxStores \in Nat

Caches == 1 .. NumCaches

VARIABLES
    cache,              \* per cache: the block, its MSHR, writeback and answers to snoops
    mem,                \* the block in memory
    packetQueue,        \* answers of the memory, in order
    routeTo,            \* caches to which the crossbar has to route an answer
    outstandingSnoop,   \* those among them that another cache answers
    snoopFilter,        \* the snoop filter's item for the block
    issued,             \* stores issued by the CPUs
    latest,             \* stores performed
    stale,              \* a load has returned a value older than its issue
    failed              \* an assert or a panic_if of the code has failed

vars == <<cache, mem, packetQueue, routeTo, outstandingSnoop, snoopFilter,
          issued, latest, stale, failed>>

NoWriteback == [data |-> 0, pending |-> FALSE]

Init ==
    /\ cache = [c \in Caches |-> [status |-> {}, data |-> 0, mshr |-> FreeMSHR,
                                  writeback |-> NoWriteback, snoopRespQueue |-> <<>>]]
    /\ mem = 0 /\ packetQueue = <<>>
    /\ routeTo = {} /\ outstandingSnoop = {}
    /\ snoopFilter = [requested |-> {}, holder |-> {}]
    /\ issued = 0 /\ latest = 0 /\ stale = FALSE /\ failed = FALSE

isValid(c) == "Valid" \in c.status
isReadable(c) == "Readable" \in c.status
isWritable(c) == "Writable" \in c.status
isDirty(c) == "Dirty" \in c.status
HasMSHR(c) == c.mshr # FreeMSHR

invalidate(c) == [c EXCEPT !.status = {}, !.data = 0]

-----------------------------------------------------------------------------
(* Packets.                                                                *)

Packet(from, cmd) == [from |-> from, cmd |-> cmd, shared |-> FALSE, memInhibit |-> FALSE]

(* The answer to a request; an upgrade carries no data.                    *)
Response(pkt, data, pending_inval) ==
    [to |-> pkt.from, shared |-> pkt.shared, memInhibit |-> pkt.memInhibit,
     cmd |-> CASE pkt.cmd = "ReadReq" -> IF pending_inval THEN "ReadRespWithInvalidate"
                                                          ELSE "ReadResp"
               [] pkt.cmd = "ReadExReq" -> "ReadExResp"
               [] OTHER -> "UpgradeResp",
     data |-> IF IsUpgrade(pkt.cmd) THEN 0 ELSE data]

HasData(resp) == resp.cmd # "UpgradeResp"
NeedsExclusiveResp(resp) == resp.cmd \in {"ReadExResp", "UpgradeResp"}

-----------------------------------------------------------------------------
(* Snoops.  Each operator returns the snooped cache, the packet with the   *)
(* flags it has asserted, and whether the asserts of the code held.        *)

doTimingSupplyResponse(c, pkt, data, pending_inval) ==
    [c EXCEPT !.snoopRespQueue = Append(@, Response(pkt, data, pending_inval))]

(* The snoop of the block: only an owner responds.                         *)
handleSnoop(c, pkt, pending_inval) ==
    LET reads == ~IsInvalidate(pkt.cmd)
        snooped == [pkt EXCEPT !.shared = @ \/ reads, !.memInhibit = @ \/ isDirty(c)]
        supplied == IF isDirty(c)
                    THEN doTimingSupplyResponse(c, snooped, c.data, pending_inval) ELSE c
    IN  IF isValid(c)
        THEN [cache |-> IF reads THEN [supplied EXCEPT !.status = @ \ {"Writable"}]
                                 ELSE invalidate(supplied),
              pkt |-> snooped,
              ok |-> isDirty(c) => ~pkt.memInhibit]
        ELSE [cache |-> c, pkt |-> pkt, ok |-> TRUE]

(* Faulty form: the memory is not told that the writeback supplies data.   *)
SupplyUninhibited(c, pkt) ==
    LET snooped == [pkt EXCEPT !.shared = @ \/ ~NeedsExclusive(pkt.cmd)]
        supplied == doTimingSupplyResponse(c, snooped, c.writeback.data, FALSE)
    IN  [cache |-> IF c.writeback.pending THEN supplied ELSE c,
         pkt |-> IF c.writeback.pending THEN snooped ELSE pkt, ok |-> TRUE]

(* The snoop of a writeback that has not left: it supplies the data, and   *)
(* is dropped when the requester takes the block over.                     *)
SnoopWriteback(c, pkt) ==
    LET snooped == [pkt EXCEPT !.memInhibit = TRUE,
                               !.shared = @ \/ ~NeedsExclusive(pkt.cmd)]
        supplied == doTimingSupplyResponse(c, snooped, c.writeback.data, FALSE)
    IN  IF c.writeback.pending
        THEN [cache |-> IF IsInvalidate(pkt.cmd)
                        THEN [supplied EXCEPT !.writeback = NoWriteback] ELSE supplied,
              pkt |-> snooped,
              ok |-> ~pkt.memInhibit /\ NeedsExclusive(pkt.cmd) = IsInvalidate(pkt.cmd)]
        ELSE [cache |-> c, pkt |-> pkt, ok |-> TRUE]

(* Cache::recvTimingSnoopReq: the MSHR, the write buffer, then the block.  *)
recvTimingSnoopReq(c, pkt) ==
    LET byMSHR == MSHR_handleSnoop(c.mshr, pkt.cmd, pkt.from)
        tracked == IF HasMSHR(c) THEN [c EXCEPT !.mshr = byMSHR.mshr] ELSE c
        byWriteback == SnoopWriteback(tracked, pkt)
        byBlock == handleSnoop(byWriteback.cache, byWriteback.pkt, FALSE)
    IN  IF HasMSHR(c) /\ byMSHR.handled
        THEN [cache |-> tracked,
              pkt |-> [pkt EXCEPT !.shared = @ \/ byMSHR.shared,
                                  !.memInhibit = @ \/ byMSHR.memInhibit],
              ok |-> byMSHR.memInhibit => ~pkt.memInhibit]
        ELSE [byBlock EXCEPT !.ok = @ /\ byWriteback.ok]

-----------------------------------------------------------------------------
(* The snoop filter: requests in flight, and caches that may hold the      *)
(* block.                                                                  *)

(* lookupRequest: the ports to snoop for a request of cache r.             *)
Interested(r) == (snoopFilter.holder \cup snoopFilter.requested) \ {r}

(* Faulty form: the request stays in flight.                               *)
KeepRequested(resp) == [snoopFilter EXCEPT !.holder = @ \cup {resp.to}]

(* Faulty form: a shared answer replaces the sharers.                      *)
ForgetSharers(resp) ==
    [requested |-> snoopFilter.requested \ {resp.to}, holder |-> {resp.to}]

(* updateResponse, and the same in updateSnoopResponse.                    *)
updateResponse(resp) ==
    [requested |-> snoopFilter.requested \ {resp.to},
     holder |-> {resp.to} \cup (IF NeedsExclusiveResp(resp) \/ ~resp.shared
                                THEN {} ELSE snoopFilter.holder)]

(* One snooper; f is what those before it have left.                       *)
Forward(f, d, dests) ==
    LET r == recvTimingSnoopReq(f.cache[d], f.pkt)
    IN  IF d \in dests
        THEN [cache |-> [f.cache EXCEPT ![d] = r.cache], pkt |-> r.pkt, ok |-> f.ok /\ r.ok]
        ELSE f

(* CoherentXBar::forwardTiming: the snoopers, in the order of their ports, *)
(* see the flags that those before them asserted.                          *)
forwardTiming(pkt, dests) ==
    LET f[d \in 0 .. NumCaches] ==
            IF d = 0 THEN [cache |-> cache, pkt |-> pkt, ok |-> TRUE]
                     ELSE Forward(f[d - 1], d, dests)
    IN  f[NumCaches]

-----------------------------------------------------------------------------
(* The CPU side.                                                           *)

(* access and recvTimingReq: a hit is satisfied at once.                   *)
Hit(c, cmd) == IF NeedsExclusive(cmd) THEN isWritable(c) ELSE isReadable(c)

Load(r) ==
    /\ Hit(cache[r], "ReadReq")
    /\ stale' = (stale \/ cache[r].data < latest)
    /\ UNCHANGED <<cache, mem, packetQueue, routeTo, outstandingSnoop, snoopFilter,
                   issued, latest, failed>>

Store(r) ==
    /\ Hit(cache[r], "WriteReq")
    /\ issued < MaxStores /\ issued' = issued + 1
    /\ cache' = [cache EXCEPT ![r].data = @ + 1, ![r].status = @ \cup {"Dirty"}]
    /\ latest' = latest + 1
    /\ UNCHANGED <<mem, packetQueue, routeTo, outstandingSnoop, snoopFilter, stale, failed>>

(* A miss joins the MSHR of the block or allocates one; a block that is    *)
(* present is kept for the upgrade but no longer read.  The code blocks    *)
(* the CPU side only when the targets come to exactly tgts_per_mshr, and   *)
(* so can go past it (MissPath!TargetsWithinLimit); NumTarget is a bound   *)
(* of the model and not that parameter, and the theorems hold for every    *)
(* NumTarget.                                                              *)
Miss(r, cmd) ==
    LET c == cache[r]
        issue == IF cmd = "ReadReq" THEN latest ELSE 0
        m == IF HasMSHR(c)
             THEN MSHR_allocateTarget(c.mshr, cmd, issue, 0)
             ELSE [MSHR_allocate("block", cmd, issue, 0) EXCEPT !.readyTime = 0]
    IN  /\ ~Hit(c, cmd)
        /\ getNumTargets(c.mshr) < NumTarget
        /\ IF cmd = "WriteReq" THEN issued < MaxStores /\ issued' = issued + 1
                               ELSE UNCHANGED issued
        /\ cache' = [cache EXCEPT
                       ![r].mshr = m,
                       ![r].status = IF HasMSHR(c) THEN @ ELSE @ \ {"Readable"}]
        /\ failed' = (failed \/ (/\ ~HasMSHR(c) /\ isValid(c)
                                 /\ ~NeedsExclusive(cmd) \/ isWritable(c)))
        /\ UNCHANGED <<mem, packetQueue, routeTo, outstandingSnoop, snoopFilter,
                       latest, stale>>

-----------------------------------------------------------------------------
(* The memory side.                                                        *)

(* getBusPacket                                                            *)
BusPacket(r) ==
    Packet(r, IF isValid(cache[r]) THEN "UpgradeReq"
              ELSE IF cache[r].mshr.targets.needsExclusive THEN "ReadExReq" ELSE "ReadReq")

(* Faulty form: requests overtake the answers to snoops.                   *)
SendAtOnce(r) == TRUE

(* sendDeferredPacket: the answers to snoops of the block go first, and    *)
(* the writeback before the miss.                                          *)
MaySend(r) == cache[r].snoopRespQueue = <<>>

MissReady(r) ==
    /\ MaySend(r) /\ ~cache[r].writeback.pending
    /\ HasMSHR(cache[r]) /\ ~cache[r].mshr.inService

Snooped(r) == forwardTiming(BusPacket(r), Interested(r))

(* The asserts of getBusPacket, lookupRequest and the snoops s.            *)
MissAsserts(r, s) ==
    /\ isValid(cache[r]) => cache[r].mshr.targets.needsExclusive /\ ~isWritable(cache[r])
    /\ r \notin snoopFilter.requested
    /\ r \notin routeTo /\ r \notin outstandingSnoop
    /\ s.ok

(* The request is taken: the memory answers it unless a cache promised to. *)
SendMiss(r) ==
    LET s == Snooped(r)
    IN  /\ MissReady(r)
        /\ cache' = [s.cache EXCEPT ![r].mshr =
                        MSHR_markInService(@, ~s.pkt.shared /\ s.pkt.memInhibit)]
        /\ packetQueue' = IF s.pkt.memInhibit THEN packetQueue
                          ELSE Append(packetQueue, Response(s.pkt, mem, FALSE))
        /\ routeTo' = routeTo \cup {r}
        /\ outstandingSnoop' = IF s.pkt.memInhibit THEN outstandingSnoop \cup {r}
                               ELSE outstandingSnoop
        /\ snoopFilter' = [snoopFilter EXCEPT !.requested = @ \cup {r}]
        /\ failed' = (failed \/ ~MissAsserts(r, s))
        /\ UNCHANGED <<mem, issued, latest, stale>>

(* The memory is busy: the request comes again, as a new packet, but the   *)
(* other caches have been snooped.                                         *)
MissRefused(r) ==
    LET s == Snooped(r)
    IN  /\ MissReady(r)
        /\ ~s.pkt.memInhibit
        /\ cache' = s.cache
        /\ failed' = (failed \/ ~MissAsserts(r, s))
        /\ UNCHANGED <<mem, packetQueue, routeTo, outstandingSnoop, snoopFilter,
                       issued, latest, stale>>

(* A writeback that the memory refuses changes nothing.                    *)
SendWriteback(r) ==
    /\ MaySend(r) /\ cache[r].writeback.pending
    /\ mem' = cache[r].writeback.data
    /\ cache' = [cache EXCEPT ![r].writeback = NoWriteback]
    /\ snoopFilter' = [snoopFilter EXCEPT !.holder = @ \ {r}]
    /\ failed' = (failed \/ r \in snoopFilter.requested \/ r \notin snoopFilter.holder)
    /\ UNCHANGED <<packetQueue, routeTo, outstandingSnoop, issued, latest, stale>>

-----------------------------------------------------------------------------
(* writebackBlk                                                            *)
Writeback(c) == [data |-> c.data, pending |-> TRUE]

(* The victim of a fill of another block: a block with an MSHR is kept.    *)
Evict(r) ==
    LET c == cache[r]
    IN  /\ isValid(c) /\ ~HasMSHR(c)
        /\ cache' = [cache EXCEPT ![r] =
                        [invalidate(c) EXCEPT !.writeback =
                            IF isDirty(c) THEN Writeback(c) ELSE @]]
        /\ failed' = (failed \/ (isDirty(c) /\ c.writeback.pending))
        /\ UNCHANGED <<mem, packetQueue, routeTo, outstandingSnoop, snoopFilter,
                       issued, latest, stale>>

(* handleFill of the cache: the permissions that the answer gives.         *)
handleFill(c, resp) ==
    [c EXCEPT !.status = @ \cup {"Valid", "Readable"}
                           \cup (IF resp.shared THEN {} ELSE {"Writable"})
                           \cup (IF ~resp.shared /\ resp.memInhibit THEN {"Dirty"} ELSE {}),
              !.data = IF HasData(resp) THEN resp.data ELSE @]

(* satisfyCpuSideRequest or the deferred snoop, for one target; f is the   *)
(* state of the fill.                                                      *)
ServeTarget(f, t, resp, pending_inval) ==
    LET c == f.cache
        snoop == handleSnoop(c, Packet(t.order, t.cmd), pending_inval)
    IN  CASE t.source = "FromSnoop" ->
               [f EXCEPT !.cache = snoop.cache,
                         !.ok = /\ @ /\ snoop.ok
                                /\ resp.cmd = "ReadRespWithInvalidate" => pending_inval]
          [] t.source # "FromSnoop" /\ NeedsExclusive(t.cmd) ->
               [f EXCEPT !.cache.data = @ + 1, !.cache.status = @ \cup {"Dirty"},
                         !.latest = @ + 1, !.ok = @ /\ isValid(c) /\ isWritable(c)]
          [] OTHER ->
               [f EXCEPT !.stale = @ \/ c.data < t.readyTime, !.ok = @ /\ isValid(c)]

(* The targets in their order.                                             *)
ServeTargets(filled, list, resp, pending_inval) ==
    LET f[i \in 0 .. Len(list)] ==
            IF i = 0 THEN filled ELSE ServeTarget(f[i - 1], list[i], resp, pending_inval)
    IN  f[Len(list)]

(* Faulty form: a downgrade that came before the answer is forgotten.      *)
SettleExclusive(c, m, resp) ==
    LET status == IF resp.cmd = "ReadRespWithInvalidate" \/ m.postInvalidate THEN {}
                  ELSE IF m.deferredTargets.list # <<>> THEN c.status \ {"Readable"}
                  ELSE c.status
    IN  [c EXCEPT !.status = status, !.data = IF status = {} THEN 0 ELSE @,
                  !.mshr = IF m.deferredTargets.list = <<>> THEN FreeMSHR
                           ELSE [promoteDeferredTargets(m) EXCEPT
                                   !.inService = FALSE, !.order = 0, !.readyTime = 0]]

(* What remains of the block: it is invalidated or downgraded if a later   *)
(* request asked for it, and not read while a store waits for the upgrade. *)
Settle(c, m, resp) ==
    LET kept == IF resp.cmd = "ReadRespWithInvalidate" \/ m.postInvalidate THEN {}
                ELSE IF m.postDowngrade THEN c.status \ {"Writable"} ELSE c.status
        status == IF m.deferredTargets.list # <<>> THEN kept \ {"Readable"} ELSE kept
    IN  [c EXCEPT !.status = status,
                  !.data = IF status = {} THEN 0 ELSE @,
                  !.mshr = IF m.deferredTargets.list = <<>> THEN FreeMSHR
                           ELSE [promoteDeferredTargets(m) EXCEPT
                                   !.inService = FALSE, !.order = 0, !.readyTime = 0]]

(* Cache::recvTimingResp.  With temp the block of the fill is tempBlock:   *)
(* the answer brings data and no way of the set can be replaced.  cs are   *)
(* the caches after the answer has left its sender, routed says whether    *)
(* the asserts of the crossbar and the snoop filter held.                  *)
recvTimingResp(cs, resp, temp, routed) ==
    LET r == resp.to
        c == cs[r]
        m == MSHR_handleFill(c.mshr, resp.shared)
        served == ServeTargets([cache |-> handleFill(c, resp), latest |-> latest,
                                stale |-> stale, ok |-> TRUE],
                               m.targets.list, resp, m.postInvalidate)
        settled == Settle(served.cache, m, resp)
        dirty == temp /\ isDirty(settled)
    IN  /\ temp => ~isValid(c) /\ HasData(resp)
        /\ cache' = [cs EXCEPT ![r] =
                        IF temp THEN [invalidate(settled) EXCEPT !.writeback =
                                        IF dirty THEN Writeback(settled) ELSE @]
                        ELSE settled]
        /\ latest' = served.latest
        /\ stale' = served.stale
        /\ routeTo' = routeTo \ {r}
        /\ snoopFilter' = updateResponse(resp)
        /\ failed' = \/ failed \/ ~served.ok
                     \/ ~routed
                     \/ FillTakesDeferred(c.mshr, resp.shared) /\ c.mshr.targets.needsExclusive
                     \/ ~isValid(c) /\ ~HasData(resp)
                     \/ temp /\ isValid(served.cache) /\ settled.status = {}
                     \/ dirty /\ c.writeback.pending

Routed(resp) == resp.to \in routeTo /\ resp.to \in snoopFilter.requested

(* The memory answers in order.                                            *)
RecvMemResp(temp) ==
    /\ packetQueue # <<>>
    /\ recvTimingResp(cache, Head(packetQueue), temp, Routed(Head(packetQueue)))
    /\ packetQueue' = Tail(packetQueue)
    /\ UNCHANGED <<mem, outstandingSnoop, issued>>

(* CoherentXBar::recvTimingSnoopResp: the answer of cache o becomes the    *)
(* response to the request.                                                *)
RecvSnoopResp(o, temp) ==
    LET resp == Head(cache[o].snoopRespQueue)
    IN  /\ cache[o].snoopRespQueue # <<>>
        /\ recvTimingResp([cache EXCEPT ![o].snoopRespQueue = Tail(@)], resp, temp,
                          /\ Routed(resp) /\ resp.to # o
                          /\ resp.to \in outstandingSnoop /\ resp.memInhibit
                          /\ o \in snoopFilter.holder)
        /\ outstandingSnoop' = outstandingSnoop \ {resp.to}
        /\ UNCHANGED <<mem, packetQueue, issued>>

-----------------------------------------------------------------------------
Next ==
    \/ \E r \in Caches : \/ Load(r) \/ Store(r)
                          \/ \E cmd \in {"ReadReq", "WriteReq"} : Miss(r, cmd)
                          \/ SendMiss(r) \/ MissRefused(r) \/ SendWriteback(r) \/ Evict(r)
    \/ \E temp \in BOOLEAN : \/ RecvMemResp(temp)
                             \/ \E o \in Caches : RecvSnoopResp(o, temp)

Spec == Init /\ [][Next]_vars

-----------------------------------------------------------------------------
(* The type of the state: the permissions of a block form a chain, and the *)
(* crossbar and the snoop filter agree on the requests in flight.          *)
TypeOK ==
    /\ \A r \in Caches : cache[r].status \ {"Dirty"} \in
          {{}, {"Valid"}, {"Valid", "Readable"}, {"Valid", "Readable", "Writable"}}
    /\ mem \in 0 .. latest /\ latest \in 0 .. issued /\ issued \in 0 .. MaxStores
    /\ routeTo = {r \in Caches : cache[r].mshr.inService}
    /\ outstandingSnoop \subseteq routeTo
    /\ snoopFilter.requested = routeTo /\ snoopFilter.holder \subseteq Caches

(* However misses, upgrades, evictions, snoops and late answers interleave *)
(* (recvTimingSnoopReq, recvTimingResp): a copy that can be read has       *)
(* absorbed every store, so none is lost; while one cache can write the    *)
(* block no other can read or write it; and no load has returned a value   *)
(* older than the block was when the load was issued.                      *)
Coherence ==
    /\ \A r \in Caches :
         /\ isReadable(cache[r]) => cache[r].data = latest
         /\ isWritable(cache[r]) =>
              \A d \in Caches \ {r} : ~isReadable(cache[d]) /\ ~isWritable(cache[d])
    /\ ~stale

(* The answers on their way to cache r.                                    *)
Answers(r) ==
    Cardinality({i \in DOMAIN packetQueue : packetQueue[i].to = r})
      + Cardinality(UNION {{<<c, i>> : i \in {k \in DOMAIN cache[c].snoopRespQueue :
                                                 cache[c].snoopRespQueue[k].to = r}}
                           : c \in Caches})

(* The caches that have promised r an answer once their own arrives.       *)
Promises(r) ==
    {c \in Caches : /\ cache[c].mshr.inService /\ cache[c].mshr.pendingDirty
                    /\ \E t \in ToSet(cache[c].mshr.targets.list) :
                          t.source = "FromSnoop" /\ t.order = r}

(* A request in service has exactly one answer on its way or promised,     *)
(* although memory and owner decide by flags of a packet that several      *)
(* caches set (memInhibit), and the promises are not circular: while any   *)
(* request is in service some answer is on its way.                        *)
OneAnswer ==
    /\ \A r \in Caches : Answers(r) + Cardinality(Promises(r))
                           = IF cache[r].mshr.inService THEN 1 ELSE 0
    /\ (\E r \in Caches : cache[r].mshr.inService)
         => \E r \in Caches : Answers(r) > 0

(* The snoop filter never leaves out a cache that matters, although it is  *)
(* told of no clean eviction and forgets sharers when an exclusive answer  *)
(* passes: a request that is sent now has the same effect as one that      *)
(* snoops every other cache.                                               *)
FilterIsTransparent ==
    \A r \in Caches :
        MissReady(r) => Snooped(r) = forwardTiming(BusPacket(r), Caches \ {r})

(* The asserts and panic_ifs of the caches, the crossbar and the snoop     *)
(* filter hold, and those of allocateBlock would for a victim that is      *)
(* waiting for its upgrade.                                                *)
AssertionsHold ==
    /\ ~failed
    /\ \A r \in Caches : isValid(cache[r]) /\ HasMSHR(cache[r]) =>
          /\ isWritable(cache[r]) => isDirty(cache[r])
          /\ cache[r].mshr.targets.needsExclusive
=============================================================================
