-------------------------------- MODULE MSHR --------------------------------
(***************************************************************************)
(* Miss status holding register of a classic cache (mem/cache/mshr.hh and  *)
(* mshr.cc) and the attributes of the commands it tells apart              *)
(* (mem/packet.cc).  An MSHR is a record, its operations are operators     *)
(* that return the new record.                                             *)
(*                                                                         *)
(* Times are relative to curTick(): 0 is "now or earlier".  Commands of    *)
(* load-locked and store-conditional, uncacheable accesses, the secure     *)
(* flag and the downstreamPending flag of multi-level hierarchies are left *)
(* out.                                                                    *)
(***************************************************************************)
EXTENDS Naturals, Sequences

(* Attributes of the request commands.                                     *)
NeedsExclusive(cmd) == cmd \in {"WriteReq", "Writeback", "UpgradeReq", "ReadExReq"}
IsInvalidate(cmd) == cmd \in {"UpgradeReq", "ReadExReq"}
IsUpgrade(cmd) == cmd = "UpgradeReq"
NeedsResponse(cmd) == cmd # "Writeback"

-----------------------------------------------------------------------------
(* MSHR::TargetList, with the flags that summarise it.                     *)

EmptyTargets == [list |-> <<>>, needsExclusive |-> FALSE, hasUpgrade |-> FALSE]

IsReset(l) == ~l.needsExclusive /\ ~l.hasUpgrade

Target(cmd, source, readyTime, order) ==
    [cmd |-> cmd, source |-> source, readyTime |-> readyTime, order |-> order]

TargetList_add(l, t) ==
    LET counts == t.source # "FromSnoop"
    IN  [list |-> Append(l.list, t),
         needsExclusive |-> l.needsExclusive \/ (counts /\ NeedsExclusive(t.cmd)),
         hasUpgrade |-> l.hasUpgrade \/ (counts /\ IsUpgrade(t.cmd))]

replaceUpgrade(t) ==
    IF t.cmd = "UpgradeReq" THEN [t EXCEPT !.cmd = "ReadExReq"] ELSE t

(* Faulty form: only the first target is converted.                        *)
ReplaceFirstUpgrade(l) ==
    IF l.hasUpgrade
    THEN [l EXCEPT !.list[1] = replaceUpgrade(@), !.hasUpgrade = FALSE]
    ELSE l

(* An upgrade whose copy was invalidated must fetch the data.              *)
replaceUpgrades(l) ==
    IF l.hasUpgrade
    THEN [l EXCEPT !.list = [i \in DOMAIN @ |-> replaceUpgrade(@[i])],
                   !.hasUpgrade = FALSE]
    ELSE l

-----------------------------------------------------------------------------
(* An MSHR on the free list.  The fields that allocate and markInService   *)
(* overwrite before they are read again have their initial values here.    *)
FreeMSHR ==
    [blkAddr |-> "none", order |-> 0, readyTime |-> 0, inService |-> FALSE,
     isForward |-> FALSE, pendingDirty |-> FALSE, postInvalidate |-> FALSE,
     postDowngrade |-> FALSE, targets |-> EmptyTargets, deferredTargets |-> EmptyTargets]

getNumTargets(m) == Len(m.targets.list) + Len(m.deferredTargets.list)
hasTargets(m) == m.targets.list # <<>>
getTarget(m) == Head(m.targets.list)

isForwardNoResponse(m) ==
    /\ getNumTargets(m) = 1
    /\ getTarget(m).source = "FromCPU"
    /\ ~NeedsResponse(getTarget(m).cmd)

MSHR_allocate(blk_addr, cmd, when_ready, order) ==
    LET source == IF cmd = "HardPFReq" THEN "FromPrefetcher" ELSE "FromCPU"
    IN  [FreeMSHR EXCEPT
           !.blkAddr = blk_addr, !.order = order, !.readyTime = when_ready,
           !.targets = TargetList_add(EmptyTargets,
                                      Target(cmd, source, when_ready, order))]

MSHR_markInService(m, pending_dirty_resp) ==
    [m EXCEPT !.inService = TRUE,
              !.pendingDirty = m.targets.needsExclusive \/ pending_dirty_resp,
              !.postInvalidate = FALSE, !.postDowngrade = FALSE]

MSHR_popTarget(m) == [m EXCEPT !.targets.list = Tail(@)]

(* Faulty form: the targets already deferred are overtaken.                *)
OvertakeDeferred(m, cmd, when, order) ==
    LET t == Target(cmd, "FromCPU", when, order)
        defer == /\ m.inService
                 /\ \/ m.postInvalidate
                    \/ /\ NeedsExclusive(cmd)
                       /\ (~m.pendingDirty \/ m.postDowngrade \/ m.isForward)
    IN  IF defer
        THEN [m EXCEPT !.deferredTargets = TargetList_add(@, replaceUpgrade(t))]
        ELSE [m EXCEPT !.targets = TargetList_add(@, t)]

(* A CPU-side request joins the MSHR.  It waits for a second transaction   *)
(* when the one in service cannot satisfy it, or would out of order.       *)
MSHR_allocateTarget(m, cmd, when, order) ==
    LET t == Target(cmd, "FromCPU", when, order)
        defer == /\ m.inService
                 /\ \/ m.deferredTargets.list # <<>>
                    \/ m.postInvalidate
                    \/ /\ NeedsExclusive(cmd)
                       /\ (~m.pendingDirty \/ m.postDowngrade \/ m.isForward)
    IN  IF defer
        THEN [m EXCEPT !.deferredTargets =
                 TargetList_add(@, IF m.postInvalidate THEN replaceUpgrade(t)
                                                       ELSE t)]
        ELSE [m EXCEPT !.targets = TargetList_add(@, t)]

(* Faulty form: a downgrade is not remembered.                             *)
ForgetDowngrade(m, cmd, order) ==
    LET save == m.inService /\ ~m.postInvalidate
                            /\ (m.pendingDirty \/ IsInvalidate(cmd))
    IN  [mshr |-> IF save
                  THEN [m EXCEPT !.targets = TargetList_add(@, Target(cmd, "FromSnoop", 0, order)),
                                 !.postInvalidate = NeedsExclusive(cmd)]
                  ELSE m,
         handled |-> m.inService, memInhibit |-> save /\ m.pendingDirty,
         shared |-> FALSE]

(* A snoop meets the MSHR of its block.  "handled" is the result of the    *)
(* code: the snoop follows our request on the bus, so the block must not   *)
(* be snooped now.  The other fields are what it asserts on the packet;    *)
(* with memInhibit it promises to answer once the fill has arrived (and    *)
(* marks the packet supplyExclusive).                                      *)
MSHR_handleSnoop(m, cmd, order) ==
    LET upgraded == [m EXCEPT !.targets = IF NeedsExclusive(cmd) /\ ~m.inService
                                          THEN replaceUpgrades(@) ELSE @,
                              !.deferredTargets = IF NeedsExclusive(cmd)
                                                  THEN replaceUpgrades(@) ELSE @]
        follows == m.inService /\ ~m.postInvalidate
        save == follows /\ (m.pendingDirty \/ IsInvalidate(cmd))
        saved == IF save
                 THEN [upgraded EXCEPT
                         !.targets = TargetList_add(@, Target(cmd, "FromSnoop", 0, order)),
                         !.postInvalidate = NeedsExclusive(cmd)]
                 ELSE upgraded
        downgrade == follows /\ ~NeedsExclusive(cmd)
    IN  [mshr |-> IF downgrade THEN [saved EXCEPT !.postDowngrade = TRUE] ELSE saved,
         handled |-> m.inService,
         memInhibit |-> save /\ m.pendingDirty,
         shared |-> downgrade]

(* The deferred targets become the targets of a new transaction.           *)
promoteDeferredTargets(m) ==
    LET first == Head(m.deferredTargets.list)
    IN  [m EXCEPT !.targets = m.deferredTargets,
                  !.deferredTargets = EmptyTargets,
                  !.order = first.order, !.readyTime = first.readyTime]

(* Faulty form: a downgrade pending on the block is not considered.        *)
FillIgnoresDowngrade(m, shared) ==
    ~shared /\ ~m.postInvalidate /\ m.deferredTargets.needsExclusive

(* An exclusive response satisfies deferred writes as well, unless a snoop *)
(* has already claimed the block.                                          *)
FillTakesDeferred(m, shared) ==
    /\ ~shared /\ ~m.postInvalidate /\ ~m.postDowngrade
    /\ m.deferredTargets.needsExclusive

MSHR_handleFill(m, shared) ==
    IF FillTakesDeferred(m, shared)
    THEN [m EXCEPT !.targets.list = @ \o m.deferredTargets.list,
                   !.targets.needsExclusive = TRUE,
                   !.deferredTargets = EmptyTargets]
    ELSE m
=============================================================================
