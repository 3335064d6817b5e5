----------------------------- MODULE MSHR_proofs -----------------------------
(***************************************************************************)
(* Lemmas about the operations of a miss status holding register: each     *)
(* keeps the invariant RegisterOK of one register, from which the          *)
(* properties of the queue's registers follow.                             *)
(***************************************************************************)
EXTENDS MSHR, Integers, FiniteSetTheorems, TLAPS

Commands == {"ReadReq", "WriteReq", "UpgradeReq", "ReadExReq", "HardPFReq"}
Sources == {"FromCPU", "FromPrefetcher", "FromSnoop"}
Targets == [cmd : Commands, source : Sources, readyTime : Nat, order : Nat]
TargetLists == [list : Seq(Targets), needsExclusive : BOOLEAN, hasUpgrade : BOOLEAN]
Registers(A) ==
    [blkAddr : A, order : Nat, readyTime : Nat, inService : BOOLEAN,
     isForward : BOOLEAN, pendingDirty : BOOLEAN, postInvalidate : BOOLEAN,
     postDowngrade : BOOLEAN, targets : TargetLists, deferredTargets : TargetLists]

(* The requests of the CPU side in the list are older than ord, and older  *)
(* ones are first.                                                         *)
Below(l, ord) == \A k \in DOMAIN l : l[k].order < ord
Ordered(l) ==
    \A j, k \in DOMAIN l :
        j < k /\ l[j].source = "FromCPU" /\ l[k].source = "FromCPU"
            => l[j].order < l[k].order
Precedes(l, r) ==
    \A j \in DOMAIN l, k \in DOMAIN r :
        l[j].source = "FromCPU" /\ r[k].source = "FromCPU" => l[j].order < r[k].order

NoSnoop(l) == \A k \in DOMAIN l : l[k].source # "FromSnoop"
NoUpgrade(l) == \A k \in DOMAIN l : l[k].cmd # "UpgradeReq"
NoPrefetch(l) == \A k \in DOMAIN l : l[k].cmd # "HardPFReq"

(* The flags remember what the list of the saved snoops holds.             *)
Remembered(m) ==
    m.inService =>
        \A k \in DOMAIN m.targets.list :
            m.targets.list[k].source = "FromSnoop" =>
                IF NeedsExclusive(m.targets.list[k].cmd) THEN m.postInvalidate
                                                         ELSE m.postDowngrade

InEffect(l) ==
    \A j, k \in DOMAIN l :
        j < k /\ l[j].source = "FromSnoop" /\ l[k].source = "FromCPU"
            => ~NeedsExclusive(l[j].cmd) /\ ~NeedsExclusive(l[k].cmd)

(* A register that is not in service defers nothing and has met no snoop   *)
(* it had to save.                                                         *)
Plain(m) == ~m.inService => NoSnoop(m.targets.list) /\ m.deferredTargets = EmptyTargets

(* The deferred targets come from the CPU side, and their flags are not    *)
(* behind them.                                                            *)
Summarised(l) ==
    /\ NoSnoop(l.list) /\ NoPrefetch(l.list)
    /\ l.list = <<>> => IsReset(l)
    /\ l.hasUpgrade \/ NoUpgrade(l.list)

(* Why a target was deferred, and that a transaction that asked for an     *)
(* exclusive copy, or was promised one, is known to.                       *)
Claims(m) ==
    m.inService =>
        /\ m.targets.needsExclusive => m.pendingDirty
        /\ m.deferredTargets.list # <<>> =>
               ~m.pendingDirty \/ m.postInvalidate \/ m.postDowngrade \/ m.isForward

Fresh(m) == m.inService /\ m.postInvalidate => NoUpgrade(m.deferredTargets.list)

InOrder(m, ord) ==
    /\ Below(m.targets.list, ord) /\ Below(m.deferredTargets.list, ord)
    /\ Ordered(m.targets.list) /\ Ordered(m.deferredTargets.list)
    /\ Precedes(m.targets.list, m.deferredTargets.list)

RegisterOK(m, ord) ==
    /\ InOrder(m, ord) /\ InEffect(m.targets.list) /\ Remembered(m)
    /\ Plain(m) /\ Summarised(m.deferredTargets) /\ Claims(m) /\ Fresh(m)

-----------------------------------------------------------------------------
(* The list after a target has joined it.                                  *)
LEMMA AppendFacts ==
    ASSUME NEW S, NEW l \in Seq(S), NEW t \in S
    PROVE  /\ Append(l, t) \in Seq(S) /\ Append(l, t) # <<>>
           /\ Len(l) \in Nat /\ DOMAIN l = 1 .. Len(l)
           /\ DOMAIN Append(l, t) = 1 .. Len(l) + 1
           /\ \A k \in 1 .. Len(l) + 1 :
                  /\ k # Len(l) + 1 => k \in DOMAIN l /\ Append(l, t)[k] = l[k]
                  /\ k = Len(l) + 1 => Append(l, t)[k] = t
  OBVIOUS

(* The list after its first target has left it.                            *)
LEMMA TailFacts ==
    ASSUME NEW S, NEW l \in Seq(S), l # <<>>
    PROVE  /\ Tail(l) \in Seq(S) /\ Head(l) = l[1] /\ l[1] \in S /\ 1 \in DOMAIN l
           /\ \A k \in DOMAIN Tail(l) :
                  k \in Nat /\ k + 1 \in DOMAIN l /\ Tail(l)[k] = l[k + 1]
  OBVIOUS

(* The fields of a list and of its targets.                                *)
LEMMA ListFacts ==
    ASSUME NEW l \in TargetLists
    PROVE  /\ l.list \in Seq(Targets)
           /\ l.needsExclusive \in BOOLEAN /\ l.hasUpgrade \in BOOLEAN
           /\ l = [list |-> l.list, needsExclusive |-> l.needsExclusive,
                   hasUpgrade |-> l.hasUpgrade]
           /\ Len(l.list) \in Nat /\ DOMAIN l.list = 1 .. Len(l.list)
           /\ \A k \in DOMAIN l.list : /\ l.list[k] \in Targets
                                       /\ l.list[k].cmd \in Commands
                                       /\ l.list[k].source \in Sources
                                       /\ l.list[k].order \in Nat
                                       /\ l.list[k].readyTime \in Nat
<1>1. /\ l.list \in Seq(Targets)
      /\ l.needsExclusive \in BOOLEAN /\ l.hasUpgrade \in BOOLEAN
      /\ l = [list |-> l.list, needsExclusive |-> l.needsExclusive,
              hasUpgrade |-> l.hasUpgrade]
  BY DEF TargetLists
<1>2. Len(l.list) \in Nat /\ DOMAIN l.list = 1 .. Len(l.list)
  BY <1>1
<1>3. \A k \in DOMAIN l.list : l.list[k] \in Targets
  BY <1>1, <1>2
<1> QED BY <1>1, <1>2, <1>3 DEF Targets

(* The fields of a register.                                               *)
LEMMA RegisterFacts ==
    ASSUME NEW A, NEW m \in Registers(A)
    PROVE  /\ m.blkAddr \in A /\ m.order \in Nat /\ m.readyTime \in Nat
           /\ m.inService \in BOOLEAN /\ m.isForward \in BOOLEAN
           /\ m.pendingDirty \in BOOLEAN /\ m.postInvalidate \in BOOLEAN
           /\ m.postDowngrade \in BOOLEAN
           /\ m.targets \in TargetLists /\ m.deferredTargets \in TargetLists
  BY DEF Registers

(* What TargetList::add makes of a list.                                   *)
LEMMA AddFacts ==
    ASSUME NEW l \in TargetLists, NEW t \in Targets
    PROVE  /\ TargetList_add(l, t) \in TargetLists
           /\ TargetList_add(l, t).list = Append(l.list, t)
           /\ TargetList_add(l, t).list # <<>>
           /\ DOMAIN TargetList_add(l, t).list = 1 .. Len(l.list) + 1
           /\ TargetList_add(l, t).list[Len(l.list) + 1] = t
           /\ \A k \in DOMAIN l.list : TargetList_add(l, t).list[k] = l.list[k]
           /\ \A k \in DOMAIN TargetList_add(l, t).list :
                  \/ k \in DOMAIN l.list /\ TargetList_add(l, t).list[k] = l.list[k]
                  \/ TargetList_add(l, t).list[k] = t
           /\ TargetList_add(l, t).needsExclusive <=>
                l.needsExclusive \/ (t.source # "FromSnoop" /\ NeedsExclusive(t.cmd))
           /\ TargetList_add(l, t).hasUpgrade <=>
                l.hasUpgrade \/ (t.source # "FromSnoop" /\ t.cmd = "UpgradeReq")
<1>1. Append(l.list, t) \in Seq(Targets)
  BY ListFacts, AppendFacts
<1>2. /\ TargetList_add(l, t) \in TargetLists
      /\ TargetList_add(l, t).list = Append(l.list, t)
      /\ TargetList_add(l, t).needsExclusive <=>
                l.needsExclusive \/ (t.source # "FromSnoop" /\ NeedsExclusive(t.cmd))
      /\ TargetList_add(l, t).hasUpgrade <=>
                l.hasUpgrade \/ (t.source # "FromSnoop" /\ t.cmd = "UpgradeReq")
  BY <1>1, ListFacts DEF TargetList_add, TargetLists, IsUpgrade, NeedsExclusive
<1>3. /\ l.list \in Seq(Targets) /\ Len(l.list) \in Nat
      /\ DOMAIN l.list = 1 .. Len(l.list)
  BY ListFacts
<1>4. /\ Append(l.list, t) # <<>>
      /\ DOMAIN Append(l.list, t) = 1 .. Len(l.list) + 1
      /\ Append(l.list, t)[Len(l.list) + 1] = t
      /\ \A k \in DOMAIN l.list : Append(l.list, t)[k] = l.list[k]
      /\ \A k \in DOMAIN Append(l.list, t) :
             k \in DOMAIN l.list \/ Append(l.list, t)[k] = t
  BY <1>3, AppendFacts
<1> QED BY <1>2, <1>4

(* A free register.                                                        *)
LEMMA FreeFacts ==
    /\ EmptyTargets \in TargetLists /\ EmptyTargets.list = <<>> /\ IsReset(EmptyTargets)
    /\ \A A : "none" \in A => FreeMSHR \in Registers(A)
    /\ ~FreeMSHR.inService
<1>1. <<>> \in Seq(Targets)
  OBVIOUS
<1>2. EmptyTargets \in TargetLists /\ EmptyTargets.list = <<>> /\ IsReset(EmptyTargets)
  BY <1>1 DEF EmptyTargets, TargetLists, IsReset
<1> QED BY <1>2 DEF FreeMSHR, Registers

(* The parts of RegisterOK about order survive a target of any source at   *)
(* the end of a list, with the next number.                                *)
LEMMA AddInOrder ==
    ASSUME NEW l \in TargetLists, NEW t \in Targets, NEW ord \in Nat, t.order = ord,
           Below(l.list, ord), Ordered(l.list)
    PROVE  /\ Below(TargetList_add(l, t).list, ord + 1)
           /\ Ordered(TargetList_add(l, t).list)
<1> DEFINE r == TargetList_add(l, t).list
           n == Len(l.list)
<1>1. /\ n \in Nat /\ DOMAIN l.list = 1 .. n /\ DOMAIN r = 1 .. n + 1 /\ r[n + 1] = t
      /\ \A k \in 1 .. n : r[k] = l.list[k]
  BY AddFacts, ListFacts, AppendFacts
<1>2. \A k \in 1 .. n : l.list[k].order \in Nat /\ l.list[k].order < ord
  BY <1>1, ListFacts DEF Below
<1> HIDE DEF r, n
<1>3. Below(r, ord + 1)
  BY <1>1, <1>2 DEF Below
<1>4. ASSUME NEW j \in 1 .. n + 1, NEW k \in 1 .. n + 1, j < k,
             r[j].source = "FromCPU", r[k].source = "FromCPU"
      PROVE  r[j].order < r[k].order
  <2>1. j \in 1 .. n /\ r[j] = l.list[j]
    BY <1>1, <1>4
  <2>2. CASE k = n + 1
    BY <1>1, <1>2, <2>1, <2>2
  <2>3. CASE k # n + 1
    <3>1. k \in 1 .. n /\ r[k] = l.list[k]
      BY <1>1, <2>3
    <3> QED BY <1>1, <1>4, <2>1, <3>1 DEF Ordered
  <2> QED BY <2>2, <2>3
<1>5. Ordered(r)
  BY <1>1, <1>4 DEF Ordered
<1> QED BY <1>3, <1>5 DEF r

(* A target that comes after those of the one list may join the other.     *)
LEMMA AddPrecedes ==
    ASSUME NEW l \in TargetLists, NEW r \in TargetLists, NEW t \in Targets,
           Precedes(l.list, r.list)
    PROVE  /\ Below(l.list, t.order) => Precedes(l.list, TargetList_add(r, t).list)
           /\ r.list = <<>> \/ t.source # "FromCPU"
                => Precedes(TargetList_add(l, t).list, r.list)
<1>1. /\ Len(l.list) \in Nat /\ DOMAIN l.list = 1 .. Len(l.list)
      /\ Len(r.list) \in Nat /\ DOMAIN r.list = 1 .. Len(r.list)
  BY ListFacts
<1>2. /\ TargetList_add(l, t).list = Append(l.list, t)
      /\ TargetList_add(r, t).list = Append(r.list, t)
  BY AddFacts
<1>3. Below(l.list, t.order) => Precedes(l.list, Append(r.list, t))
  <2>1. \A k \in DOMAIN Append(r.list, t) :
            \/ k \in DOMAIN r.list /\ Append(r.list, t)[k] = r.list[k]
            \/ Append(r.list, t)[k] = t
    BY ListFacts, AppendFacts
  <2> QED BY <2>1 DEF Precedes, Below
<1>4. r.list = <<>> \/ t.source # "FromCPU" => Precedes(Append(l.list, t), r.list)
  <2>1. \A k \in DOMAIN Append(l.list, t) :
            \/ k \in DOMAIN l.list /\ Append(l.list, t)[k] = l.list[k]
            \/ Append(l.list, t)[k] = t
    BY ListFacts, AppendFacts
  <2>2. CASE r.list = <<>>
    BY <1>1, <2>2 DEF Precedes
  <2>3. CASE t.source # "FromCPU"
    BY <2>1, <2>3 DEF Precedes
  <2> QED BY <2>2, <2>3
<1> QED BY <1>2, <1>3, <1>4

(* replaceUpgrades changes nothing but the command of upgrades.            *)
LEMMA ReplaceFacts ==
    ASSUME NEW l \in TargetLists
    PROVE  /\ replaceUpgrades(l) \in TargetLists
           /\ replaceUpgrades(l).needsExclusive = l.needsExclusive
           /\ ~replaceUpgrades(l).hasUpgrade
           /\ DOMAIN replaceUpgrades(l).list = DOMAIN l.list
           /\ replaceUpgrades(l).list = <<>> <=> l.list = <<>>
           /\ l.hasUpgrade \/ NoUpgrade(l.list) => NoUpgrade(replaceUpgrades(l).list)
           /\ \A k \in DOMAIN l.list :
                  /\ replaceUpgrades(l).list[k].source = l.list[k].source
                  /\ replaceUpgrades(l).list[k].order = l.list[k].order
                  /\ NeedsExclusive(replaceUpgrades(l).list[k].cmd)
                        <=> NeedsExclusive(l.list[k].cmd)
                  /\ replaceUpgrades(l).list[k].cmd = "HardPFReq"
                        <=> l.list[k].cmd = "HardPFReq"
                  /\ replaceUpgrades(l).list[k].cmd = "WriteReq"
                        <=> l.list[k].cmd = "WriteReq"
<1>1. \A t \in Targets : /\ replaceUpgrade(t) \in Targets
                         /\ replaceUpgrade(t).cmd # "UpgradeReq"
                         /\ replaceUpgrade(t).source = t.source
                         /\ replaceUpgrade(t).order = t.order
                         /\ NeedsExclusive(replaceUpgrade(t).cmd)
                               <=> NeedsExclusive(t.cmd)
                         /\ replaceUpgrade(t).cmd = "HardPFReq" <=> t.cmd = "HardPFReq"
                         /\ replaceUpgrade(t).cmd = "WriteReq" <=> t.cmd = "WriteReq"
  BY DEF replaceUpgrade, Targets, Commands, NeedsExclusive
<1>2. CASE ~l.hasUpgrade
  BY <1>2, ListFacts DEF replaceUpgrades
<1>3. CASE l.hasUpgrade
  <2> DEFINE r == [k \in DOMAIN l.list |-> replaceUpgrade(l.list[k])]
  <2>1. /\ replaceUpgrades(l) = [list |-> r, needsExclusive |-> l.needsExclusive,
                                 hasUpgrade |-> FALSE]
    <3>1. replaceUpgrades(l) = [l EXCEPT !.list = r, !.hasUpgrade = FALSE]
      BY <1>3 DEF replaceUpgrades
    <3> HIDE DEF r
    <3> QED BY <3>1 DEF TargetLists
  <2>2. /\ DOMAIN r = 1 .. Len(l.list)
        /\ \A k \in 1 .. Len(l.list) : r[k] = replaceUpgrade(l.list[k]) /\ r[k] \in Targets
    BY <1>1, ListFacts
  <2>3. r \in [1 .. Len(l.list) -> Targets]
    BY <1>1, ListFacts
  <2> HIDE DEF r
  <2>4. r \in Seq(Targets) /\ Len(r) = Len(l.list)
    BY <2>2, <2>3, ListFacts
  <2>5. r = <<>> <=> l.list = <<>>
    BY <2>2, <2>4, ListFacts
  <2>6. replaceUpgrades(l) \in TargetLists
    BY <2>1, <2>4, ListFacts DEF TargetLists
  <2> QED BY <1>1, <2>1, <2>2, <2>5, <2>6, ListFacts DEF NoUpgrade
<1> QED BY <1>2, <1>3, ListFacts

-----------------------------------------------------------------------------
(* What the lists of the queue depend on.                                  *)
SamePlace(r, m) ==
    r.blkAddr = m.blkAddr /\ r.inService = m.inService /\ r.readyTime = m.readyTime

(* And it is forwarded or filled as before.                                *)
SameForward(r, m) == r.isForward = m.isForward

(* The command of the first target, which tells a prefetch.                *)
FirstCmd(m) == m.targets.list[1].cmd

(* A request that is deferred for a reason keeps the register right.       *)
LEMMA DeferOK ==
    ASSUME NEW A, NEW m \in Registers(A), NEW t \in Targets, NEW ord \in Nat,
           RegisterOK(m, ord), m.inService, t.source = "FromCPU", t.order = ord,
           m.postInvalidate => t.cmd # "UpgradeReq", t.cmd # "HardPFReq",
           \/ m.deferredTargets.list # <<>>
           \/ ~m.pendingDirty \/ m.postInvalidate \/ m.postDowngrade \/ m.isForward,
           NEW r, r = [m EXCEPT !.deferredTargets = TargetList_add(m.deferredTargets, t)]
    PROVE  r \in Registers(A) /\ SamePlace(r, m) /\ RegisterOK(r, ord + 1)
           /\ r.targets = m.targets /\ r.isForward = m.isForward
<1> DEFINE d == m.deferredTargets
           e == TargetList_add(d, t)
<1>1. m.targets \in TargetLists /\ d \in TargetLists /\ e \in TargetLists
  BY RegisterFacts, AddFacts
<1>2. /\ e.list = Append(d.list, t) /\ e.list # <<>>
      /\ \A k \in DOMAIN e.list : (k \in DOMAIN d.list /\ e.list[k] = d.list[k])
                                  \/ e.list[k] = t
      /\ e.hasUpgrade <=> d.hasUpgrade \/ t.cmd = "UpgradeReq"
  BY <1>1, AddFacts, ListFacts
<1> HIDE DEF e
<1>3. /\ r \in Registers(A) /\ r.deferredTargets = e /\ r.targets = m.targets
      /\ r.inService /\ r.pendingDirty = m.pendingDirty /\ r.isForward = m.isForward
      /\ r.postInvalidate = m.postInvalidate /\ r.postDowngrade = m.postDowngrade
      /\ SamePlace(r, m)
  BY <1>1 DEF Registers, SamePlace, e
<1>4. InOrder(r, ord + 1)
  <2>1. /\ Below(m.targets.list, ord) /\ Below(d.list, ord) /\ Ordered(m.targets.list)
        /\ Ordered(d.list) /\ Precedes(m.targets.list, d.list)
    BY DEF RegisterOK, InOrder
  <2>2. Below(e.list, ord + 1) /\ Ordered(e.list)
    BY <1>1, <2>1, AddInOrder DEF e
  <2>3. Precedes(m.targets.list, e.list)
    BY <1>1, <2>1, AddPrecedes DEF e
  <2>4. Below(m.targets.list, ord + 1)
    BY <1>1, <2>1, ListFacts DEF Below
  <2> QED BY <1>3, <2>1, <2>2, <2>3, <2>4 DEF InOrder
<1>5. InEffect(r.targets.list) /\ Remembered(r) /\ Plain(r)
  BY <1>3 DEF RegisterOK, Remembered, Plain
<1>6. Summarised(r.deferredTargets)
  <2>1. NoSnoop(d.list) /\ NoPrefetch(d.list) /\ (d.hasUpgrade \/ NoUpgrade(d.list))
    BY DEF RegisterOK, Summarised
  <2>2. NoSnoop(e.list) /\ NoPrefetch(e.list) /\ (e.hasUpgrade \/ NoUpgrade(e.list))
    BY <1>2, <2>1 DEF NoSnoop, NoUpgrade, NoPrefetch
  <2> QED BY <1>2, <1>3, <2>2 DEF Summarised
<1>7. Claims(r)
  BY <1>2, <1>3 DEF RegisterOK, Claims
<1>8. Fresh(r)
  BY <1>2, <1>3 DEF RegisterOK, Fresh, NoUpgrade
<1> QED BY <1>3, <1>4, <1>5, <1>6, <1>7, <1>8 DEF RegisterOK

(* A request that joins the targets keeps the register right when no snoop *)
(* and no deferred target is in its way.                                   *)
LEMMA JoinOK ==
    ASSUME NEW A, NEW m \in Registers(A), NEW t \in Targets, NEW ord \in Nat,
           RegisterOK(m, ord), t.source = "FromCPU", t.order = ord,
           m.inService =>
               /\ m.deferredTargets.list = <<>> /\ ~m.postInvalidate
               /\ NeedsExclusive(t.cmd) => m.pendingDirty /\ ~m.postDowngrade,
           NEW r, r = [m EXCEPT !.targets = TargetList_add(m.targets, t)]
    PROVE  /\ r \in Registers(A) /\ SamePlace(r, m) /\ RegisterOK(r, ord + 1)
           /\ hasTargets(r) /\ r.isForward = m.isForward
           /\ hasTargets(m) => FirstCmd(r) = FirstCmd(m)
<1> DEFINE d == m.targets
           e == TargetList_add(d, t)
           n == Len(d.list)
<1>1. m.deferredTargets \in TargetLists /\ d \in TargetLists /\ e \in TargetLists
  BY RegisterFacts, AddFacts
<1>2. /\ e.list = Append(d.list, t) /\ e.list # <<>>
      /\ n \in Nat /\ DOMAIN d.list = 1 .. n /\ DOMAIN e.list = 1 .. n + 1
      /\ \A k \in 1 .. n : e.list[k] = d.list[k]
      /\ e.list[n + 1] = t
      /\ e.needsExclusive <=> d.needsExclusive \/ NeedsExclusive(t.cmd)
  <2>1. n \in Nat /\ DOMAIN d.list = 1 .. n
    BY <1>1, ListFacts
  <2>2. /\ e.list = Append(d.list, t) /\ e.list # <<>> /\ DOMAIN e.list = 1 .. n + 1
        /\ \A k \in DOMAIN d.list : e.list[k] = d.list[k]
        /\ e.list[n + 1] = t
    BY <1>1, AddFacts
  <2>3. e.needsExclusive <=> d.needsExclusive \/ NeedsExclusive(t.cmd)
    BY <1>1, AddFacts
  <2> QED BY <2>1, <2>2, <2>3
<1> HIDE DEF e
<1>3. /\ r \in Registers(A) /\ r.deferredTargets = m.deferredTargets /\ r.targets = e
      /\ r.inService = m.inService /\ r.pendingDirty = m.pendingDirty
      /\ r.isForward = m.isForward
      /\ r.postInvalidate = m.postInvalidate /\ r.postDowngrade = m.postDowngrade
      /\ SamePlace(r, m)
  BY <1>1 DEF Registers, SamePlace, e
<1>4. m.deferredTargets.list = <<>>
  BY DEF RegisterOK, Plain, EmptyTargets
<1>5. InOrder(r, ord + 1)
  <2>1. /\ Below(d.list, ord) /\ Ordered(d.list) /\ Ordered(m.deferredTargets.list)
        /\ Below(m.deferredTargets.list, ord) /\ Precedes(d.list, m.deferredTargets.list)
    BY DEF RegisterOK, InOrder
  <2>2. Below(e.list, ord + 1) /\ Ordered(e.list)
    BY <1>1, <2>1, AddInOrder DEF e
  <2>3. Precedes(e.list, m.deferredTargets.list)
    BY <1>1, <1>4, <2>1, AddPrecedes DEF e
  <2>4. Below(m.deferredTargets.list, ord + 1)
    BY <1>1, <2>1, ListFacts DEF Below
  <2> QED BY <1>3, <2>1, <2>2, <2>3, <2>4 DEF InOrder
<1>6. ASSUME NEW j \in 1 .. n, d.list[j].source = "FromSnoop"
      PROVE  ~NeedsExclusive(d.list[j].cmd) /\ ~NeedsExclusive(t.cmd)
  <2>1. m.inService
    BY <1>2, <1>6 DEF RegisterOK, Plain, NoSnoop
  <2>2. IF NeedsExclusive(d.list[j].cmd) THEN m.postInvalidate ELSE m.postDowngrade
    BY <1>2, <1>6, <2>1 DEF RegisterOK, Remembered
  <2> QED BY <2>1, <2>2
<1>7. InEffect(r.targets.list)
  <2> SUFFICES ASSUME NEW j \in 1 .. n + 1, NEW k \in 1 .. n + 1, j < k,
                      e.list[j].source = "FromSnoop", e.list[k].source = "FromCPU"
               PROVE  ~NeedsExclusive(e.list[j].cmd) /\ ~NeedsExclusive(e.list[k].cmd)
    <3>1. r.targets.list = e.list /\ DOMAIN e.list = 1 .. n + 1
      BY <1>2, <1>3
    <3> HIDE DEF n
    <3> QED BY <3>1 DEF InEffect
  <2>1. j \in 1 .. n /\ e.list[j] = d.list[j]
    BY <1>2
  <2>2. CASE k = n + 1
    BY <1>2, <1>6, <2>1, <2>2
  <2>3. CASE k # n + 1
    <3>1. k \in 1 .. n /\ e.list[k] = d.list[k]
      BY <1>2, <2>3
    <3> QED BY <1>2, <2>1, <3>1 DEF RegisterOK, InEffect
  <2> QED BY <2>2, <2>3
<1>8. Remembered(r) /\ Plain(r)
  <2>1. \A k \in DOMAIN e.list : (k \in DOMAIN d.list /\ e.list[k] = d.list[k])
                                 \/ e.list[k] = t
    BY <1>2
  <2> QED BY <1>3, <2>1 DEF RegisterOK, Remembered, Plain, NoSnoop
<1>9. Summarised(r.deferredTargets) /\ Fresh(r)
  BY <1>3 DEF RegisterOK, Fresh
<1>10. Claims(r)
  BY <1>2, <1>3, <1>4 DEF RegisterOK, Claims
<1>11. hasTargets(m) => FirstCmd(r) = FirstCmd(m)
  <2>1. d.list # <<>> => 1 \in 1 .. n
    BY <1>1, <1>2, ListFacts
  <2> QED BY <1>2, <1>3, <2>1 DEF hasTargets, FirstCmd
<1> QED BY <1>2, <1>3, <1>5, <1>7, <1>8, <1>9, <1>10, <1>11 DEF RegisterOK, hasTargets

-----------------------------------------------------------------------------
(* A request of the CPU side that meets the register of its block, in      *)
(* whatever state, leaves it right.                                        *)
LEMMA AllocateTargetOK ==
    ASSUME NEW A, NEW m \in Registers(A), NEW cmd \in Commands \ {"HardPFReq"},
           NEW when \in Nat, NEW ord \in Nat, RegisterOK(m, ord), hasTargets(m)
    PROVE  /\ MSHR_allocateTarget(m, cmd, when, ord) \in Registers(A)
           /\ SamePlace(MSHR_allocateTarget(m, cmd, when, ord), m)
           /\ RegisterOK(MSHR_allocateTarget(m, cmd, when, ord), ord + 1)
           /\ hasTargets(MSHR_allocateTarget(m, cmd, when, ord))
           /\ MSHR_allocateTarget(m, cmd, when, ord).isForward = m.isForward
           /\ FirstCmd(MSHR_allocateTarget(m, cmd, when, ord)) = FirstCmd(m)
<1> DEFINE t == Target(cmd, "FromCPU", when, ord)
           u == IF m.postInvalidate THEN replaceUpgrade(t) ELSE t
           defer == /\ m.inService
                    /\ \/ m.deferredTargets.list # <<>>
                       \/ m.postInvalidate
                       \/ /\ NeedsExclusive(cmd)
                          /\ (~m.pendingDirty \/ m.postDowngrade \/ m.isForward)
<1>1. t \in Targets /\ t.source = "FromCPU" /\ t.order = ord /\ t.cmd = cmd
  BY DEF Target, Targets, Sources
<1>2. /\ u \in Targets /\ u.source = "FromCPU" /\ u.order = ord
      /\ m.postInvalidate => u.cmd # "UpgradeReq"
      /\ u.cmd # "HardPFReq"
  BY <1>1 DEF replaceUpgrade, Targets, Commands
<1> HIDE DEF t, u
<1>3. CASE defer
  <2>1. MSHR_allocateTarget(m, cmd, when, ord) =
            [m EXCEPT !.deferredTargets = TargetList_add(m.deferredTargets, u)]
    BY <1>3 DEF MSHR_allocateTarget, t, u
  <2>2. \/ m.deferredTargets.list # <<>>
        \/ ~m.pendingDirty \/ m.postInvalidate \/ m.postDowngrade \/ m.isForward
    BY <1>3
  <2> QED BY <1>2, <1>3, <2>1, <2>2, DeferOK DEF hasTargets, FirstCmd
<1>4. CASE ~defer
  <2>1. MSHR_allocateTarget(m, cmd, when, ord) =
            [m EXCEPT !.targets = TargetList_add(m.targets, t)]
    BY <1>4 DEF MSHR_allocateTarget, t
  <2>2. m.inService =>
            /\ m.deferredTargets.list = <<>> /\ ~m.postInvalidate
            /\ NeedsExclusive(t.cmd) => m.pendingDirty /\ ~m.postDowngrade
    BY <1>1, <1>4
  <2> DEFINE r == MSHR_allocateTarget(m, cmd, when, ord)
  <2> HIDE DEF r
  <2>3. r = [m EXCEPT !.targets = TargetList_add(m.targets, t)]
    BY <2>1 DEF r
  <2>4. /\ r \in Registers(A) /\ SamePlace(r, m) /\ RegisterOK(r, ord + 1)
        /\ hasTargets(r) /\ r.isForward = m.isForward
        /\ hasTargets(m) => FirstCmd(r) = FirstCmd(m)
    BY ONLY m \in Registers(A), ord \in Nat, RegisterOK(m, ord), <1>1, <2>2, <2>3, JoinOK
  <2> QED BY <2>4 DEF r
<1> QED BY <1>3, <1>4

(* A new register has the one target it was allocated for.                 *)
LEMMA AllocateOK ==
    ASSUME NEW A, NEW blk \in A, NEW cmd \in Commands, NEW when \in Nat, NEW ord \in Nat
    PROVE  /\ MSHR_allocate(blk, cmd, when, ord) \in Registers(A)
           /\ MSHR_allocate(blk, cmd, when, ord).blkAddr = blk
           /\ ~MSHR_allocate(blk, cmd, when, ord).inService
           /\ RegisterOK(MSHR_allocate(blk, cmd, when, ord), ord + 1)
           /\ hasTargets(MSHR_allocate(blk, cmd, when, ord))
           /\ MSHR_allocate(blk, cmd, when, ord).readyTime = when
           /\ ~MSHR_allocate(blk, cmd, when, ord).isForward
           /\ MSHR_allocate(blk, cmd, when, ord).deferredTargets = EmptyTargets
           /\ MSHR_allocate(blk, cmd, when, ord).order = ord
           /\ FirstCmd(MSHR_allocate(blk, cmd, when, ord)) = cmd
<1> DEFINE source == IF cmd = "HardPFReq" THEN "FromPrefetcher" ELSE "FromCPU"
           t == Target(cmd, source, when, ord)
           l == TargetList_add(EmptyTargets, t)
           m == MSHR_allocate(blk, cmd, when, ord)
<1>1. t \in Targets /\ t.source # "FromSnoop" /\ t.order = ord /\ t.cmd = cmd
  BY DEF Target, Targets, Sources
<1> HIDE DEF t
<1>2. /\ l \in TargetLists /\ l.list # <<>>
      /\ \A k \in DOMAIN l.list : l.list[k] = t \/ k \in DOMAIN EmptyTargets.list
  BY <1>1, AddFacts, FreeFacts
<1>3. DOMAIN EmptyTargets.list = {} /\ EmptyTargets.list = <<>>
  BY DEF EmptyTargets
<1>4. \A k \in DOMAIN l.list : l.list[k] = t
  BY <1>2, <1>3
<1>11. 1 \in DOMAIN l.list
  BY <1>2, ListFacts
<1>5. Below(l.list, ord + 1) /\ Ordered(l.list)
  <2>1. Below(EmptyTargets.list, ord) /\ Ordered(EmptyTargets.list)
    BY <1>3 DEF Below, Ordered
  <2> QED BY <1>1, <2>1, AddInOrder, FreeFacts
<1> HIDE DEF l
<1>6. m = [FreeMSHR EXCEPT !.blkAddr = blk, !.order = ord, !.readyTime = when,
                           !.targets = l]
  BY DEF MSHR_allocate, l, t
<1>7. /\ m \in Registers(A) /\ m.blkAddr = blk /\ ~m.inService
      /\ m.readyTime = when /\ ~m.isForward /\ m.order = ord
      /\ m.targets = l /\ m.deferredTargets = EmptyTargets
  BY <1>2, <1>6, FreeFacts DEF FreeMSHR, Registers
<1> HIDE DEF m
<1>8. InOrder(m, ord + 1)
  BY <1>3, <1>5, <1>7 DEF InOrder, Below, Ordered, Precedes
<1>9. NoSnoop(l.list) /\ InEffect(l.list)
  BY <1>1, <1>4 DEF NoSnoop, InEffect
<1>10. Summarised(m.deferredTargets)
  BY <1>3, <1>7, FreeFacts DEF Summarised, NoSnoop, NoUpgrade, NoPrefetch
<1>12. FirstCmd(m) = cmd
  BY <1>1, <1>4, <1>7, <1>11 DEF FirstCmd
<1> QED BY <1>2, <1>7, <1>8, <1>9, <1>10, <1>12 DEF m, RegisterOK, Remembered, Plain,
                                                    Claims, Fresh, hasTargets

(* The request of a register is taken by the bus.                          *)
LEMMA MarkInServiceOK ==
    ASSUME NEW A, NEW m \in Registers(A), NEW ord \in Nat, RegisterOK(m, ord),
           ~m.inService, NEW fwd \in BOOLEAN, NEW pd \in BOOLEAN, NEW f,
           f = [m EXCEPT !.isForward = fwd]
    PROVE  /\ MSHR_markInService(f, pd) \in Registers(A)
           /\ MSHR_markInService(f, pd).blkAddr = m.blkAddr
           /\ MSHR_markInService(f, pd).inService
           /\ RegisterOK(MSHR_markInService(f, pd), ord)
           /\ MSHR_markInService(f, pd).targets = m.targets
           /\ MSHR_markInService(f, pd).deferredTargets = m.deferredTargets
           /\ MSHR_markInService(f, pd).isForward = fwd
<1> DEFINE r == MSHR_markInService(f, pd)
<1>1. /\ f \in Registers(A) /\ f.blkAddr = m.blkAddr /\ f.targets = m.targets
      /\ f.deferredTargets = m.deferredTargets /\ f.isForward = fwd
  BY DEF Registers
<1>2. /\ m.targets \in TargetLists /\ m.targets.needsExclusive \in BOOLEAN
  BY RegisterFacts, ListFacts
<1>3. /\ r \in Registers(A) /\ r.blkAddr = m.blkAddr /\ r.inService
      /\ r.targets = m.targets /\ r.deferredTargets = m.deferredTargets
      /\ ~r.postInvalidate /\ ~r.postDowngrade /\ r.isForward = fwd
      /\ r.pendingDirty <=> m.targets.needsExclusive \/ pd
  BY <1>1, <1>2 DEF MSHR_markInService, Registers
<1> HIDE DEF r
<1>4. m.deferredTargets = EmptyTargets /\ NoSnoop(m.targets.list)
      /\ m.deferredTargets.list = <<>>
  BY DEF RegisterOK, Plain, EmptyTargets
<1>5. InOrder(r, ord) /\ InEffect(r.targets.list) /\ Summarised(r.deferredTargets)
  BY <1>3 DEF RegisterOK, InOrder
<1>6. Remembered(r) /\ Plain(r) /\ Claims(r) /\ Fresh(r)
  BY <1>3, <1>4 DEF Remembered, NoSnoop, Plain, Claims, Fresh
<1> QED BY <1>3, <1>5, <1>6 DEF RegisterOK, r

(* The parts about order and effect of a list that replaceUpgrades has     *)
(* gone through.                                                           *)
LEMMA ReplaceKeeps ==
    ASSUME NEW l \in TargetLists, NEW o \in TargetLists, NEW ord
    PROVE  /\ Below(l.list, ord) => Below(replaceUpgrades(l).list, ord)
           /\ Ordered(l.list) => Ordered(replaceUpgrades(l).list)
           /\ Precedes(l.list, o.list) => Precedes(replaceUpgrades(l).list, o.list)
           /\ Precedes(o.list, l.list) => Precedes(o.list, replaceUpgrades(l).list)
           /\ NoSnoop(l.list) => NoSnoop(replaceUpgrades(l).list)
           /\ Summarised(l) => Summarised(replaceUpgrades(l))
<1> DEFINE r == replaceUpgrades(l).list
<1>1. /\ DOMAIN r = DOMAIN l.list
      /\ \A k \in DOMAIN l.list : /\ r[k].source = l.list[k].source
                                  /\ r[k].order = l.list[k].order
                                  /\ r[k].cmd = "HardPFReq" <=> l.list[k].cmd = "HardPFReq"
  BY ReplaceFacts
<1> HIDE DEF r
<1>2. /\ Below(l.list, ord) => Below(r, ord)
      /\ NoSnoop(l.list) => NoSnoop(r)
      /\ NoPrefetch(l.list) => NoPrefetch(r)
  BY <1>1 DEF Below, NoSnoop, NoPrefetch
<1>3. /\ Ordered(l.list) => Ordered(r)
      /\ Precedes(l.list, o.list) => Precedes(r, o.list)
      /\ Precedes(o.list, l.list) => Precedes(o.list, r)
  BY <1>1 DEF Ordered, Precedes
<1>4. Summarised(l) => Summarised(replaceUpgrades(l))
  <2>1. Summarised(l) => NoUpgrade(r) /\ ~replaceUpgrades(l).hasUpgrade
                         /\ (r = <<>> <=> l.list = <<>>)
                         /\ replaceUpgrades(l).needsExclusive = l.needsExclusive
    BY ReplaceFacts DEF Summarised, r
  <2> QED BY <1>2, <2>1 DEF Summarised, IsReset, r
<1> QED BY <1>2, <1>3, <1>4 DEF r

(* A snoop that has to be answered, or take effect, after the fill.        *)
Saves(m, cmd) ==
    m.inService /\ ~m.postInvalidate /\ (m.pendingDirty \/ IsInvalidate(cmd))

(* The register that handleSnoop leaves, field by field.                   *)
LEMMA SnoopFacts ==
    ASSUME NEW A, NEW m \in Registers(A), NEW cmd \in Commands, NEW ord \in Nat,
           NEW r, r = MSHR_handleSnoop(m, cmd, ord).mshr
    PROVE  /\ r \in Registers(A) /\ SamePlace(r, m)
           /\ r.isForward = m.isForward /\ r.pendingDirty = m.pendingDirty
           /\ r.deferredTargets = IF NeedsExclusive(cmd)
                                  THEN replaceUpgrades(m.deferredTargets)
                                  ELSE m.deferredTargets
           /\ r.targets = IF Saves(m, cmd)
                          THEN TargetList_add(m.targets, Target(cmd, "FromSnoop", 0, ord))
                          ELSE IF NeedsExclusive(cmd) /\ ~m.inService
                               THEN replaceUpgrades(m.targets) ELSE m.targets
           /\ r.postInvalidate <=> IF Saves(m, cmd) THEN NeedsExclusive(cmd)
                                                  ELSE m.postInvalidate
           /\ r.postDowngrade <=>
                  m.postDowngrade \/ (/\ m.inService /\ ~m.postInvalidate
                                      /\ ~NeedsExclusive(cmd))
<1> DEFINE t == Target(cmd, "FromSnoop", 0, ord)
           d == IF NeedsExclusive(cmd) THEN replaceUpgrades(m.deferredTargets)
                                       ELSE m.deferredTargets
           u == IF NeedsExclusive(cmd) /\ ~m.inService
                THEN replaceUpgrades(m.targets) ELSE m.targets
           upgraded == [m EXCEPT !.targets = u, !.deferredTargets = d]
           saved == IF Saves(m, cmd) THEN [upgraded EXCEPT !.targets = TargetList_add(u, t),
                                                  !.postInvalidate = NeedsExclusive(cmd)]
                            ELSE upgraded
           downgrade == m.inService /\ ~m.postInvalidate /\ ~NeedsExclusive(cmd)
<1>1. t \in Targets
  BY DEF Target, Targets, Sources
<1>2. d \in TargetLists /\ u \in TargetLists
  BY RegisterFacts, ReplaceFacts
<1>3. TargetList_add(u, t) \in TargetLists
  BY <1>1, <1>2, AddFacts
<1>4. NeedsExclusive(cmd) \in BOOLEAN /\ Saves(m, cmd) \in BOOLEAN /\ downgrade \in BOOLEAN
  BY DEF NeedsExclusive, Saves
<1>5. Saves(m, cmd) => u = m.targets
  BY DEF Saves
<1>6. r = IF downgrade THEN [saved EXCEPT !.postDowngrade = TRUE] ELSE saved
  BY DEF MSHR_handleSnoop, Saves
<1> HIDE DEF t, d, u, downgrade
<1>7. /\ upgraded \in Registers(A) /\ SamePlace(upgraded, m)
      /\ upgraded.isForward = m.isForward /\ upgraded.pendingDirty = m.pendingDirty
      /\ upgraded.targets = u /\ upgraded.deferredTargets = d
      /\ upgraded.postInvalidate = m.postInvalidate
      /\ upgraded.postDowngrade = m.postDowngrade
  BY <1>2 DEF Registers, SamePlace
<1> HIDE DEF upgraded
<1>8. /\ saved \in Registers(A) /\ SamePlace(saved, m)
      /\ saved.isForward = m.isForward /\ saved.pendingDirty = m.pendingDirty
      /\ saved.deferredTargets = d
      /\ saved.targets = IF Saves(m, cmd) THEN TargetList_add(u, t) ELSE u
      /\ saved.postInvalidate <=> IF Saves(m, cmd) THEN NeedsExclusive(cmd)
                                                  ELSE m.postInvalidate
      /\ saved.postDowngrade = m.postDowngrade
  BY <1>3, <1>4, <1>7 DEF Registers, SamePlace
<1> HIDE DEF saved
<1>9. /\ r \in Registers(A) /\ SamePlace(r, m)
      /\ r.isForward = m.isForward /\ r.pendingDirty = m.pendingDirty
      /\ r.deferredTargets = d
      /\ r.targets = IF Saves(m, cmd) THEN TargetList_add(u, t) ELSE u
      /\ r.postInvalidate <=> IF Saves(m, cmd) THEN NeedsExclusive(cmd)
                                                  ELSE m.postInvalidate
      /\ r.postDowngrade <=> m.postDowngrade \/ downgrade
  BY <1>4, <1>6, <1>8 DEF Registers, SamePlace
<1> QED BY <1>5, <1>9 DEF d, u, t, downgrade

(* A snoop leaves the register of its block right, whether it comes before *)
(* our request (the register is not in service) or after it.               *)
LEMMA HandleSnoopOK ==
    ASSUME NEW A, NEW m \in Registers(A), NEW cmd \in Commands \ {"HardPFReq", "WriteReq"},
           NEW ord \in Nat, RegisterOK(m, ord), hasTargets(m),
           NEW r, r = MSHR_handleSnoop(m, cmd, ord).mshr
    PROVE  /\ r \in Registers(A) /\ SamePlace(r, m) /\ RegisterOK(r, ord + 1) /\ hasTargets(r)
           /\ r.isForward = m.isForward
           /\ r.deferredTargets.list = <<>> <=> m.deferredTargets.list = <<>>
           /\ FirstCmd(r) = "HardPFReq" <=> FirstCmd(m) = "HardPFReq"
<1> DEFINE t == Target(cmd, "FromSnoop", 0, ord)
           d == m.deferredTargets
           n == Len(m.targets.list)
<1>1. t \in Targets /\ t.source = "FromSnoop" /\ t.cmd = cmd /\ t.order = ord
  BY DEF Target, Targets, Sources
<1>2. m.targets \in TargetLists /\ d \in TargetLists
  BY RegisterFacts
<1>3. IsInvalidate(cmd) <=> NeedsExclusive(cmd)
  BY DEF Commands, IsInvalidate, NeedsExclusive
<1>4. /\ r \in Registers(A) /\ SamePlace(r, m)
      /\ r.isForward = m.isForward /\ r.pendingDirty = m.pendingDirty
      /\ r.deferredTargets = IF NeedsExclusive(cmd)
                             THEN replaceUpgrades(m.deferredTargets)
                             ELSE m.deferredTargets
      /\ r.targets = IF Saves(m, cmd) THEN TargetList_add(m.targets, Target(cmd, "FromSnoop", 0, ord))
                     ELSE IF NeedsExclusive(cmd) /\ ~m.inService
                          THEN replaceUpgrades(m.targets) ELSE m.targets
      /\ r.postInvalidate <=> IF Saves(m, cmd) THEN NeedsExclusive(cmd)
                                                  ELSE m.postInvalidate
      /\ r.postDowngrade <=>
             m.postDowngrade \/ (m.inService /\ ~m.postInvalidate /\ ~NeedsExclusive(cmd))
  <2>1. cmd \in Commands
    OBVIOUS
  <2> QED BY <2>1, SnoopFacts
<1>5. r.inService = m.inService
  BY <1>4 DEF SamePlace
<1>6. /\ Below(m.targets.list, ord) /\ Below(d.list, ord)
      /\ Ordered(m.targets.list) /\ Ordered(d.list)
      /\ Precedes(m.targets.list, d.list) /\ Summarised(d) /\ InEffect(m.targets.list)
  BY DEF RegisterOK, InOrder
<1>7. /\ r.deferredTargets \in TargetLists
      /\ Below(r.deferredTargets.list, ord) /\ Ordered(r.deferredTargets.list)
      /\ Precedes(m.targets.list, r.deferredTargets.list)
      /\ Summarised(r.deferredTargets)
      /\ NeedsExclusive(cmd) \/ NoUpgrade(d.list) => NoUpgrade(r.deferredTargets.list)
      /\ r.deferredTargets.list = <<>> <=> d.list = <<>>
  <2>1. CASE NeedsExclusive(cmd)
    <3>1. r.deferredTargets = replaceUpgrades(d) /\ (d.hasUpgrade \/ NoUpgrade(d.list))
      BY <1>4, <1>6, <2>1 DEF Summarised
    <3> HIDE DEF d
    <3>2. /\ replaceUpgrades(d) \in TargetLists /\ NoUpgrade(replaceUpgrades(d).list)
          /\ replaceUpgrades(d).list = <<>> <=> d.list = <<>>
      BY <1>2, <3>1, ReplaceFacts
    <3>3. /\ Below(replaceUpgrades(d).list, ord) /\ Ordered(replaceUpgrades(d).list)
          /\ Precedes(m.targets.list, replaceUpgrades(d).list)
          /\ Summarised(replaceUpgrades(d))
      BY <1>2, <1>6, ReplaceKeeps
    <3> QED BY <3>1, <3>2, <3>3
  <2>2. CASE ~NeedsExclusive(cmd)
    BY <1>2, <1>4, <1>6, <2>2
  <2> QED BY <2>1, <2>2
<1> HIDE DEF t
<1>11. FirstCmd(r) = "HardPFReq" <=> FirstCmd(m) = "HardPFReq"
  <2>1. 1 \in DOMAIN m.targets.list
    BY <1>2, ListFacts DEF hasTargets
  <2>2. CASE r.targets = m.targets
    BY <2>2 DEF FirstCmd
  <2>3. CASE r.targets = TargetList_add(m.targets, t)
    BY <1>1, <1>2, <2>1, <2>3, AddFacts DEF FirstCmd
  <2>4. CASE r.targets = replaceUpgrades(m.targets)
    BY <1>2, <2>1, <2>4, ReplaceFacts DEF FirstCmd
  <2> QED BY <1>4, <2>2, <2>3, <2>4 DEF t
<1>8. CASE Saves(m, cmd)
  <2> DEFINE e == TargetList_add(m.targets, t)
  <2>1. /\ r.targets = e /\ r.inService /\ ~m.postInvalidate /\ m.inService
        /\ r.postInvalidate <=> NeedsExclusive(cmd)
        /\ r.postDowngrade <=> m.postDowngrade \/ ~NeedsExclusive(cmd)
    BY <1>4, <1>5, <1>8 DEF Saves, t
  <2>2. /\ e.list # <<>> /\ e \in TargetLists
        /\ \A k \in DOMAIN e.list :
              \/ k \in DOMAIN m.targets.list /\ e.list[k] = m.targets.list[k]
              \/ e.list[k] = t
        /\ DOMAIN e.list = 1 .. n + 1 /\ e.list[n + 1] = t
        /\ \A k \in DOMAIN m.targets.list : e.list[k] = m.targets.list[k]
    BY <1>1, <1>2, AddFacts
  <2>3. n \in Nat /\ DOMAIN m.targets.list = 1 .. n
    BY <1>2, ListFacts
  <2>4. e.needsExclusive <=> m.targets.needsExclusive
    BY <1>1, <1>2, AddFacts
  <2>5. InOrder(r, ord + 1)
    <3>1. Below(e.list, ord + 1) /\ Ordered(e.list)
      BY <1>1, <1>2, <1>6, AddInOrder
    <3>2. Precedes(e.list, r.deferredTargets.list)
      BY <1>1, <1>2, <1>7, AddPrecedes
    <3>3. Below(r.deferredTargets.list, ord + 1)
      BY <1>7, ListFacts DEF Below
    <3> QED BY <1>7, <2>1, <3>1, <3>2, <3>3 DEF InOrder
  <2> HIDE DEF e, n
  <2>6. InEffect(e.list)
    <3> SUFFICES ASSUME NEW j \in 1 .. n + 1, NEW k \in 1 .. n + 1, j < k,
                        e.list[j].source = "FromSnoop", e.list[k].source = "FromCPU"
                 PROVE  ~NeedsExclusive(e.list[j].cmd) /\ ~NeedsExclusive(e.list[k].cmd)
      BY <2>2 DEF InEffect
    <3>1. /\ j \in 1 .. n /\ k \in 1 .. n
      BY <1>1, <2>2, <2>3
    <3> QED BY <1>6, <2>2, <2>3, <3>1 DEF InEffect
  <2>7. Remembered(r)
    <3>1. ASSUME NEW k \in DOMAIN e.list, e.list[k].source = "FromSnoop"
          PROVE  IF NeedsExclusive(e.list[k].cmd) THEN r.postInvalidate
                                                  ELSE r.postDowngrade
      <4>1. CASE e.list[k] = t
        BY <1>1, <2>1, <4>1
      <4>2. CASE k \in DOMAIN m.targets.list /\ e.list[k] = m.targets.list[k]
        <5>1. IF NeedsExclusive(e.list[k].cmd) THEN m.postInvalidate ELSE m.postDowngrade
          BY <2>1, <3>1, <4>2 DEF RegisterOK, Remembered
        <5> QED BY <2>1, <5>1
      <4> QED BY <2>2, <4>1, <4>2
    <3> QED BY <2>1, <3>1 DEF Remembered
  <2>8. Plain(r) /\ Claims(r)
    <3>1. r.deferredTargets.list # <<>> => ~m.pendingDirty \/ m.postDowngrade \/ m.isForward
      BY <1>7, <2>1 DEF RegisterOK, Claims
    <3>2. r.targets.needsExclusive => m.pendingDirty
      BY <2>1, <2>4 DEF RegisterOK, Claims
    <3> QED BY <1>4, <2>1, <3>1, <3>2 DEF Plain, Claims
  <2>9. Fresh(r)
    BY <1>7, <2>1 DEF Fresh
  <2> QED BY <1>4, <1>7, <1>11, <2>1, <2>2, <2>5, <2>6, <2>7, <2>8, <2>9 DEF RegisterOK, hasTargets
<1>9. CASE ~Saves(m, cmd) /\ m.inService
  <2>1. /\ r.targets = m.targets /\ r.inService /\ (r.postInvalidate <=> m.postInvalidate)
        /\ m.postDowngrade => r.postDowngrade
        /\ NeedsExclusive(cmd) => m.postInvalidate
    BY <1>3, <1>4, <1>5, <1>9 DEF Saves
  <2>2. InOrder(r, ord + 1)
    <3>1. Below(m.targets.list, ord + 1)
      BY <1>2, <1>6, ListFacts DEF Below
    <3>2. Below(r.deferredTargets.list, ord + 1)
      BY <1>7, ListFacts DEF Below
    <3> QED BY <1>6, <1>7, <2>1, <3>1, <3>2 DEF InOrder
  <2>3. Remembered(r)
    BY <1>9, <2>1 DEF RegisterOK, Remembered
  <2>4. Plain(r) /\ Claims(r)
    BY <1>4, <1>7, <1>9, <2>1 DEF RegisterOK, Plain, Claims
  <2>5. Fresh(r)
    BY <1>7, <1>9, <2>1 DEF RegisterOK, Fresh
  <2> QED BY <1>4, <1>6, <1>7, <1>11, <2>1, <2>2, <2>3, <2>4, <2>5 DEF RegisterOK, hasTargets
<1>10. CASE ~m.inService
  <2>1. /\ r.targets = IF NeedsExclusive(cmd) THEN replaceUpgrades(m.targets)
                                              ELSE m.targets
        /\ ~r.inService
    BY <1>4, <1>5, <1>10 DEF Saves
  <2>2. NoSnoop(m.targets.list) /\ d = EmptyTargets
    BY <1>10 DEF RegisterOK, Plain
  <2>3. r.deferredTargets = EmptyTargets
    BY <1>4, <2>2 DEF replaceUpgrades, EmptyTargets
  <2>4. /\ r.targets \in TargetLists /\ Below(r.targets.list, ord)
        /\ Ordered(r.targets.list) /\ Precedes(r.targets.list, r.deferredTargets.list)
        /\ NoSnoop(r.targets.list) /\ r.targets.list # <<>>
    <3>1. CASE NeedsExclusive(cmd)
      BY <1>2, <1>6, <1>7, <2>1, <2>2, <3>1, ReplaceFacts, ReplaceKeeps DEF hasTargets
    <3>2. CASE ~NeedsExclusive(cmd)
      BY <1>2, <1>6, <1>7, <2>1, <2>2, <3>2 DEF hasTargets
    <3> QED BY <3>1, <3>2
  <2>5. InOrder(r, ord + 1)
    <3>1. Below(r.targets.list, ord + 1)
      BY <2>4, ListFacts DEF Below
    <3>2. Below(r.deferredTargets.list, ord + 1)
      BY <1>7, ListFacts DEF Below
    <3> QED BY <1>7, <2>4, <3>1, <3>2 DEF InOrder
  <2>6. InEffect(r.targets.list) /\ Remembered(r) /\ Plain(r) /\ Claims(r) /\ Fresh(r)
    BY <2>1, <2>3, <2>4 DEF InEffect, NoSnoop, Remembered, Plain, Claims, Fresh
  <2> QED BY <1>4, <1>7, <1>11, <2>4, <2>5, <2>6 DEF RegisterOK, hasTargets
<1> QED BY <1>8, <1>9, <1>10

(* A register that waits loses its first target.                           *)
LEMMA PopTargetOK ==
    ASSUME NEW A, NEW m \in Registers(A), NEW ord \in Nat, RegisterOK(m, ord),
           hasTargets(m), ~m.inService
    PROVE  /\ MSHR_popTarget(m) \in Registers(A) /\ SamePlace(MSHR_popTarget(m), m)
           /\ RegisterOK(MSHR_popTarget(m), ord)
           /\ MSHR_popTarget(m).deferredTargets = EmptyTargets
<1> DEFINE r == MSHR_popTarget(m)
           l == m.targets.list
           p == Tail(l)
<1>1. m.targets \in TargetLists /\ l \in Seq(Targets) /\ l # <<>>
  BY RegisterFacts, ListFacts DEF hasTargets
<1>2. /\ p \in Seq(Targets)
      /\ \A k \in DOMAIN p : k \in Nat /\ k + 1 \in DOMAIN l /\ p[k] = l[k + 1]
  BY <1>1, TailFacts
<1> HIDE DEF p
<1>3. /\ r \in Registers(A) /\ SamePlace(r, m) /\ r.targets.list = p
      /\ r.deferredTargets = m.deferredTargets /\ r.inService = m.inService
  BY <1>1, <1>2 DEF MSHR_popTarget, Registers, TargetLists, SamePlace, p
<1> HIDE DEF r
<1>4. /\ Below(l, ord) /\ Ordered(l) /\ NoSnoop(l) /\ m.deferredTargets = EmptyTargets
      /\ Below(m.deferredTargets.list, ord) /\ Ordered(m.deferredTargets.list)
      /\ Summarised(m.deferredTargets)
  BY DEF RegisterOK, InOrder, Plain
<1>5. DOMAIN m.deferredTargets.list = {}
  BY <1>4 DEF EmptyTargets
<1>6. Below(p, ord) /\ NoSnoop(p)
  BY <1>2, <1>4 DEF Below, NoSnoop
<1>7. Ordered(p)
  <2>1. ASSUME NEW j \in DOMAIN p, NEW k \in DOMAIN p, j < k,
               p[j].source = "FromCPU", p[k].source = "FromCPU"
        PROVE  p[j].order < p[k].order
    <3>1. /\ j + 1 \in DOMAIN l /\ k + 1 \in DOMAIN l /\ j + 1 < k + 1
          /\ p[j] = l[j + 1] /\ p[k] = l[k + 1]
      BY <1>2, <2>1
    <3> QED BY <1>4, <2>1, <3>1 DEF Ordered
  <2> QED BY <2>1 DEF Ordered
<1>8. InOrder(r, ord)
  BY <1>3, <1>4, <1>5, <1>6, <1>7 DEF InOrder, Precedes
<1>9. InEffect(p)
  BY <1>6 DEF InEffect, NoSnoop
<1> QED BY <1>3, <1>4, <1>6, <1>8, <1>9 DEF r, RegisterOK, Remembered, Plain, Claims, Fresh

(* The assert of handleFill: a fill takes deferred writes only into a      *)
(* transaction that did not ask for an exclusive copy itself.              *)
LEMMA FillAllowed ==
    ASSUME NEW A, NEW m \in Registers(A), NEW ord, RegisterOK(m, ord), m.inService,
           NEW shared \in BOOLEAN, ~m.isForward, FillTakesDeferred(m, shared)
    PROVE  ~m.targets.needsExclusive
<1>1. /\ ~m.postInvalidate /\ ~m.postDowngrade /\ m.deferredTargets.needsExclusive
  BY DEF FillTakesDeferred
<1>2. m.deferredTargets.list # <<>>
  BY <1>1 DEF RegisterOK, Summarised, IsReset
<1> QED BY <1>1, <1>2 DEF RegisterOK, Claims

(* Every target of a register is answered; the deferred ones take over.    *)
Emptied(f) == [f EXCEPT !.targets.list = <<>>]
Resumed(a) == [promoteDeferredTargets(a) EXCEPT !.inService = FALSE]

(* The register once every target of a response has been answered.         *)
LEMMA FillFacts ==
    ASSUME NEW A, NEW m \in Registers(A), NEW ord \in Nat, RegisterOK(m, ord),
           NEW shared \in BOOLEAN, NEW f, f \in {m, MSHR_handleFill(m, shared)},
           NEW a, a = Emptied(f)
    PROVE  /\ a \in Registers(A) /\ SamePlace(a, m) /\ a.targets.list = <<>>
           /\ a.deferredTargets.list = <<>> => IsReset(a.deferredTargets)
           /\ Below(a.deferredTargets.list, ord) /\ Ordered(a.deferredTargets.list)
           /\ NoSnoop(a.deferredTargets.list) /\ NoPrefetch(a.deferredTargets.list)
           /\ SameForward(a, m)
           /\ a.deferredTargets = f.deferredTargets
           /\ a.deferredTargets.list # <<>> => m.deferredTargets.list # <<>>
<1>1. m.targets \in TargetLists /\ m.deferredTargets \in TargetLists
  BY RegisterFacts
<1>2. f \in Registers(A) /\ SamePlace(f, m) /\ f.isForward = m.isForward
      /\ f.deferredTargets \in {m.deferredTargets, EmptyTargets}
  <2>1. CASE f = m
    BY <2>1 DEF SamePlace
  <2>2. CASE f = MSHR_handleFill(m, shared) /\ FillTakesDeferred(m, shared)
    <3> DEFINE l == m.targets.list \o m.deferredTargets.list
    <3>1. l \in Seq(Targets)
      BY <1>1, ListFacts
    <3>2. f = [m EXCEPT !.targets.list = l, !.targets.needsExclusive = TRUE,
                        !.deferredTargets = EmptyTargets]
      BY <2>2 DEF MSHR_handleFill
    <3> HIDE DEF l
    <3> QED BY <1>1, <3>1, <3>2, FreeFacts DEF Registers, TargetLists, SamePlace
  <2>3. CASE f = MSHR_handleFill(m, shared) /\ ~FillTakesDeferred(m, shared)
    BY <2>3 DEF MSHR_handleFill, SamePlace
  <2> QED BY <2>1, <2>2, <2>3
<1>3. f.targets \in TargetLists
  BY <1>2, RegisterFacts
<1>4. <<>> \in Seq(Targets)
  OBVIOUS
<1>5. /\ a \in Registers(A) /\ SamePlace(a, f) /\ a.targets.list = <<>>
      /\ a.deferredTargets = f.deferredTargets /\ a.isForward = f.isForward
  BY <1>2, <1>3, <1>4 DEF Registers, TargetLists, SamePlace, Emptied
<1>6. CASE f.deferredTargets = m.deferredTargets
  BY <1>2, <1>5, <1>6 DEF SamePlace, SameForward, RegisterOK, InOrder, Summarised
<1>7. CASE f.deferredTargets = EmptyTargets
  <2>1. DOMAIN EmptyTargets.list = {} /\ EmptyTargets.list = <<>>
    BY DEF EmptyTargets
  <2> QED BY <1>2, <1>5, <1>7, <2>1, FreeFacts DEF SamePlace, SameForward, Below,
                                                  Ordered, NoSnoop, NoPrefetch
<1> QED BY <1>2, <1>5, <1>6, <1>7 DEF SameForward

(* The deferred targets become the targets of the next request.            *)
LEMMA PromoteOK ==
    ASSUME NEW A, NEW a \in Registers(A), NEW ord \in Nat,
           a.deferredTargets.list # <<>>, Below(a.deferredTargets.list, ord),
           Ordered(a.deferredTargets.list), NoSnoop(a.deferredTargets.list),
           NEW w, w = Resumed(a)
    PROVE  /\ w \in Registers(A) /\ w.blkAddr = a.blkAddr /\ ~w.inService
           /\ RegisterOK(w, ord) /\ hasTargets(w)
           /\ w.targets = a.deferredTargets /\ w.deferredTargets = EmptyTargets
           /\ SameForward(w, a)
<1> DEFINE d == a.deferredTargets
<1>1. d \in TargetLists /\ d.list \in Seq(Targets)
  BY RegisterFacts, ListFacts
<1>2. Head(d.list) \in Targets
  BY <1>1, TailFacts
<1>3. Head(d.list).order \in Nat /\ Head(d.list).readyTime \in Nat
  BY <1>2 DEF Targets
<1>4. /\ w \in Registers(A) /\ w.blkAddr = a.blkAddr /\ ~w.inService
      /\ w.targets = d /\ w.deferredTargets = EmptyTargets /\ w.isForward = a.isForward
  <2> DEFINE o == Head(d.list).order
             t == Head(d.list).readyTime
  <2>1. promoteDeferredTargets(a) =
            [a EXCEPT !.targets = d, !.deferredTargets = EmptyTargets,
                      !.order = o, !.readyTime = t]
    BY DEF promoteDeferredTargets
  <2> HIDE DEF d, o, t
  <2> QED BY <1>1, <1>3, <2>1, FreeFacts DEF Registers, Resumed, o, t
<1>5. DOMAIN EmptyTargets.list = {} /\ EmptyTargets.list = <<>>
  BY DEF EmptyTargets
<1>6. InOrder(w, ord)
  BY <1>4, <1>5 DEF InOrder, Below, Ordered, Precedes
<1>7. InEffect(d.list)
  BY DEF InEffect, NoSnoop
<1>8. Summarised(EmptyTargets)
  BY <1>5, FreeFacts DEF Summarised, NoSnoop, NoUpgrade, NoPrefetch
<1> QED BY <1>4, <1>6, <1>7, <1>8 DEF RegisterOK, Remembered, Plain, Claims, Fresh,
                                      hasTargets, SameForward

(* What is older than a number is older than the next one.                 *)
LEMMA LaterOK ==
    ASSUME NEW A, NEW m \in Registers(A), NEW ord \in Nat, RegisterOK(m, ord)
    PROVE  RegisterOK(m, ord + 1)
<1>1. m.targets \in TargetLists /\ m.deferredTargets \in TargetLists
  BY RegisterFacts
<1>2. Below(m.targets.list, ord + 1) /\ Below(m.deferredTargets.list, ord + 1)
  BY <1>1, ListFacts DEF RegisterOK, InOrder, Below
<1> QED BY <1>2 DEF RegisterOK, InOrder
-----------------------------------------------------------------------------
(* What a register must say of its block, whose status bits are b, when    *)
(* the bus has answered ans and n snoops were promised an answer.          *)
StoreTarget(t) == t.source = "FromCPU" /\ t.cmd = "WriteReq"
ClaimTarget(t) == t.source = "FromSnoop" /\ NeedsExclusive(t.cmd)
StoreIn(l) == \E k \in DOMAIN l : StoreTarget(l[k])
SnoopsIn(l) == {k \in DOMAIN l : l[k].source = "FromSnoop"}

(* The flag of a list tells whether it holds a store.                      *)
CountsStores(l) == l.needsExclusive <=> StoreIn(l.list)

(* A snoop that takes the block away is the last target; a snoop that was  *)
(* promised dirty data comes after a store.                                *)
ClaimEnds(l) == \A k \in DOMAIN l : ClaimTarget(l[k]) => k = Len(l)
DirtyBefore(l) == \A k \in SnoopsIn(l) : \E j \in DOMAIN l : j < k /\ StoreTarget(l[j])

WellAsked(m) ==
    /\ CountsStores(m.targets) /\ CountsStores(m.deferredTargets)
    /\ m.inService =>
         /\ ClaimEnds(m.targets.list)
         /\ m.postInvalidate => \E k \in DOMAIN m.targets.list : ClaimTarget(m.targets.list[k])
         /\ m.deferredTargets.list # <<>> =>
                m.postInvalidate \/ m.deferredTargets.needsExclusive

WellAnswered(m, ans) ==
    m.inService =>
        /\ ans \in {"Exclusive", "Dirty", "Shared"}
        /\ m.targets.needsExclusive => ans # "Shared"
        /\ m.pendingDirty =>
               \/ ans = "Dirty"
               \/ StoreIn(m.targets.list) /\ DirtyBefore(m.targets.list)
        /\ ~m.pendingDirty => ans # "Dirty"

(* Nothing reads the block, it is kept only for an upgrade, and no store   *)
(* that waits could be performed on it.                                    *)
OutOfSight(m, b) ==
    /\ "Readable" \notin b
    /\ b # {} => m.targets.needsExclusive
    /\ StoreIn(m.targets.list) \/ StoreIn(m.deferredTargets.list) => "Writable" \notin b

SavedIn(m) ==
    IF m.inService /\ m.pendingDirty THEN Cardinality(SnoopsIn(m.targets.list)) ELSE 0

Tracks(m, b, ans, n) ==
    WellAsked(m) /\ WellAnswered(m, ans) /\ OutOfSight(m, b) /\ n = SavedIn(m)

(* What becomes of the stores and snoops of a list when a target joins it. *)
LEMMA JoinedList ==
    ASSUME NEW l \in TargetLists, NEW t \in Targets, NEW e, e = TargetList_add(l, t)
    PROVE  /\ StoreIn(e.list) <=> StoreIn(l.list) \/ StoreTarget(t)
           /\ Cardinality(SnoopsIn(l.list)) \in Nat
           /\ t.source # "FromSnoop" => SnoopsIn(e.list) = SnoopsIn(l.list)
           /\ t.source = "FromSnoop" =>
                  Cardinality(SnoopsIn(e.list)) = Cardinality(SnoopsIn(l.list)) + 1
           /\ DirtyBefore(l.list) /\ (t.source # "FromSnoop" \/ StoreIn(l.list))
                  => DirtyBefore(e.list)
           /\ (\A k \in DOMAIN l.list : ~ClaimTarget(l.list[k])) => ClaimEnds(e.list)
           /\ ClaimTarget(t) => \E k \in DOMAIN e.list : ClaimTarget(e.list[k])
<1> DEFINE n == Len(l.list)
<1>1. /\ n \in Nat /\ DOMAIN l.list = 1 .. n /\ DOMAIN e.list = 1 .. n + 1
      /\ \A k \in 1 .. n : e.list[k] = l.list[k]
      /\ e.list[n + 1] = t /\ Len(e.list) = n + 1
  <2>1. /\ n \in Nat /\ DOMAIN l.list = 1 .. n /\ l.list \in Seq(Targets)
    BY ListFacts
  <2>2. /\ DOMAIN e.list = 1 .. n + 1 /\ e.list[n + 1] = t /\ e.list = Append(l.list, t)
        /\ \A k \in DOMAIN l.list : e.list[k] = l.list[k]
    BY AddFacts
  <2> QED BY <2>1, <2>2
<1> HIDE DEF n
<1>2. StoreIn(e.list) <=> StoreIn(l.list) \/ StoreTarget(t)
  <2>1. StoreIn(l.list) => StoreIn(e.list)
    BY <1>1 DEF StoreIn
  <2>2. StoreTarget(t) => StoreIn(e.list)
    BY <1>1 DEF StoreIn
  <2>3. ASSUME StoreIn(e.list), ~StoreTarget(t) PROVE StoreIn(l.list)
    <3>1. PICK k \in DOMAIN e.list : StoreTarget(e.list[k])
      BY <2>3 DEF StoreIn
    <3>2. k \in 1 .. n
      BY <1>1, <2>3, <3>1
    <3> QED BY <1>1, <3>1, <3>2 DEF StoreIn
  <2> QED BY <2>1, <2>2, <2>3
<1>3. IsFiniteSet(SnoopsIn(l.list)) /\ n + 1 \notin SnoopsIn(l.list)
  <2>1. SnoopsIn(l.list) \subseteq 1 .. n
    BY <1>1 DEF SnoopsIn
  <2>2. IsFiniteSet(1 .. n)
    BY <1>1, FS_Interval
  <2> QED BY <1>1, <2>1, <2>2, FS_Subset
<1>4. Cardinality(SnoopsIn(l.list)) \in Nat
  BY <1>3, FS_CardinalityType
<1>5. SnoopsIn(e.list) = IF t.source = "FromSnoop" THEN SnoopsIn(l.list) \cup {n + 1}
                         ELSE SnoopsIn(l.list)
  BY <1>1 DEF SnoopsIn
<1>6. t.source = "FromSnoop" => Cardinality(SnoopsIn(e.list)) = Cardinality(SnoopsIn(l.list)) + 1
  BY <1>3, <1>5, FS_AddElement
<1>7. ASSUME DirtyBefore(l.list), t.source # "FromSnoop" \/ StoreIn(l.list)
      PROVE  DirtyBefore(e.list)
  <2> SUFFICES ASSUME NEW k \in SnoopsIn(e.list)
               PROVE  \E j \in DOMAIN e.list : j < k /\ StoreTarget(e.list[j])
    BY DEF DirtyBefore
  <2>1. CASE k \in SnoopsIn(l.list)
    <3>1. PICK j \in DOMAIN l.list : j < k /\ StoreTarget(l.list[j])
      BY <1>7, <2>1 DEF DirtyBefore
    <3> QED BY <1>1, <3>1
  <2>2. CASE k = n + 1 /\ t.source = "FromSnoop"
    <3>1. PICK j \in DOMAIN l.list : StoreTarget(l.list[j])
      BY <1>7, <2>2 DEF StoreIn
    <3>2. j \in 1 .. n /\ j < k /\ j \in DOMAIN e.list
      BY <1>1, <2>2, <3>1
    <3> QED BY <1>1, <3>1, <3>2
  <2> QED BY <1>5, <2>1, <2>2
<1>8. ASSUME \A k \in DOMAIN l.list : ~ClaimTarget(l.list[k]) PROVE ClaimEnds(e.list)
  BY <1>1, <1>8 DEF ClaimEnds
<1>9. ClaimTarget(t) => \E k \in DOMAIN e.list : ClaimTarget(e.list[k])
  BY <1>1
<1> QED BY <1>2, <1>4, <1>5, <1>6, <1>7, <1>8, <1>9

(* replaceUpgrades changes none of this.                                   *)
LEMMA ReplacedList ==
    ASSUME NEW l \in TargetLists, NEW e, e = replaceUpgrades(l)
    PROVE  /\ StoreIn(e.list) <=> StoreIn(l.list)
           /\ e.needsExclusive = l.needsExclusive
           /\ e.list = <<>> <=> l.list = <<>>
           /\ CountsStores(l) => CountsStores(e)
           /\ SnoopsIn(e.list) = SnoopsIn(l.list)
<1>1. /\ DOMAIN e.list = DOMAIN l.list /\ e.needsExclusive = l.needsExclusive
      /\ e.list = <<>> <=> l.list = <<>>
      /\ \A k \in DOMAIN l.list : /\ e.list[k].source = l.list[k].source
                                  /\ e.list[k].cmd = "WriteReq" <=> l.list[k].cmd = "WriteReq"
  BY ReplaceFacts
<1>2. StoreIn(e.list) <=> StoreIn(l.list)
  BY <1>1 DEF StoreIn, StoreTarget
<1>3. SnoopsIn(e.list) = SnoopsIn(l.list)
  BY <1>1 DEF SnoopsIn
<1> QED BY <1>1, <1>2, <1>3 DEF CountsStores

(* A new register: the block was not readable, and is kept only for a      *)
(* store that has no permission for it.                                    *)
LEMMA TrackAllocate ==
    ASSUME NEW A, NEW blk \in A, NEW cmd \in {"ReadReq", "WriteReq", "HardPFReq"},
           NEW when \in Nat, NEW ord \in Nat, NEW b, "Readable" \notin b,
           b # {} => cmd = "WriteReq", cmd = "WriteReq" => "Writable" \notin b, NEW ans,
           NEW m, m = MSHR_allocate(blk, cmd, when, ord)
    PROVE  Tracks(m, b, ans, 0)
<1> DEFINE source == IF cmd = "HardPFReq" THEN "FromPrefetcher" ELSE "FromCPU"
           t == Target(cmd, source, when, ord)
           l == TargetList_add(EmptyTargets, t)
<1>1. /\ t \in Targets /\ t.cmd = cmd /\ t.source # "FromSnoop"
      /\ cmd = "WriteReq" => t.source = "FromCPU"
  BY DEF Target, Targets, Sources, Commands
<1> HIDE DEF t
<1>2. /\ EmptyTargets \in TargetLists /\ EmptyTargets.list = <<>>
      /\ ~EmptyTargets.needsExclusive /\ ~StoreIn(EmptyTargets.list)
  <2>1. EmptyTargets \in TargetLists /\ EmptyTargets.list = <<>> /\ ~EmptyTargets.needsExclusive
    BY FreeFacts DEF IsReset
  <2>2. ~StoreIn(<<>>)
    BY DEF StoreIn
  <2> QED BY <2>1, <2>2
<1>3. /\ l \in TargetLists /\ (StoreIn(l.list) <=> StoreTarget(t))
      /\ l.needsExclusive <=> cmd = "WriteReq"
  <2>1. l \in TargetLists /\ (l.needsExclusive <=> NeedsExclusive(t.cmd))
    BY <1>1, <1>2, AddFacts
  <2>2. StoreIn(l.list) <=> StoreTarget(t)
    BY <1>1, <1>2, JoinedList
  <2> QED BY <1>1, <2>1, <2>2 DEF NeedsExclusive
<1> HIDE DEF l
<1>4. m = [FreeMSHR EXCEPT !.blkAddr = blk, !.order = ord, !.readyTime = when, !.targets = l]
  BY DEF MSHR_allocate, l, t
<1>5. m.targets = l /\ m.deferredTargets = EmptyTargets /\ ~m.inService
  BY <1>4 DEF FreeMSHR
<1>6. StoreIn(l.list) <=> cmd = "WriteReq"
  BY <1>1, <1>3 DEF StoreTarget
<1> QED BY <1>2, <1>3, <1>5, <1>6 DEF Tracks, WellAsked, WellAnswered, OutOfSight, SavedIn,
                                      CountsStores

(* A request of the CPU side joins; a store only when it has no permission *)
(* for the block.                                                          *)
LEMMA TrackJoin ==
    ASSUME NEW A, NEW m \in Registers(A), NEW ord \in Nat, RegisterOK(m, ord),
           NEW cmd \in {"ReadReq", "WriteReq"}, NEW when \in Nat, ~m.isForward,
           NEW b, NEW ans, NEW n, Tracks(m, b, ans, n), cmd = "WriteReq" => "Writable" \notin b,
           NEW r, r = MSHR_allocateTarget(m, cmd, when, ord)
    PROVE  Tracks(r, b, ans, n)
<1> DEFINE t == Target(cmd, "FromCPU", when, ord)
           defer == /\ m.inService
                    /\ \/ m.deferredTargets.list # <<>>
                       \/ m.postInvalidate
                       \/ /\ NeedsExclusive(cmd)
                          /\ (~m.pendingDirty \/ m.postDowngrade \/ m.isForward)
           d == TargetList_add(m.deferredTargets, t)
           e == TargetList_add(m.targets, t)
<1>1. /\ t \in Targets /\ t.cmd = cmd /\ t.source = "FromCPU" /\ replaceUpgrade(t) = t
      /\ StoreTarget(t) <=> cmd = "WriteReq"
      /\ NeedsExclusive(t.cmd) <=> cmd = "WriteReq"
      /\ NeedsExclusive(cmd) <=> cmd = "WriteReq"
  BY DEF Target, Targets, Sources, Commands, replaceUpgrade, StoreTarget, NeedsExclusive
<1> HIDE DEF t
<1>2. /\ m.targets \in TargetLists /\ m.deferredTargets \in TargetLists
      /\ WellAsked(m) /\ WellAnswered(m, ans) /\ OutOfSight(m, b) /\ n = SavedIn(m)
  BY RegisterFacts DEF Tracks
<1>3. CASE defer
  <2>1. r = [m EXCEPT !.deferredTargets = d]
    BY <1>1, <1>3 DEF MSHR_allocateTarget, t
  <2>2. /\ d.list # <<>>
        /\ d.needsExclusive <=> m.deferredTargets.needsExclusive \/ cmd = "WriteReq"
    BY <1>1, <1>2, AddFacts
  <2>3. StoreIn(d.list) <=> StoreIn(m.deferredTargets.list) \/ cmd = "WriteReq"
    BY <1>1, <1>2, JoinedList
  <2> HIDE DEF d
  <2>4. /\ r.targets = m.targets /\ r.deferredTargets = d /\ r.inService = m.inService
        /\ r.pendingDirty = m.pendingDirty /\ r.postInvalidate = m.postInvalidate
    BY <2>1 DEF Registers
  <2>5. WellAsked(r)
    BY <1>1, <1>2, <1>3, <2>2, <2>3, <2>4 DEF WellAsked, CountsStores
  <2>6. WellAnswered(r, ans) /\ OutOfSight(r, b) /\ SavedIn(r) = n
    BY <1>2, <2>3, <2>4 DEF WellAnswered, OutOfSight, SavedIn
  <2> QED BY <2>5, <2>6 DEF Tracks
<1>4. CASE ~defer
  <2>1. r = [m EXCEPT !.targets = e]
    BY <1>1, <1>4 DEF MSHR_allocateTarget, t
  <2>2. e.needsExclusive <=> m.targets.needsExclusive \/ cmd = "WriteReq"
    BY <1>1, <1>2, AddFacts
  <2>3. /\ StoreIn(e.list) <=> StoreIn(m.targets.list) \/ cmd = "WriteReq"
        /\ SnoopsIn(e.list) = SnoopsIn(m.targets.list)
        /\ DirtyBefore(m.targets.list) => DirtyBefore(e.list)
        /\ (\A k \in DOMAIN m.targets.list : ~ClaimTarget(m.targets.list[k])) => ClaimEnds(e.list)
    BY <1>1, <1>2, JoinedList
  <2> HIDE DEF e
  <2>4. /\ r.targets = e /\ r.deferredTargets = m.deferredTargets /\ r.inService = m.inService
        /\ r.pendingDirty = m.pendingDirty /\ r.postInvalidate = m.postInvalidate
    BY <2>1 DEF Registers
  <2>5. m.inService =>
            /\ ~m.postInvalidate /\ m.deferredTargets.list = <<>>
            /\ \A k \in DOMAIN m.targets.list : ~ClaimTarget(m.targets.list[k])
            /\ cmd = "WriteReq" => m.pendingDirty
    <3>1. m.inService => /\ ~m.postInvalidate /\ m.deferredTargets.list = <<>>
                         /\ cmd = "WriteReq" => m.pendingDirty
      BY <1>1, <1>4
    <3> QED BY <3>1 DEF RegisterOK, Remembered, ClaimTarget
  <2>6. WellAsked(r)
    BY <1>2, <2>2, <2>3, <2>4, <2>5 DEF WellAsked, CountsStores
  <2>7. WellAnswered(r, ans)
    BY <1>2, <2>2, <2>3, <2>4, <2>5 DEF WellAnswered, WellAsked, CountsStores
  <2>8. OutOfSight(r, b) /\ SavedIn(r) = n
    BY <1>2, <2>2, <2>3, <2>4 DEF OutOfSight, SavedIn
  <2> QED BY <2>6, <2>7, <2>8 DEF Tracks
<1> QED BY <1>3, <1>4

(* The bus takes the request and promises an answer.                       *)
LEMMA TrackMark ==
    ASSUME NEW A, NEW m \in Registers(A), NEW ord, RegisterOK(m, ord), ~m.inService,
           NEW b, NEW old, NEW n, Tracks(m, b, old, n),
           NEW ans \in {"Exclusive", "Dirty", "Shared"},
           m.targets.needsExclusive => ans # "Shared",
           NEW r, r = MSHR_markInService(m, ans = "Dirty")
    PROVE  Tracks(r, b, ans, n)
<1> DEFINE pd == m.targets.needsExclusive \/ ans = "Dirty"
<1>1. /\ m.targets \in TargetLists /\ m.targets.needsExclusive \in BOOLEAN
      /\ WellAsked(m) /\ OutOfSight(m, b) /\ n = SavedIn(m)
  BY RegisterFacts, ListFacts DEF Tracks
<1>2. pd \in BOOLEAN /\ r = [m EXCEPT !.inService = TRUE, !.pendingDirty = pd,
                                      !.postInvalidate = FALSE, !.postDowngrade = FALSE]
  BY DEF MSHR_markInService
<1>3. pd <=> m.targets.needsExclusive \/ ans = "Dirty"
  OBVIOUS
<1> HIDE DEF pd
<1>4. /\ r.targets = m.targets /\ r.deferredTargets = m.deferredTargets /\ r.inService
      /\ r.pendingDirty = pd /\ ~r.postInvalidate
  BY <1>2 DEF Registers
<1>5. /\ m.deferredTargets.list = <<>> /\ NoSnoop(m.targets.list)
  BY DEF RegisterOK, Plain, EmptyTargets
<1>6. SnoopsIn(m.targets.list) = {} /\ ClaimEnds(m.targets.list) /\ DirtyBefore(m.targets.list)
  BY <1>5 DEF NoSnoop, SnoopsIn, ClaimEnds, ClaimTarget, DirtyBefore
<1>7. WellAsked(r)
  BY <1>1, <1>4, <1>5, <1>6 DEF WellAsked
<1>8. WellAnswered(r, ans)
  BY <1>1, <1>3, <1>4, <1>6 DEF WellAnswered, WellAsked, CountsStores
<1>9. OutOfSight(r, b)
  BY <1>1, <1>4 DEF OutOfSight
<1>10. n = SavedIn(r)
  <2>1. Cardinality({}) = 0
    BY FS_EmptySet
  <2> QED BY <1>1, <1>4, <1>6, <2>1 DEF SavedIn
<1> QED BY <1>7, <1>8, <1>9, <1>10 DEF Tracks

(* A snoop meets the register, and is promised an answer or not.           *)
LEMMA TrackSnoop ==
    ASSUME NEW A, NEW m \in Registers(A), NEW ord \in Nat, RegisterOK(m, ord),
           NEW cmd \in {"ReadReq", "ReadExReq", "UpgradeReq"},
           NEW b, NEW ans, NEW n, Tracks(m, b, ans, n),
           NEW h, h = MSHR_handleSnoop(m, cmd, ord)
    PROVE  Tracks(h.mshr, b, ans, IF h.memInhibit THEN n + 1 ELSE n)
<1> DEFINE t == Target(cmd, "FromSnoop", 0, ord)
           r == h.mshr
           e == TargetList_add(m.targets, t)
<1>1. /\ t \in Targets /\ t.source = "FromSnoop" /\ t.cmd = cmd
      /\ ~StoreTarget(t) /\ (ClaimTarget(t) <=> NeedsExclusive(cmd))
  BY DEF Target, Targets, Sources, Commands, StoreTarget, ClaimTarget
<1>2. /\ m.targets \in TargetLists /\ m.deferredTargets \in TargetLists
      /\ WellAsked(m) /\ WellAnswered(m, ans) /\ OutOfSight(m, b) /\ n = SavedIn(m)
  BY RegisterFacts DEF Tracks
<1>3. h.memInhibit <=> Saves(m, cmd) /\ m.pendingDirty
  BY DEF MSHR_handleSnoop, Saves
<1>4. /\ r.inService = m.inService /\ r.pendingDirty = m.pendingDirty
      /\ r.deferredTargets = IF NeedsExclusive(cmd)
                             THEN replaceUpgrades(m.deferredTargets)
                             ELSE m.deferredTargets
      /\ r.targets = IF Saves(m, cmd) THEN e
                     ELSE IF NeedsExclusive(cmd) /\ ~m.inService
                          THEN replaceUpgrades(m.targets) ELSE m.targets
      /\ r.postInvalidate <=> IF Saves(m, cmd) THEN NeedsExclusive(cmd) ELSE m.postInvalidate
  <2>1. cmd \in Commands /\ r = MSHR_handleSnoop(m, cmd, ord).mshr
    BY DEF Commands
  <2> QED BY <2>1, SnoopFacts DEF SamePlace
<1> HIDE DEF r, t
<1>5. /\ StoreIn(r.deferredTargets.list) <=> StoreIn(m.deferredTargets.list)
      /\ r.deferredTargets.needsExclusive = m.deferredTargets.needsExclusive
      /\ CountsStores(r.deferredTargets)
      /\ r.deferredTargets.list = <<>> <=> m.deferredTargets.list = <<>>
  <2>1. CountsStores(m.deferredTargets)
    BY <1>2 DEF WellAsked
  <2> QED BY <1>2, <1>4, <2>1, ReplacedList
<1>6. CASE Saves(m, cmd)
  <2>1. /\ m.inService /\ ~m.postInvalidate /\ r.targets = e
        /\ \A k \in DOMAIN m.targets.list : ~ClaimTarget(m.targets.list[k])
    BY <1>4, <1>6 DEF Saves, RegisterOK, Remembered, ClaimTarget
  <2>2. e.needsExclusive <=> m.targets.needsExclusive
    BY <1>1, <1>2, AddFacts
  <2>3. /\ StoreIn(e.list) <=> StoreIn(m.targets.list)
        /\ Cardinality(SnoopsIn(e.list)) = Cardinality(SnoopsIn(m.targets.list)) + 1
        /\ DirtyBefore(m.targets.list) /\ StoreIn(m.targets.list) => DirtyBefore(e.list)
        /\ ClaimEnds(e.list)
        /\ NeedsExclusive(cmd) => \E k \in DOMAIN e.list : ClaimTarget(e.list[k])
    BY <1>1, <1>2, <2>1, JoinedList
  <2> HIDE DEF e
  <2>4. WellAsked(r)
    BY <1>2, <1>4, <1>5, <1>6, <2>1, <2>2, <2>3 DEF WellAsked, CountsStores
  <2>5. WellAnswered(r, ans) /\ OutOfSight(r, b)
    BY <1>2, <1>4, <1>5, <2>1, <2>2, <2>3 DEF WellAnswered, OutOfSight
  <2>6. SavedIn(r) = IF h.memInhibit THEN n + 1 ELSE n
    BY <1>2, <1>3, <1>4, <1>6, <2>1, <2>3 DEF SavedIn
  <2> QED BY <2>4, <2>5, <2>6 DEF Tracks, r
<1>7. CASE ~Saves(m, cmd)
  <2>1. /\ StoreIn(r.targets.list) <=> StoreIn(m.targets.list)
        /\ r.targets.needsExclusive = m.targets.needsExclusive
        /\ CountsStores(r.targets)
        /\ r.inService => r.targets = m.targets
    <3>1. CountsStores(m.targets)
      BY <1>2 DEF WellAsked
    <3> QED BY <1>2, <1>4, <1>7, <3>1, ReplacedList
  <2>2. WellAsked(r)
    BY <1>2, <1>4, <1>5, <1>7, <2>1 DEF WellAsked
  <2>3. WellAnswered(r, ans) /\ OutOfSight(r, b) /\ SavedIn(r) = n
    BY <1>2, <1>4, <1>5, <2>1 DEF WellAnswered, OutOfSight, SavedIn
  <2> QED BY <1>3, <1>7, <2>2, <2>3 DEF Tracks, r
<1> QED BY <1>6, <1>7

(* The block loses status bits.                                            *)
LEMMA TrackLess ==
    ASSUME NEW m, NEW b, NEW c, c \subseteq b, NEW ans, NEW n, Tracks(m, b, ans, n)
    PROVE  Tracks(m, c, ans, n)
  BY DEF Tracks, OutOfSight

(* The targets that a response answers, the deferred ones that the fill    *)
(* takes included.                                                         *)
Servable(l, m, b, ans) ==
    /\ l \in Seq(Targets) /\ ClaimEnds(l)
    /\ \A k \in DOMAIN l : StoreTarget(l[k]) =>
           ans # "Shared" /\ \A j \in DOMAIN l : j < k => l[j].source # "FromSnoop"
    /\ m.pendingDirty => ans = "Dirty" \/ DirtyBefore(l)
    /\ ~m.pendingDirty =>
           /\ ans # "Dirty" /\ b = {}
           /\ \A k \in SnoopsIn(l), j \in DOMAIN l : j < k => ~StoreTarget(l[j])
    /\ SnoopsIn(l) = SnoopsIn(m.targets.list)
    /\ m.postInvalidate <=> \E k \in DOMAIN l : ClaimTarget(l[k])

LEMMA ConcatFacts ==
    ASSUME NEW S, NEW l \in Seq(S), NEW r \in Seq(S)
    PROVE  /\ l \o r \in Seq(S) /\ Len(l \o r) = Len(l) + Len(r)
           /\ DOMAIN (l \o r) = 1 .. Len(l \o r)
           /\ \A k \in 1 .. Len(l \o r) :
                  (l \o r)[k] = IF k <= Len(l) THEN l[k] ELSE r[k - Len(l)]
  OBVIOUS

LEMMA TrackFill ==
    ASSUME NEW A, NEW m \in Registers(A), NEW ord, RegisterOK(m, ord), m.inService,
           NEW b, NEW ans, NEW n, Tracks(m, b, ans, n),
           NEW f, f = MSHR_handleFill(m, ans = "Shared")
    PROVE  /\ Servable(f.targets.list, m, b, ans)
           /\ f.postInvalidate = m.postInvalidate /\ f.postDowngrade = m.postDowngrade
<1> DEFINE tl == m.targets.list
           dl == m.deferredTargets.list
           takes == FillTakesDeferred(m, ans = "Shared")
<1>1. /\ m.targets \in TargetLists /\ m.deferredTargets \in TargetLists
      /\ WellAsked(m) /\ WellAnswered(m, ans) /\ OutOfSight(m, b)
  BY RegisterFacts DEF Tracks
<1>2. /\ tl \in Seq(Targets) /\ dl \in Seq(Targets) /\ Len(tl) \in Nat /\ Len(dl) \in Nat
      /\ DOMAIN tl = 1 .. Len(tl) /\ DOMAIN dl = 1 .. Len(dl)
  BY <1>1, ListFacts
<1>3. /\ ClaimEnds(tl) /\ CountsStores(m.targets)
      /\ m.postInvalidate <=> \E k \in DOMAIN tl : ClaimTarget(tl[k])
  BY <1>1 DEF WellAsked, RegisterOK, Remembered, ClaimTarget
<1>4. /\ StoreIn(tl) => ans # "Shared" /\ m.pendingDirty
      /\ m.pendingDirty => ans = "Dirty" \/ DirtyBefore(tl)
      /\ ~m.pendingDirty => ans # "Dirty" /\ b = {}
  BY <1>1, <1>3 DEF WellAnswered, CountsStores, RegisterOK, Claims, OutOfSight
<1>5. \A j, k \in DOMAIN tl : j < k /\ StoreTarget(tl[k]) => tl[j].source # "FromSnoop"
  <2>1. InEffect(tl)
    BY DEF RegisterOK
  <2> QED BY <2>1 DEF InEffect, StoreTarget, NeedsExclusive
<1>6. CASE ~takes
  <2>1. f = m
    BY <1>6 DEF MSHR_handleFill
  <2>2. \A k \in DOMAIN tl : StoreTarget(tl[k]) => StoreIn(tl)
    BY DEF StoreIn
  <2>3. ~m.pendingDirty => \A k \in SnoopsIn(tl), j \in DOMAIN tl : j < k => ~StoreTarget(tl[j])
    BY <1>4, <2>2
  <2> QED BY <1>2, <1>3, <1>4, <1>5, <2>1, <2>2, <2>3 DEF Servable
<1>7. CASE takes
  <2> DEFINE l == tl \o dl
  <2>1. /\ ~m.postInvalidate /\ ~m.postDowngrade /\ ans # "Shared"
    BY <1>7 DEF FillTakesDeferred
  <2>2. /\ l \in Seq(Targets) /\ Len(l) = Len(tl) + Len(dl) /\ DOMAIN l = 1 .. Len(l)
        /\ \A k \in 1 .. Len(l) : l[k] = IF k <= Len(tl) THEN tl[k] ELSE dl[k - Len(tl)]
    <3> HIDE DEF tl, dl
    <3>1. tl \in Seq(Targets) /\ dl \in Seq(Targets)
      BY <1>2
    <3> QED BY ONLY <3>1, ConcatFacts
  <2>3. /\ f = [m EXCEPT !.targets.list = l, !.targets.needsExclusive = TRUE,
                         !.deferredTargets = EmptyTargets]
    BY <1>7 DEF MSHR_handleFill
  <2> HIDE DEF l
  <2>4. /\ f.targets.list = l /\ f.postInvalidate = m.postInvalidate
        /\ f.postDowngrade = m.postDowngrade
    <3>1. /\ f.targets = [m.targets EXCEPT !.list = l, !.needsExclusive = TRUE]
          /\ f.postInvalidate = m.postInvalidate /\ f.postDowngrade = m.postDowngrade
      BY <2>3 DEF Registers
    <3>2. m.targets \in TargetLists
      BY <1>1
    <3> QED BY <3>1, <3>2 DEF TargetLists
  <2>5. \A k \in DOMAIN tl : tl[k].source # "FromSnoop"
    BY <2>1 DEF RegisterOK, Remembered
  <2>6. \A k \in DOMAIN dl : dl[k].source # "FromSnoop"
    BY DEF RegisterOK, Summarised, NoSnoop
  <2>7. \A k \in DOMAIN l : l[k].source # "FromSnoop"
    <3> SUFFICES ASSUME NEW k \in DOMAIN l PROVE l[k].source # "FromSnoop"
      OBVIOUS
    <3> HIDE DEF tl, dl
    <3>1. CASE k <= Len(tl)
      <4>1. k \in DOMAIN tl /\ l[k] = tl[k]
        BY <1>2, <2>2, <3>1
      <4> QED BY <2>5, <4>1
    <3>2. CASE ~(k <= Len(tl))
      <4>1. k - Len(tl) \in DOMAIN dl /\ l[k] = dl[k - Len(tl)]
        BY <1>2, <2>2, <3>2
      <4> QED BY <2>6, <4>1
    <3> QED BY <3>1, <3>2
  <2>8. SnoopsIn(l) = {} /\ SnoopsIn(tl) = {}
    BY <2>5, <2>7 DEF SnoopsIn
  <2>9. /\ \A k \in DOMAIN l : ~ClaimTarget(l[k])
        /\ ClaimEnds(l) /\ DirtyBefore(l)
    BY <2>7, <2>8 DEF ClaimEnds, ClaimTarget, DirtyBefore
  <2>10. Servable(l, m, b, ans)
    BY <1>4, <2>1, <2>2, <2>7, <2>8, <2>9 DEF Servable
  <2> QED BY <2>4, <2>10
<1> QED BY <1>6, <1>7

(* The deferred targets ask again, of what is left of the block.           *)
LEMMA TrackResume ==
    ASSUME NEW A, NEW m \in Registers(A), NEW ord \in Nat, RegisterOK(m, ord), m.inService,
           NEW b, NEW ans, NEW n, Tracks(m, b, ans, n),
           NEW f, f = MSHR_handleFill(m, ans = "Shared"), f.deferredTargets.list # <<>>,
           NEW v, "Readable" \notin v, m.postInvalidate => v = {},
           m.postDowngrade => "Writable" \notin v,
           "Writable" \in v => "Writable" \in b \/ ans # "Shared",
           NEW w, w = Resumed(Emptied(f))
    PROVE  Tracks(w, v, "none", 0)
<1> DEFINE d == m.deferredTargets
           a == Emptied(f)
<1>1. WellAsked(m) /\ OutOfSight(m, b)
  BY DEF Tracks
<1>2. ~FillTakesDeferred(m, ans = "Shared") /\ f = m
  <2>1. CASE FillTakesDeferred(m, ans = "Shared")
    <3> DEFINE l == m.targets.list \o m.deferredTargets.list
    <3>1. f = [m EXCEPT !.targets.list = l, !.targets.needsExclusive = TRUE,
                        !.deferredTargets = EmptyTargets]
      BY <2>1 DEF MSHR_handleFill
    <3> HIDE DEF l
    <3>2. f.deferredTargets = EmptyTargets
      BY <3>1 DEF Registers
    <3> QED BY <3>2 DEF EmptyTargets
  <2> QED BY <2>1 DEF MSHR_handleFill
<1>3. /\ a \in Registers(A) /\ a.deferredTargets = d
      /\ Below(d.list, ord) /\ Ordered(d.list) /\ NoSnoop(d.list)
  <2> DEFINE sh == ans = "Shared"
  <2>1. sh \in BOOLEAN /\ f \in {m, MSHR_handleFill(m, sh)} /\ f = m
    BY <1>2
  <2> HIDE DEF sh
  <2>2. /\ a \in Registers(A) /\ a.deferredTargets = f.deferredTargets
        /\ Below(a.deferredTargets.list, ord) /\ Ordered(a.deferredTargets.list)
        /\ NoSnoop(a.deferredTargets.list)
    BY <2>1, FillFacts
  <2> QED BY <2>1, <2>2
<1> HIDE DEF a
<1>4. w = Resumed(a) /\ a.deferredTargets.list # <<>>
  BY <1>2, <1>3 DEF a
<1>5. w.targets = d /\ w.deferredTargets = EmptyTargets /\ ~w.inService
  BY <1>3, <1>4, PromoteOK
<1>6. ~EmptyTargets.needsExclusive /\ ~StoreIn(EmptyTargets.list)
  BY DEF EmptyTargets, StoreIn
<1>7. CountsStores(d) /\ (m.postInvalidate \/ d.needsExclusive)
  BY <1>1, <1>2 DEF WellAsked
<1>8. d.needsExclusive => ans = "Shared" \/ m.postInvalidate \/ m.postDowngrade
  BY <1>2 DEF FillTakesDeferred
<1>9. StoreIn(d.list) => "Writable" \notin v
  <2>1. StoreIn(d.list) => "Writable" \notin b
    BY <1>1 DEF OutOfSight
  <2> QED BY <1>7, <1>8, <2>1 DEF CountsStores
<1> QED BY <1>5, <1>6, <1>7, <1>9 DEF Tracks, WellAsked, WellAnswered, OutOfSight, SavedIn,
                                      CountsStores
=============================================================================
