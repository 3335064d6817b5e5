------------------------ MODULE CoherentCaches_proofs ------------------------
(***************************************************************************)
(* Coherence of CoherentCaches for every number of caches, of targets per  *)
(* MSHR and of stores.                                                     *)
(*                                                                         *)
(* The invariant IInv has three parts.  Protocol relates the caches to the *)
(* answers on their way (Routes) and to those that a cache in service has  *)
(* promised (Owed): every request in service has one or the other, whoever *)
(* claims the block is alone but for copies that are about to go, and the  *)
(* claims form a chain in the order in which they were sent.  Filter says  *)
(* that a cache the snoop filter does not know has nothing to say to a     *)
(* snoop, Crossbar that the routing tables hold the requests in service.   *)
(*                                                                         *)
(* First come lemmas about one cache (its register, a snoop, a fill), with *)
(* the two loops of the code by induction on their length; then those about *)
(* the caches after a request was sent (Sends) and after an answer arrived *)
(* (Received); then one lemma per action, and the theorems.                *)
(***************************************************************************)
EXTENDS CoherentCaches, MSHR_proofs, FiniteSetTheorems, WellFoundedInduction

(* Predicates of one cache: its request is in service, and asked for an    *)
(* exclusive copy or not; a later request will invalidate its fill; it     *)
(* holds the only up-to-date copy that can leave it.                       *)
Busy(c) == c.mshr.inService
Claiming(c) == Busy(c) /\ c.mshr.pendingDirty
Reading(c) == Busy(c) /\ ~c.mshr.pendingDirty
Doomed(c) == c.mshr.postInvalidate
Lowered(c) == c.mshr.postDowngrade
Owns(c) == (isDirty(c) /\ ~Busy(c)) \/ c.writeback.pending

(* What a snoop makes it say: it will supply the data, it has a copy.      *)
Supplies(c) == (Claiming(c) /\ ~Doomed(c)) \/ Owns(c)
Shares(c) == IF Busy(c) THEN ~Doomed(c) ELSE isValid(c) \/ c.writeback.pending

(* The kinds of targets.                                                   *)
IsLoad(t) == t.source = "FromCPU" /\ t.cmd = "ReadReq"
IsStore(t) == t.source = "FromCPU" /\ t.cmd = "WriteReq"
IsRead(t) == t.source = "FromSnoop" /\ t.cmd = "ReadReq"
IsClaim(t) == t.source = "FromSnoop" /\ t.cmd \in {"ReadExReq", "UpgradeReq"}
IsSnoop(t) == IsRead(t) \/ IsClaim(t)
HasStore(l) == \E k \in DOMAIN l : IsStore(l[k])

-----------------------------------------------------------------------------
(* Types.                                                                  *)
Regs == Registers({"none", "block"})
SnoopCmds == {"ReadReq", "ReadExReq", "UpgradeReq"}
Bits == {"Valid", "Readable", "Writable", "Dirty"}
RespCmds == {"ReadResp", "ReadRespWithInvalidate", "ReadExResp", "UpgradeResp"}
Responses ==
    [to : Caches, shared : BOOLEAN, memInhibit : BOOLEAN, cmd : RespCmds, data : Nat]
CacheRecords ==
    [status : SUBSET Bits, data : Nat, mshr : Regs,
     writeback : [data : Nat, pending : BOOLEAN], snoopRespQueue : Seq(Responses)]

(* The targets of a register: stores come before a saved read, a saved     *)
(* claim is the last target, and the flags remember the saved snoops.      *)
TargetsOK(m) ==
    /\ \A k \in DOMAIN m.targets.list :
          LET t == m.targets.list[k]
          IN  \/ IsLoad(t) \/ IsStore(t)
              \/ m.inService /\ IsRead(t) /\ m.pendingDirty /\ m.postDowngrade
              \/ /\ m.inService /\ IsClaim(t) /\ m.postInvalidate
                 /\ k = Len(m.targets.list)
    /\ \A j, k \in DOMAIN m.targets.list :
          j < k /\ IsRead(m.targets.list[j]) => ~IsStore(m.targets.list[k])
    /\ \A k \in DOMAIN m.deferredTargets.list :
          IsLoad(m.deferredTargets.list[k]) \/ IsStore(m.deferredTargets.list[k])

(* What the flags of a register say of its lists.                          *)
FlagsOK(m) ==
    /\ ~m.isForward /\ ~m.targets.hasUpgrade /\ ~m.deferredTargets.hasUpgrade
    /\ m.targets.needsExclusive <=> HasStore(m.targets.list)
    /\ m.deferredTargets.needsExclusive <=> HasStore(m.deferredTargets.list)
    /\ ~m.inService => m.deferredTargets.list = <<>>
    /\ m.inService =>
          /\ m.pendingDirty <=> m.targets.needsExclusive
          /\ m.postInvalidate => IsClaim(m.targets.list[Len(m.targets.list)])
          /\ m.deferredTargets.list # <<>> /\ ~m.postInvalidate =>
                m.deferredTargets.needsExclusive /\ (m.postDowngrade \/ ~m.pendingDirty)

RegOK(m) ==
    /\ m = FreeMSHR \/ (m.blkAddr = "block" /\ m.targets.list # <<>>)
    /\ TargetsOK(m) /\ FlagsOK(m)

(* The bits of a block with an MSHR and of one without.                    *)
Pending == {{}, {"Valid"}, {"Valid", "Dirty"}}
Settled == {{}, {"Valid", "Readable"}, {"Valid", "Readable", "Writable"},
            {"Valid", "Readable", "Dirty"}, {"Valid", "Readable", "Writable", "Dirty"}}

(* One cache.                                                              *)
CacheOK(c) ==
    /\ RegOK(c.mshr)
    /\ c.status \in IF HasMSHR(c) THEN Pending ELSE Settled
    /\ isValid(c) /\ HasMSHR(c) => c.mshr.targets.needsExclusive
    /\ c.writeback.pending => ~Busy(c) /\ ~isValid(c)
    /\ Busy(c) => c.snoopRespQueue = <<>>
    /\ isWritable(c) => c.snoopRespQueue = <<>>

-----------------------------------------------------------------------------
(* Induction, and the loops of forwardTiming and recvTimingResp.           *)
LEMMA Induction ==
    ASSUME NEW S, 0 \in S, \A n \in Nat : n \in S => n + 1 \in S
    PROVE  Nat \subseteq S
<1> DEFINE T == Nat \ S
           R == OpToRel(<, Nat)
<1> SUFFICES ASSUME T # {} PROVE FALSE
  OBVIOUS
<1>1. IsWellFoundedOn(R, Nat)
  BY NatLessThanWellFounded
<1>2. \A x, y \in Nat : y < x => <<y, x>> \in R
  BY DEF OpToRel
<1> HIDE DEF R
<1>3. PICK x \in T : \A y \in T : ~(<<y, x>> \in R)
  BY <1>1, WFMin
<1>4. x \in Nat /\ x # 0 /\ x - 1 \in Nat /\ x - 1 < x
  BY <1>3
<1>5. x - 1 \in S
  BY <1>2, <1>3, <1>4
<1> QED BY <1>3, <1>4, <1>5

(* The history of the loop over the targets.                               *)
Serving(f, n, filled, list, resp, inval) ==
    f = [i \in 0 .. n |-> IF i = 0 THEN filled
                          ELSE ServeTarget(f[i - 1], list[i], resp, inval)]

LEMMA ServingExists ==
    ASSUME NEW filled, NEW list, NEW resp, NEW inval
    PROVE  \A n \in Nat : \E f : Serving(f, n, filled, list, resp, inval)
<1> DEFINE S == {n \in Nat : \E f : Serving(f, n, filled, list, resp, inval)}
<1>1. 0 \in S
  <2> DEFINE f == [i \in 0 .. 0 |-> filled]
  <2>1. Serving(f, 0, filled, list, resp, inval)
    BY DEF Serving
  <2> QED BY <2>1
<1>2. ASSUME NEW n \in S PROVE n + 1 \in S
  <2>1. n \in Nat
    OBVIOUS
  <2>2. PICK f : Serving(f, n, filled, list, resp, inval)
    OBVIOUS
  <2> DEFINE h == [i \in 0 .. n + 1 |-> IF i = n + 1
                       THEN ServeTarget(f[n], list[n + 1], resp, inval) ELSE f[i]]
  <2>3. \A i \in 0 .. n : f[i] = IF i = 0 THEN filled
                                ELSE ServeTarget(f[i - 1], list[i], resp, inval)
    BY <2>2 DEF Serving
  <2>4. ASSUME NEW i \in 0 .. n + 1
        PROVE  h[i] = IF i = 0 THEN filled ELSE ServeTarget(h[i - 1], list[i], resp, inval)
    <3>1. CASE i = n + 1
      BY <2>1, <3>1
    <3>2. CASE i \in 0 .. n
      BY <2>1, <2>3, <3>2
    <3> QED BY <2>1, <3>1, <3>2
  <2>5. h = [i \in 0 .. n + 1 |-> h[i]]
    OBVIOUS
  <2> HIDE DEF h
  <2>6. Serving(h, n + 1, filled, list, resp, inval)
    BY <2>4, <2>5 DEF Serving
  <2> QED BY <2>1, <2>6
<1> HIDE DEF S
<1>3. Nat \subseteq S
  BY <1>1, <1>2, Induction
<1> QED BY <1>3 DEF S

ServeHistory(f, filled, list, resp, inval) ==
    /\ f[0] = filled
    /\ \A i \in 1 .. Len(list) : f[i] = ServeTarget(f[i - 1], list[i], resp, inval)
    /\ ServeTargets(filled, list, resp, inval) = f[Len(list)]

LEMMA ServeRun ==
    ASSUME NEW filled, NEW list, Len(list) \in Nat, NEW resp, NEW inval
    PROVE  \E f : ServeHistory(f, filled, list, resp, inval)
<1> DEFINE f[i \in 0 .. Len(list)] ==
               IF i = 0 THEN filled ELSE ServeTarget(f[i - 1], list[i], resp, inval)
<1>1. ServeTargets(filled, list, resp, inval) = f[Len(list)]
  BY DEF ServeTargets
<1>2. \E g : Serving(g, Len(list), filled, list, resp, inval)
  BY ServingExists
<1>3. Serving(f, Len(list), filled, list, resp, inval)
  BY <1>2 DEF Serving
<1> HIDE DEF f
<1>4. \A i \in 0 .. Len(list) : f[i] = IF i = 0 THEN filled
                              ELSE ServeTarget(f[i - 1], list[i], resp, inval)
  BY <1>3 DEF Serving
<1>5. f[0] = filled /\ \A i \in 1 .. Len(list) :
                           f[i] = ServeTarget(f[i - 1], list[i], resp, inval)
  BY <1>4
<1> QED BY <1>1, <1>5 DEF ServeHistory

(* The history of the loop over the snooped caches.                        *)
Forwarding(f, n, start, dests) ==
    f = [d \in 0 .. n |-> IF d = 0 THEN start ELSE Forward(f[d - 1], d, dests)]

LEMMA ForwardingExists ==
    ASSUME NEW start, NEW dests
    PROVE  \A n \in Nat : \E f : Forwarding(f, n, start, dests)
<1> DEFINE S == {n \in Nat : \E f : Forwarding(f, n, start, dests)}
<1>1. 0 \in S
  <2> DEFINE f == [i \in 0 .. 0 |-> start]
  <2>1. Forwarding(f, 0, start, dests)
    BY DEF Forwarding
  <2> QED BY <2>1
<1>2. ASSUME NEW n \in S PROVE n + 1 \in S
  <2>1. n \in Nat
    OBVIOUS
  <2>2. PICK f : Forwarding(f, n, start, dests)
    OBVIOUS
  <2> DEFINE h == [i \in 0 .. n + 1 |-> IF i = n + 1 THEN Forward(f[n], n + 1, dests)
                                        ELSE f[i]]
  <2>3. \A i \in 0 .. n : f[i] = IF i = 0 THEN start ELSE Forward(f[i - 1], i, dests)
    BY <2>2 DEF Forwarding
  <2>4. ASSUME NEW i \in 0 .. n + 1
        PROVE  h[i] = IF i = 0 THEN start ELSE Forward(h[i - 1], i, dests)
    <3>1. CASE i = n + 1
      BY <2>1, <3>1
    <3>2. CASE i \in 0 .. n
      BY <2>1, <2>3, <3>2
    <3> QED BY <2>1, <3>1, <3>2
  <2>5. h = [i \in 0 .. n + 1 |-> h[i]]
    OBVIOUS
  <2> HIDE DEF h
  <2>6. Forwarding(h, n + 1, start, dests)
    BY <2>4, <2>5 DEF Forwarding
  <2> QED BY <2>1, <2>6
<1> HIDE DEF S
<1>3. Nat \subseteq S
  BY <1>1, <1>2, Induction
<1> QED BY <1>3 DEF S

LEMMA ForwardRun ==
    ASSUME NEW pkt, NEW dests
    PROVE  \E f : /\ f[0] = [cache |-> cache, pkt |-> pkt, ok |-> TRUE]
                  /\ \A d \in Caches : f[d] = Forward(f[d - 1], d, dests)
                  /\ forwardTiming(pkt, dests) = f[NumCaches]
<1> DEFINE start == [cache |-> cache, pkt |-> pkt, ok |-> TRUE]
           f[d \in 0 .. NumCaches] == IF d = 0 THEN start ELSE Forward(f[d - 1], d, dests)
<1>1. forwardTiming(pkt, dests) = f[NumCaches]
  BY DEF forwardTiming
<1>0. NumCaches \in Nat
  BY CacheAssumption
<1>2. \E g : Forwarding(g, NumCaches, start, dests)
  BY <1>0, ForwardingExists
<1>3. Forwarding(f, NumCaches, start, dests)
  BY <1>2 DEF Forwarding
<1> HIDE DEF f, start
<1>4. \A d \in 0 .. NumCaches : f[d] = IF d = 0 THEN start ELSE Forward(f[d - 1], d, dests)
  BY <1>3 DEF Forwarding
<1>5. f[0] = start /\ \A d \in Caches : f[d] = Forward(f[d - 1], d, dests)
  BY <1>0, <1>4 DEF Caches
<1> QED BY <1>1, <1>5 DEF start


-----------------------------------------------------------------------------
(* The register of a cache.                                                *)
LEMMA RegFields ==
    ASSUME NEW m \in Regs
    PROVE  /\ m.blkAddr \in {"none", "block"} /\ m.inService \in BOOLEAN
           /\ m.isForward \in BOOLEAN /\ m.pendingDirty \in BOOLEAN
           /\ m.postInvalidate \in BOOLEAN /\ m.postDowngrade \in BOOLEAN
           /\ m.targets \in TargetLists /\ m.deferredTargets \in TargetLists
           /\ m.targets.list \in Seq(Targets) /\ m.deferredTargets.list \in Seq(Targets)
           /\ Len(m.targets.list) \in Nat
           /\ DOMAIN m.targets.list = 1 .. Len(m.targets.list)
           /\ DOMAIN m.deferredTargets.list = 1 .. Len(m.deferredTargets.list)
           /\ Len(m.deferredTargets.list) \in Nat
           /\ m.targets.needsExclusive \in BOOLEAN
           /\ m.deferredTargets.needsExclusive \in BOOLEAN
<1>1. /\ m.blkAddr \in {"none", "block"} /\ m.inService \in BOOLEAN
      /\ m.isForward \in BOOLEAN /\ m.pendingDirty \in BOOLEAN
      /\ m.postInvalidate \in BOOLEAN /\ m.postDowngrade \in BOOLEAN
      /\ m.targets \in TargetLists /\ m.deferredTargets \in TargetLists
  BY RegisterFacts DEF Regs
<1> QED BY <1>1, ListFacts

LEMMA FreeReg ==
    /\ FreeMSHR \in Regs /\ RegOK(FreeMSHR)
    /\ ~FreeMSHR.inService /\ FreeMSHR.targets.list = <<>>
    /\ FreeMSHR.deferredTargets.list = <<>>
    /\ ~FreeMSHR.targets.needsExclusive
<1>1. FreeMSHR \in Regs
  BY FreeFacts DEF Regs
<1>2. /\ FreeMSHR.targets = EmptyTargets /\ FreeMSHR.deferredTargets = EmptyTargets
      /\ ~FreeMSHR.inService /\ ~FreeMSHR.isForward
  BY DEF FreeMSHR
<1>3. EmptyTargets.list = <<>> /\ ~EmptyTargets.needsExclusive /\ ~EmptyTargets.hasUpgrade
  BY DEF EmptyTargets
<1>4. TargetsOK(FreeMSHR) /\ FlagsOK(FreeMSHR)
  BY <1>2, <1>3 DEF TargetsOK, FlagsOK, HasStore
<1> QED BY <1>1, <1>2, <1>3, <1>4 DEF RegOK

(* Kinds of targets that the operations make.                              *)
LEMMA NewTargets ==
    ASSUME NEW when \in Nat, NEW from \in Nat
    PROVE  /\ \A cmd \in {"ReadReq", "WriteReq"} :
                 /\ Target(cmd, "FromCPU", when, 0) \in Targets
                 /\ Target(cmd, "FromCPU", when, 0).readyTime = when
                 /\ Target(cmd, "FromCPU", when, 0).source = "FromCPU"
                 /\ Target(cmd, "FromCPU", when, 0).cmd = cmd
                 /\ IsLoad(Target(cmd, "FromCPU", when, 0)) <=> cmd = "ReadReq"
                 /\ IsStore(Target(cmd, "FromCPU", when, 0)) <=> cmd = "WriteReq"
                 /\ ~IsSnoop(Target(cmd, "FromCPU", when, 0))
           /\ \A cmd \in {"ReadReq", "ReadExReq", "UpgradeReq"} :
                 /\ Target(cmd, "FromSnoop", 0, from) \in Targets
                 /\ Target(cmd, "FromSnoop", 0, from).source = "FromSnoop"
                 /\ Target(cmd, "FromSnoop", 0, from).cmd = cmd
                 /\ Target(cmd, "FromSnoop", 0, from).order = from
                 /\ Target(cmd, "FromSnoop", 0, from).readyTime = 0
                 /\ ~IsLoad(Target(cmd, "FromSnoop", 0, from))
                 /\ ~IsStore(Target(cmd, "FromSnoop", 0, from))
                 /\ IsRead(Target(cmd, "FromSnoop", 0, from)) <=> cmd = "ReadReq"
                 /\ IsClaim(Target(cmd, "FromSnoop", 0, from)) <=> cmd # "ReadReq"
  BY DEF Target, Targets, Commands, Sources, IsLoad, IsStore, IsRead, IsClaim, IsSnoop

(* A CPU request allocates the register.                                   *)
LEMMA RegAllocate ==
    ASSUME NEW cmd \in {"ReadReq", "WriteReq"}, NEW when \in Nat,
           NEW m, m = [MSHR_allocate("block", cmd, when, 0) EXCEPT !.readyTime = 0]
    PROVE  /\ m \in Regs /\ RegOK(m) /\ m # FreeMSHR /\ ~m.inService
           /\ DOMAIN m.targets.list = {1}
           /\ m.targets.list[1] = Target(cmd, "FromCPU", when, 0)
           /\ m.deferredTargets.list = <<>>
           /\ m.targets.needsExclusive <=> cmd = "WriteReq"
<1> DEFINE t == Target(cmd, "FromCPU", when, 0)
           l == TargetList_add(EmptyTargets, t)
<1>1. t \in Targets /\ (IsLoad(t) <=> cmd = "ReadReq") /\ (IsStore(t) <=> cmd = "WriteReq")
      /\ t.source = "FromCPU" /\ t.cmd = cmd
  BY NewTargets
<1>2. /\ EmptyTargets \in TargetLists /\ EmptyTargets.list = <<>>
      /\ ~EmptyTargets.needsExclusive /\ ~EmptyTargets.hasUpgrade
  BY FreeFacts DEF EmptyTargets
<1> HIDE DEF t
<1>3. /\ l \in TargetLists /\ l.list # <<>> /\ DOMAIN l.list = 1 .. 1 /\ l.list[1] = t
      /\ l.needsExclusive <=> cmd = "WriteReq"
      /\ ~l.hasUpgrade
  BY <1>1, <1>2, AddFacts DEF NeedsExclusive
<1>4. m = [FreeMSHR EXCEPT !.blkAddr = "block", !.order = 0, !.readyTime = 0, !.targets = l]
  BY DEF MSHR_allocate, FreeMSHR, t
<1> HIDE DEF l
<1>5. /\ m \in Regs /\ m.targets = l /\ m.deferredTargets = EmptyTargets
      /\ ~m.inService /\ ~m.isForward /\ m.blkAddr = "block" /\ m # FreeMSHR
  <2>1. FreeMSHR \in Regs
    BY FreeReg
  <2>2. /\ m \in Regs /\ m.targets = l /\ m.deferredTargets = FreeMSHR.deferredTargets
        /\ m.inService = FreeMSHR.inService /\ m.isForward = FreeMSHR.isForward
        /\ m.blkAddr = "block"
    <3>1. l \in TargetLists
      BY <1>3
    <3> QED BY ONLY <1>4, <2>1, <3>1 DEF Regs, Registers
  <2> QED BY <2>2 DEF FreeMSHR
<1>6. TargetsOK(m)
  BY <1>1, <1>2, <1>3, <1>5 DEF TargetsOK, IsRead
<1>7. FlagsOK(m)
  BY <1>1, <1>2, <1>3, <1>5 DEF FlagsOK, HasStore
<1> QED BY <1>1, <1>2, <1>3, <1>5, <1>6, <1>7 DEF RegOK, t

(* A CPU request joins the register: what it leaves alone.                 *)
Joins(m2, m, t) ==
    /\ m2.inService = m.inService /\ m2.pendingDirty = m.pendingDirty
    /\ m2.postInvalidate = m.postInvalidate /\ m2.postDowngrade = m.postDowngrade
    /\ m.targets.needsExclusive => m2.targets.needsExclusive
    /\ \A k \in DOMAIN m.targets.list :
          k \in DOMAIN m2.targets.list /\ m2.targets.list[k] = m.targets.list[k]
    /\ \A k \in DOMAIN m2.targets.list :
          \/ k \in DOMAIN m.targets.list
          \/ m2.targets.list[k] = t /\ ~(m.inService /\ m.postInvalidate)
    /\ \A k \in DOMAIN m2.deferredTargets.list :
          \/ /\ k \in DOMAIN m.deferredTargets.list
             /\ m2.deferredTargets.list[k] = m.deferredTargets.list[k]
          \/ m2.deferredTargets.list[k] = t

LEMMA RegJoin ==
    ASSUME NEW m \in Regs, RegOK(m), m # FreeMSHR,
           NEW cmd \in {"ReadReq", "WriteReq"}, NEW when \in Nat,
           NEW m2, m2 = MSHR_allocateTarget(m, cmd, when, 0)
    PROVE  /\ m2 \in Regs /\ RegOK(m2) /\ m2 # FreeMSHR
           /\ Joins(m2, m, Target(cmd, "FromCPU", when, 0))
<1> DEFINE t == Target(cmd, "FromCPU", when, 0)
           d == m.deferredTargets
           defer == /\ m.inService
                    /\ \/ d.list # <<>> \/ m.postInvalidate
                       \/ /\ NeedsExclusive(cmd)
                          /\ (~m.pendingDirty \/ m.postDowngrade \/ m.isForward)
<1>1. t \in Targets /\ (IsLoad(t) <=> cmd = "ReadReq") /\ (IsStore(t) <=> cmd = "WriteReq")
      /\ t.source = "FromCPU" /\ t.cmd = cmd /\ ~IsSnoop(t)
  BY NewTargets
<1>2. replaceUpgrade(t) = t
  BY <1>1 DEF replaceUpgrade
<1>3. m2 = IF defer THEN [m EXCEPT !.deferredTargets = TargetList_add(d, t)]
           ELSE [m EXCEPT !.targets = TargetList_add(m.targets, t)]
  BY <1>2 DEF MSHR_allocateTarget
<1>4. NeedsExclusive(cmd) <=> cmd = "WriteReq"
  BY DEF NeedsExclusive
<1>5. m.blkAddr = "block" /\ m.targets.list # <<>> /\ TargetsOK(m) /\ FlagsOK(m)
  BY DEF RegOK
<1>6. CASE defer
  <2> DEFINE l == TargetList_add(d, t)
  <2>1. /\ l \in TargetLists /\ l.list # <<>>
        /\ DOMAIN l.list = 1 .. Len(d.list) + 1 /\ l.list[Len(d.list) + 1] = t
        /\ \A k \in DOMAIN d.list : l.list[k] = d.list[k]
        /\ \A k \in DOMAIN l.list :
               (k \in DOMAIN d.list /\ l.list[k] = d.list[k]) \/ l.list[k] = t
        /\ l.needsExclusive <=> d.needsExclusive \/ cmd = "WriteReq"
        /\ ~l.hasUpgrade
    <3>1. d \in TargetLists /\ ~d.hasUpgrade
      BY <1>5, RegFields DEF FlagsOK
    <3> HIDE DEF d, t
    <3> QED BY <1>1, <1>4, <3>1, AddFacts
  <2>2. DOMAIN d.list = 1 .. Len(d.list) /\ Len(d.list) \in Nat
    BY RegFields
  <2> HIDE DEF t, l, d
  <2>3. /\ m2 \in Regs /\ m2.deferredTargets = l /\ m2.targets = m.targets
        /\ m2.inService = m.inService /\ m2.isForward = m.isForward
        /\ m2.blkAddr = "block" /\ m2.pendingDirty = m.pendingDirty
        /\ m2.postInvalidate = m.postInvalidate /\ m2.postDowngrade = m.postDowngrade
    BY <1>3, <1>5, <1>6, <2>1 DEF Regs, Registers, l
  <2>4. m2 # FreeMSHR
    BY <2>3 DEF FreeMSHR
  <2>5. TargetsOK(m2)
    BY <1>1, <1>5, <2>1, <2>3 DEF TargetsOK, d
  <2>6. l.needsExclusive <=> HasStore(l.list)
    BY <1>1, <1>5, <2>1, <2>2 DEF FlagsOK, HasStore, d
  <2>7. ~m.postInvalidate => l.needsExclusive /\ (m.postDowngrade \/ ~m.pendingDirty)
    BY <1>4, <1>5, <1>6, <2>1 DEF FlagsOK, d
  <2>8. FlagsOK(m2)
    BY <1>5, <1>6, <2>3, <2>1, <2>6, <2>7 DEF FlagsOK
  <2> QED BY <1>5, <2>1, <2>3, <2>4, <2>5, <2>8 DEF RegOK, Joins, t, d
<1>7. CASE ~defer
  <2> DEFINE l == TargetList_add(m.targets, t)
             o == m.targets.list
  <2>1. /\ l \in TargetLists /\ l.list # <<>>
        /\ DOMAIN l.list = 1 .. Len(o) + 1 /\ l.list[Len(o) + 1] = t
        /\ \A k \in DOMAIN o : l.list[k] = o[k]
        /\ \A k \in DOMAIN l.list :
               (k \in DOMAIN o /\ l.list[k] = o[k]) \/ l.list[k] = t
        /\ l.needsExclusive <=> m.targets.needsExclusive \/ cmd = "WriteReq"
        /\ ~l.hasUpgrade
    <3>1. m.targets \in TargetLists /\ ~m.targets.hasUpgrade
      BY <1>5, RegFields DEF FlagsOK
    <3> HIDE DEF t
    <3> QED BY <1>1, <1>4, <3>1, AddFacts
  <2>2. DOMAIN o = 1 .. Len(o) /\ Len(o) \in Nat
    BY RegFields
  <2> HIDE DEF t, l
  <2>3. /\ m2 \in Regs /\ m2.targets = l /\ m2.deferredTargets = d
        /\ m2.inService = m.inService /\ m2.isForward = m.isForward
        /\ m2.blkAddr = "block" /\ m2.pendingDirty = m.pendingDirty
        /\ m2.postInvalidate = m.postInvalidate /\ m2.postDowngrade = m.postDowngrade
    BY <1>3, <1>5, <1>7, <2>1 DEF Regs, Registers, l
  <2>4. m2 # FreeMSHR
    BY <2>3 DEF FreeMSHR
  <2>5. m.inService => ~m.postInvalidate /\ (cmd = "WriteReq" => m.pendingDirty /\ ~m.postDowngrade)
    BY <1>4, <1>7
  <2>6. \A k \in DOMAIN o :
          \/ IsLoad(o[k]) \/ IsStore(o[k])
          \/ m.inService /\ IsRead(o[k]) /\ m.pendingDirty /\ m.postDowngrade
    BY <1>5, <2>5 DEF TargetsOK
  <2>7. \A k \in DOMAIN o : cmd = "WriteReq" => ~IsRead(o[k])
    BY <2>5, <2>6 DEF IsRead, IsLoad, IsStore
  <2>8. \A j, k \in DOMAIN l.list : j < k /\ IsRead(l.list[j]) => ~IsStore(l.list[k])
    <3> SUFFICES ASSUME NEW j \in DOMAIN l.list, NEW k \in DOMAIN l.list, j < k,
                        IsRead(l.list[j])
                 PROVE  ~IsStore(l.list[k])
      OBVIOUS
    <3>1. j \in DOMAIN o /\ l.list[j] = o[j]
      BY <2>1, <2>2
    <3>2. CASE k \in DOMAIN o
      BY <1>5, <2>1, <3>1, <3>2 DEF TargetsOK
    <3>3. CASE k \notin DOMAIN o
      BY <1>1, <2>1, <2>7, <3>1, <3>3
    <3> QED BY <3>2, <3>3
  <2>9. TargetsOK(m2)
    <3>1. \A k \in DOMAIN l.list :
            \/ IsLoad(l.list[k]) \/ IsStore(l.list[k])
            \/ m.inService /\ IsRead(l.list[k]) /\ m.pendingDirty /\ m.postDowngrade
      BY <1>1, <2>1, <2>6
    <3> QED BY <1>5, <2>3, <2>8, <3>1 DEF TargetsOK
  <2>10. l.needsExclusive <=> HasStore(l.list)
    BY <1>1, <1>5, <2>1, <2>2 DEF FlagsOK, HasStore
  <2>11. FlagsOK(m2)
    BY <1>5, <2>3, <2>1, <2>5, <2>10 DEF FlagsOK
  <2>12. Joins(m2, m, t)
    BY <2>1, <2>2, <2>3, <2>5 DEF Joins, d
  <2> QED BY <2>1, <2>3, <2>4, <2>9, <2>11, <2>12 DEF RegOK, t
<1> QED BY <1>6, <1>7

(* A snoop meets the register: what becomes of it.                         *)
SavedSnoop(m, cmd, from) == TargetList_add(m.targets, Target(cmd, "FromSnoop", 0, from))

SnoopedReg(m, cmd, from) ==
    IF ~m.inService \/ m.postInvalidate THEN m
    ELSE IF cmd # "ReadReq"
         THEN [m EXCEPT !.targets = SavedSnoop(m, cmd, from), !.postInvalidate = TRUE]
    ELSE IF m.pendingDirty
         THEN [m EXCEPT !.targets = SavedSnoop(m, cmd, from), !.postDowngrade = TRUE]
    ELSE [m EXCEPT !.postDowngrade = TRUE]

LEMMA RegSnoop ==
    ASSUME NEW m \in Regs, RegOK(m), NEW from,
           NEW cmd \in SnoopCmds,
           NEW s, s = MSHR_handleSnoop(m, cmd, from)
    PROVE  /\ s.mshr = SnoopedReg(m, cmd, from)
           /\ s.handled = m.inService
           /\ s.memInhibit <=> /\ m.inService /\ ~m.postInvalidate /\ m.pendingDirty
           /\ s.shared <=> m.inService /\ ~m.postInvalidate /\ cmd = "ReadReq"
<1> DEFINE up == [m EXCEPT !.targets = IF NeedsExclusive(cmd) /\ ~m.inService
                                          THEN replaceUpgrades(m.targets) ELSE m.targets,
                              !.deferredTargets = IF NeedsExclusive(cmd)
                                                  THEN replaceUpgrades(m.deferredTargets)
                                                  ELSE m.deferredTargets]
           save == m.inService /\ ~m.postInvalidate /\ (m.pendingDirty \/ IsInvalidate(cmd))
           down == m.inService /\ ~m.postInvalidate /\ ~NeedsExclusive(cmd)
           sv == IF save
                 THEN [up EXCEPT
                         !.targets = TargetList_add(up.targets, Target(cmd, "FromSnoop", 0, from)),
                         !.postInvalidate = NeedsExclusive(cmd)]
                 ELSE up
<1>1. /\ replaceUpgrades(m.targets) = m.targets
      /\ replaceUpgrades(m.deferredTargets) = m.deferredTargets
  BY DEF RegOK, FlagsOK, replaceUpgrades
<1>2. up = m
  <2>1. up = [m EXCEPT !.targets = m.targets, !.deferredTargets = m.deferredTargets]
    BY <1>1
  <2> HIDE DEF up
  <2> QED BY <2>1 DEF Regs, Registers
<1>3. /\ NeedsExclusive(cmd) <=> cmd # "ReadReq"
      /\ IsInvalidate(cmd) <=> cmd # "ReadReq"
  BY DEF NeedsExclusive, IsInvalidate, SnoopCmds
<1>4. /\ s.mshr = IF down THEN [sv EXCEPT !.postDowngrade = TRUE] ELSE sv
      /\ s.handled = m.inService
      /\ s.memInhibit = (save /\ m.pendingDirty) /\ s.shared = down
  BY DEF MSHR_handleSnoop
<1> HIDE DEF up
<1>5. m.postInvalidate \in BOOLEAN /\ m.pendingDirty \in BOOLEAN /\ m.inService \in BOOLEAN
  BY RegFields
<1>6. sv = IF save THEN [m EXCEPT !.targets = SavedSnoop(m, cmd, from),
                                  !.postInvalidate = (cmd # "ReadReq")] ELSE m
  <2>1. NeedsExclusive(cmd) = (cmd # "ReadReq")
    BY <1>3 DEF NeedsExclusive
  <2> QED BY <1>2, <2>1 DEF SavedSnoop
<1>7. s.memInhibit <=> (save /\ m.pendingDirty)
  BY <1>4
<1>8. s.shared <=> down
  BY <1>4
<1> HIDE DEF sv
<1>9. CASE ~m.inService \/ m.postInvalidate
  BY <1>3, <1>4, <1>5, <1>6, <1>7, <1>8, <1>9 DEF SnoopedReg
<1>10. CASE m.inService /\ ~m.postInvalidate /\ cmd # "ReadReq"
  BY <1>3, <1>4, <1>5, <1>6, <1>7, <1>8, <1>10 DEF SnoopedReg
<1>11. CASE m.inService /\ ~m.postInvalidate /\ cmd = "ReadReq" /\ ~m.pendingDirty
  BY <1>3, <1>4, <1>5, <1>6, <1>7, <1>8, <1>11 DEF SnoopedReg
<1>12. CASE m.inService /\ ~m.postInvalidate /\ cmd = "ReadReq" /\ m.pendingDirty
  <2>1. sv = [m EXCEPT !.targets = SavedSnoop(m, cmd, from), !.postInvalidate = FALSE]
    BY <1>6, <1>12
  <2>2. m.postInvalidate = FALSE
    BY <1>5, <1>12
  <2>3. s.mshr = [sv EXCEPT !.postDowngrade = TRUE]
    BY <1>3, <1>4, <1>12
  <2>4. s.mshr = [m EXCEPT !.targets = SavedSnoop(m, cmd, from), !.postDowngrade = TRUE]
    BY ONLY <2>1, <2>2, <2>3, m \in Regs DEF Regs, Registers
  <2> QED BY <1>3, <1>4, <1>7, <1>8, <1>12, <2>4 DEF SnoopedReg
<1> QED BY <1>5, <1>9, <1>10, <1>11, <1>12

(* What a snoop leaves alone, and what it adds.                            *)
Meets(m2, m, cmd, from) ==
    /\ m2.inService = m.inService /\ m2.pendingDirty = m.pendingDirty
    /\ m2.deferredTargets = m.deferredTargets
    /\ m2.targets.needsExclusive <=> m.targets.needsExclusive
    /\ ~m.inService \/ m.postInvalidate => m2 = m
    /\ m.inService => (m2.postInvalidate <=> m.postInvalidate \/ cmd # "ReadReq")
    /\ m.inService => (m2.postDowngrade <=>
                          m.postDowngrade \/ (~m.postInvalidate /\ cmd = "ReadReq"))
    /\ \A k \in DOMAIN m.targets.list :
          k \in DOMAIN m2.targets.list /\ m2.targets.list[k] = m.targets.list[k]
    /\ \A k \in DOMAIN m2.targets.list :
          \/ k \in DOMAIN m.targets.list
          \/ /\ k = Len(m.targets.list) + 1
             /\ m2.targets.list[k] = Target(cmd, "FromSnoop", 0, from)
             /\ m.inService /\ ~m.postInvalidate /\ (m.pendingDirty \/ cmd # "ReadReq")
    /\ m.inService /\ ~m.postInvalidate /\ m.pendingDirty =>
          /\ Len(m.targets.list) + 1 \in DOMAIN m2.targets.list
          /\ m2.targets.list[Len(m.targets.list) + 1] = Target(cmd, "FromSnoop", 0, from)

LEMMA RegSnooped ==
    ASSUME NEW m \in Regs, RegOK(m), NEW from \in Nat,
           NEW cmd \in SnoopCmds,
           NEW m2, m2 = SnoopedReg(m, cmd, from)
    PROVE  m2 \in Regs /\ RegOK(m2) /\ Meets(m2, m, cmd, from) /\ (m2 = FreeMSHR <=> m = FreeMSHR)
<1> DEFINE t == Target(cmd, "FromSnoop", 0, from)
           l == SavedSnoop(m, cmd, from)
           o == m.targets.list
<1>1. /\ t \in Targets /\ t.source = "FromSnoop" /\ ~IsLoad(t) /\ ~IsStore(t)
      /\ IsRead(t) <=> cmd = "ReadReq"
      /\ IsClaim(t) <=> cmd # "ReadReq"
  BY NewTargets DEF SnoopCmds
<1>2. /\ m.postInvalidate \in BOOLEAN /\ m.pendingDirty \in BOOLEAN /\ m.inService \in BOOLEAN
      /\ m.postDowngrade \in BOOLEAN /\ DOMAIN o = 1 .. Len(o) /\ Len(o) \in Nat
  BY RegFields
<1>3. CASE ~m.inService \/ m.postInvalidate
  <2>1. m2 = m
    BY <1>2, <1>3 DEF SnoopedReg
  <2> QED BY <1>2, <1>3, <2>1 DEF Meets
<1>4. CASE m.inService /\ ~m.postInvalidate
  <2>1. /\ m # FreeMSHR /\ m.blkAddr = "block" /\ TargetsOK(m) /\ FlagsOK(m) /\ o # <<>>
    BY <1>4, FreeReg DEF RegOK
  <2>2. /\ l \in TargetLists /\ l.list # <<>>
        /\ DOMAIN l.list = 1 .. Len(o) + 1 /\ l.list[Len(o) + 1] = t
        /\ \A k \in DOMAIN o : l.list[k] = o[k]
        /\ l.needsExclusive <=> m.targets.needsExclusive
        /\ ~l.hasUpgrade
    <3>1. m.targets \in TargetLists /\ ~m.targets.hasUpgrade
      BY <2>1, RegFields DEF FlagsOK
    <3> HIDE DEF t
    <3>2. l = TargetList_add(m.targets, t)
      BY DEF SavedSnoop, t
    <3> QED BY <1>1, <3>1, <3>2, AddFacts
  <2>3. l.needsExclusive <=> HasStore(l.list)
    <3>1. m.targets.needsExclusive <=> HasStore(o)
      BY <2>1 DEF FlagsOK
    <3> HIDE DEF t, l
    <3>2. HasStore(o) <=> HasStore(l.list)
      BY <1>1, <1>2, <2>2 DEF HasStore
    <3> QED BY <2>2, <3>1, <3>2
  <2>4. \A k \in DOMAIN o :
          \/ IsLoad(o[k]) \/ IsStore(o[k])
          \/ m.inService /\ IsRead(o[k]) /\ m.pendingDirty /\ m.postDowngrade
    BY <1>4, <2>1 DEF TargetsOK
  <2>5. \A j, k \in DOMAIN l.list : j < k /\ IsRead(l.list[j]) => ~IsStore(l.list[k])
    <3> SUFFICES ASSUME NEW j \in DOMAIN l.list, NEW k \in DOMAIN l.list, j < k,
                        IsRead(l.list[j])
                 PROVE  ~IsStore(l.list[k])
      OBVIOUS
    <3> HIDE DEF t, l
    <3>1. j \in DOMAIN o /\ l.list[j] = o[j]
      BY <1>2, <2>2
    <3>2. CASE k \in DOMAIN o
      BY <2>1, <2>2, <3>1, <3>2 DEF TargetsOK
    <3>3. CASE k \notin DOMAIN o
      BY <1>1, <1>2, <2>2, <3>3
    <3> QED BY <3>2, <3>3
  <2> HIDE DEF t, l
  <2>6. CASE cmd # "ReadReq"
    <3>1. m2 = [m EXCEPT !.targets = l, !.postInvalidate = TRUE]
      BY <1>4, <2>6 DEF SnoopedReg, l
    <3>2. l \in TargetLists
      BY <2>2
    <3>3. /\ m2 \in Regs /\ m2.targets = l /\ m2.deferredTargets = m.deferredTargets
          /\ m2.inService = m.inService /\ m2.isForward = m.isForward
          /\ m2.blkAddr = m.blkAddr /\ m2.pendingDirty = m.pendingDirty
          /\ m2.postInvalidate = TRUE /\ m2.postDowngrade = m.postDowngrade
      BY ONLY <3>1, <3>2, m \in Regs DEF Regs, Registers
    <3>4. Len(l.list) = Len(o) + 1
      BY <1>2, <2>2, <3>2, ListFacts
    <3>5. TargetsOK(m2)
      <4>1. \A k \in DOMAIN l.list :
              \/ IsLoad(l.list[k]) \/ IsStore(l.list[k])
              \/ m2.inService /\ IsRead(l.list[k]) /\ m2.pendingDirty /\ m2.postDowngrade
              \/ m2.inService /\ IsClaim(l.list[k]) /\ m2.postInvalidate /\ k = Len(l.list)
        BY <1>1, <1>2, <1>4, <2>2, <2>4, <2>6, <3>3, <3>4
      <4> QED BY <2>1, <2>5, <3>3, <4>1 DEF TargetsOK
    <3>6. FlagsOK(m2)
      BY <1>1, <1>4, <2>1, <2>2, <2>3, <2>6, <3>3, <3>4 DEF FlagsOK
    <3>7. Meets(m2, m, cmd, from)
      BY <1>2, <1>4, <2>2, <2>6, <3>3 DEF Meets, t
    <3>8. m2 # FreeMSHR
      BY <2>1, <3>3 DEF FreeMSHR
    <3> QED BY <2>1, <2>2, <3>3, <3>5, <3>6, <3>7, <3>8 DEF RegOK
  <2>7. CASE cmd = "ReadReq" /\ m.pendingDirty
    <3>1. m2 = [m EXCEPT !.targets = l, !.postDowngrade = TRUE]
      BY <1>4, <2>7 DEF SnoopedReg, l
    <3>2. l \in TargetLists
      BY <2>2
    <3>3. /\ m2 \in Regs /\ m2.targets = l /\ m2.deferredTargets = m.deferredTargets
          /\ m2.inService = m.inService /\ m2.isForward = m.isForward
          /\ m2.blkAddr = m.blkAddr /\ m2.pendingDirty = m.pendingDirty
          /\ m2.postInvalidate = m.postInvalidate /\ m2.postDowngrade = TRUE
      BY ONLY <3>1, <3>2, m \in Regs DEF Regs, Registers
    <3>5. TargetsOK(m2)
      <4>1. \A k \in DOMAIN l.list :
              \/ IsLoad(l.list[k]) \/ IsStore(l.list[k])
              \/ m2.inService /\ IsRead(l.list[k]) /\ m2.pendingDirty /\ m2.postDowngrade
        <5>1. m2.inService /\ m2.pendingDirty /\ m2.postDowngrade /\ IsRead(t)
          BY <1>1, <1>4, <2>7, <3>3
        <5>2. \A k \in DOMAIN l.list : k \in DOMAIN o \/ l.list[k] = t
          BY <1>2, <2>2
        <5> QED BY <2>2, <2>4, <5>1, <5>2
      <4> QED BY <2>1, <2>5, <3>3, <4>1 DEF TargetsOK
    <3>6. FlagsOK(m2)
      BY <1>4, <2>1, <2>2, <2>3, <2>7, <3>3 DEF FlagsOK
    <3>7. Meets(m2, m, cmd, from)
      <4>1. /\ \A k \in DOMAIN o : k \in DOMAIN l.list /\ l.list[k] = o[k]
            /\ \A k \in DOMAIN l.list : k \in DOMAIN o \/ (k = Len(o) + 1 /\ l.list[k] = t)
            /\ Len(o) + 1 \in DOMAIN l.list
        BY <1>2, <2>2
      <4> QED BY <1>2, <1>4, <2>2, <2>7, <3>3, <4>1 DEF Meets, t
    <3>8. m2 # FreeMSHR
      BY <2>1, <3>3 DEF FreeMSHR
    <3> QED BY <2>1, <2>2, <3>3, <3>5, <3>6, <3>7, <3>8 DEF RegOK
  <2>8. CASE cmd = "ReadReq" /\ ~m.pendingDirty
    <3>1. m2 = [m EXCEPT !.postDowngrade = TRUE]
      BY <1>4, <2>8 DEF SnoopedReg
    <3>3. /\ m2 \in Regs /\ m2.targets = m.targets /\ m2.deferredTargets = m.deferredTargets
          /\ m2.inService = m.inService /\ m2.isForward = m.isForward
          /\ m2.blkAddr = m.blkAddr /\ m2.pendingDirty = m.pendingDirty
          /\ m2.postInvalidate = m.postInvalidate /\ m2.postDowngrade = TRUE
      BY ONLY <3>1, m \in Regs DEF Regs, Registers
    <3>5. TargetsOK(m2)
      BY <2>1, <3>3 DEF TargetsOK
    <3>6. FlagsOK(m2)
      BY <2>1, <3>3 DEF FlagsOK
    <3>7. Meets(m2, m, cmd, from)
      BY <1>2, <1>4, <2>8, <3>3 DEF Meets
    <3>8. m2 # FreeMSHR
      BY <2>1, <3>3 DEF FreeMSHR
    <3> QED BY <2>1, <3>3, <3>5, <3>6, <3>7, <3>8 DEF RegOK
  <2> QED BY <1>2, <2>6, <2>7, <2>8
<1> QED BY <1>2, <1>3, <1>4

(* The request of the register is sent.                                    *)
LEMMA RegMark ==
    ASSUME NEW m \in Regs, RegOK(m), m # FreeMSHR, ~m.inService,
           NEW pd \in BOOLEAN, pd => m.targets.needsExclusive,
           NEW m2, m2 = MSHR_markInService(m, pd)
    PROVE  /\ m2 \in Regs /\ RegOK(m2) /\ m2 # FreeMSHR
           /\ m2.inService /\ ~m2.postInvalidate /\ ~m2.postDowngrade
           /\ m2.targets = m.targets /\ m2.deferredTargets = m.deferredTargets
           /\ m2.pendingDirty <=> m.targets.needsExclusive
           /\ \A k \in DOMAIN m.targets.list :
                 IsLoad(m.targets.list[k]) \/ IsStore(m.targets.list[k])
<1>1. m.targets.needsExclusive \in BOOLEAN /\ m.inService = FALSE
  BY RegFields
<1>2. (m.targets.needsExclusive \/ pd) = m.targets.needsExclusive
  BY <1>1
<1>3. m2 = [m EXCEPT !.inService = TRUE, !.pendingDirty = m.targets.needsExclusive,
                     !.postInvalidate = FALSE, !.postDowngrade = FALSE]
  BY <1>2 DEF MSHR_markInService
<1>4. /\ m2 \in Regs /\ m2.inService = TRUE /\ m2.postInvalidate = FALSE
      /\ m2.postDowngrade = FALSE /\ m2.pendingDirty = m.targets.needsExclusive
      /\ m2.targets = m.targets /\ m2.deferredTargets = m.deferredTargets
      /\ m2.isForward = m.isForward /\ m2.blkAddr = m.blkAddr
  BY ONLY <1>1, <1>3, m \in Regs DEF Regs, Registers
<1>5. /\ m.blkAddr = "block" /\ m.targets.list # <<>> /\ TargetsOK(m) /\ FlagsOK(m)
  BY DEF RegOK
<1>6. \A k \in DOMAIN m.targets.list :
         IsLoad(m.targets.list[k]) \/ IsStore(m.targets.list[k])
  BY <1>5 DEF TargetsOK
<1>7. TargetsOK(m2)
  BY <1>4, <1>5, <1>6 DEF TargetsOK
<1>8. FlagsOK(m2)
  BY <1>4, <1>5 DEF FlagsOK
<1>9. m2 # FreeMSHR
  BY <1>4, <1>5 DEF FreeMSHR
<1> QED BY <1>4, <1>5, <1>6, <1>7, <1>8, <1>9 DEF RegOK

(* After the fill the deferred targets, if any, ask again.                 *)
Resumes(m) ==
    IF m.deferredTargets.list = <<>> THEN FreeMSHR
    ELSE [promoteDeferredTargets(m) EXCEPT !.inService = FALSE, !.order = 0, !.readyTime = 0]

LEMMA RegResumes ==
    ASSUME NEW m \in Regs, RegOK(m), m.inService, NEW m2, m2 = Resumes(m)
    PROVE  /\ m2 \in Regs /\ RegOK(m2) /\ ~m2.inService
           /\ m2 = FreeMSHR <=> m.deferredTargets.list = <<>>
           /\ m2 # FreeMSHR => m2.targets = m.deferredTargets
           /\ m2.deferredTargets.list = <<>>
           /\ m2 = FreeMSHR => m2.targets.list = <<>>
<1>1. CASE m.deferredTargets.list = <<>>
  BY <1>1, FreeReg DEF Resumes
<1>2. CASE m.deferredTargets.list # <<>>
  <2> DEFINE h == Head(m.deferredTargets.list)
  <2>1. m.blkAddr = "block" /\ TargetsOK(m) /\ FlagsOK(m)
    BY FreeReg DEF RegOK
  <2>2. h \in Targets /\ h.order \in Nat /\ h.readyTime \in Nat
    <3>1. m.deferredTargets.list \in Seq(Targets)
      BY RegFields
    <3>2. h \in Targets
      BY <1>2, <3>1, TailFacts
    <3> QED BY <3>2 DEF Targets
  <2>3. EmptyTargets \in TargetLists
    BY FreeFacts
  <2>4. EmptyTargets.list = <<>> /\ ~EmptyTargets.needsExclusive /\ ~EmptyTargets.hasUpgrade
    BY DEF EmptyTargets
  <2>5. promoteDeferredTargets(m) =
          [m EXCEPT !.targets = m.deferredTargets, !.deferredTargets = EmptyTargets,
                    !.order = h.order, !.readyTime = h.readyTime]
    BY DEF promoteDeferredTargets
  <2>6. m2 = [promoteDeferredTargets(m) EXCEPT !.inService = FALSE, !.order = 0, !.readyTime = 0]
    BY <1>2 DEF Resumes
  <2> HIDE DEF h
  <2>7. /\ m2 \in Regs /\ m2.inService = FALSE /\ m2.targets = m.deferredTargets
        /\ m2.deferredTargets = EmptyTargets /\ m2.isForward = m.isForward
        /\ m2.blkAddr = m.blkAddr
    BY ONLY <2>2, <2>3, <2>5, <2>6, m \in Regs DEF Regs, Registers
  <2>8. \A k \in DOMAIN m2.targets.list :
           IsLoad(m2.targets.list[k]) \/ IsStore(m2.targets.list[k])
    BY <2>1, <2>7 DEF TargetsOK
  <2>9. TargetsOK(m2)
    BY <2>4, <2>7, <2>8 DEF TargetsOK, IsRead, IsLoad, IsStore
  <2>10. FlagsOK(m2)
    BY <2>1, <2>4, <2>7 DEF FlagsOK, HasStore
  <2>11. m2 # FreeMSHR
    BY <2>1, <2>7 DEF FreeMSHR
  <2> QED BY <1>2, <2>1, <2>4, <2>7, <2>9, <2>10, <2>11 DEF RegOK
<1> QED BY <1>1, <1>2

-----------------------------------------------------------------------------
(* One cache.                                                              *)
LEMMA CacheFields ==
    ASSUME NEW c \in CacheRecords
    PROVE  /\ c.status \in SUBSET Bits /\ c.data \in Nat /\ c.mshr \in Regs
           /\ c.writeback.data \in Nat /\ c.writeback.pending \in BOOLEAN
           /\ c.writeback \in [data : Nat, pending : BOOLEAN]
           /\ c.snoopRespQueue \in Seq(Responses)
           /\ c.mshr.inService \in BOOLEAN /\ c.mshr.pendingDirty \in BOOLEAN
           /\ c.mshr.postInvalidate \in BOOLEAN /\ c.mshr.postDowngrade \in BOOLEAN
           /\ c = [status |-> c.status, data |-> c.data, mshr |-> c.mshr,
                   writeback |-> c.writeback, snoopRespQueue |-> c.snoopRespQueue]
<1>1. /\ c.status \in SUBSET Bits /\ c.data \in Nat /\ c.mshr \in Regs
      /\ c.writeback.data \in Nat /\ c.writeback.pending \in BOOLEAN
      /\ c.writeback \in [data : Nat, pending : BOOLEAN]
      /\ c.snoopRespQueue \in Seq(Responses)
      /\ c = [status |-> c.status, data |-> c.data, mshr |-> c.mshr,
              writeback |-> c.writeback, snoopRespQueue |-> c.snoopRespQueue]
  BY DEF CacheRecords
<1> QED BY <1>1, RegFields

(* How the predicates of a cache are related.                              *)
LEMMA CacheKinds ==
    ASSUME NEW c \in CacheRecords, CacheOK(c)
    PROVE  /\ Claiming(c) => Busy(c)
           /\ Reading(c) <=> Busy(c) /\ ~Claiming(c)
           /\ Busy(c) => /\ HasMSHR(c) /\ ~c.writeback.pending /\ ~isWritable(c)
                         /\ c.snoopRespQueue = <<>> /\ ~Owns(c)
           /\ Reading(c) => ~isValid(c)
           /\ ~isValid(c) <=> c.status = {}
           /\ isDirty(c) => isValid(c)
           /\ isWritable(c) => isValid(c) /\ isReadable(c) /\ ~HasMSHR(c)
           /\ isReadable(c) => isValid(c) /\ ~HasMSHR(c)
           /\ isValid(c) /\ ~HasMSHR(c) => isReadable(c)
           /\ c.writeback.pending => ~isValid(c) /\ ~Busy(c)
           /\ Owns(c) => ~Busy(c) /\ (isValid(c) \/ c.writeback.pending)
           /\ Claiming(c) => c.mshr.targets.needsExclusive
           /\ Reading(c) => ~c.mshr.targets.needsExclusive
           /\ Supplies(c) => Shares(c)
<1>1. c.mshr \in Regs /\ RegOK(c.mshr)
  BY CacheFields DEF CacheOK
<1>2. Busy(c) => HasMSHR(c)
  BY FreeReg DEF Busy, HasMSHR
<1>3. Busy(c) => (c.mshr.pendingDirty <=> c.mshr.targets.needsExclusive)
  BY <1>1 DEF RegOK, FlagsOK, Busy
<1>4. /\ c.mshr.inService \in BOOLEAN /\ c.mshr.pendingDirty \in BOOLEAN
      /\ c.writeback.pending \in BOOLEAN
  BY CacheFields
<1>5. c.status \in IF HasMSHR(c) THEN Pending ELSE Settled
  BY DEF CacheOK
<1>6. /\ ~isValid(c) <=> c.status = {}
      /\ isDirty(c) => isValid(c)
      /\ isWritable(c) => isValid(c) /\ isReadable(c) /\ ~HasMSHR(c)
      /\ isReadable(c) => isValid(c) /\ ~HasMSHR(c)
      /\ isValid(c) /\ ~HasMSHR(c) => isReadable(c)
  BY <1>5 DEF Pending, Settled, isValid, isDirty, isWritable, isReadable
<1>7. /\ isValid(c) /\ HasMSHR(c) => c.mshr.targets.needsExclusive
      /\ c.writeback.pending => ~Busy(c) /\ ~isValid(c)
      /\ Busy(c) => c.snoopRespQueue = <<>>
  BY DEF CacheOK
<1> QED BY <1>2, <1>3, <1>4, <1>6, <1>7 DEF Claiming, Reading, Busy, Owns, Supplies, Shares

(* The answer of the cache that supplies the data.                         *)
Reply(r, cmd, data, inval) ==
    Response([from |-> r, cmd |-> cmd, shared |-> (cmd = "ReadReq"), memInhibit |-> TRUE],
             data, inval)

LEMMA ReplyFacts ==
    ASSUME NEW r \in Caches, NEW data \in Nat, NEW inval,
           NEW cmd \in SnoopCmds, NEW a, a = Reply(r, cmd, data, inval)
    PROVE  /\ a \in Responses /\ a.to = r /\ a.memInhibit
           /\ a.shared <=> cmd = "ReadReq"
           /\ cmd = "ReadReq" => a.cmd = IF inval THEN "ReadRespWithInvalidate" ELSE "ReadResp"
           /\ cmd = "ReadExReq" => a.cmd = "ReadExResp"
           /\ cmd = "UpgradeReq" => a.cmd = "UpgradeResp"
           /\ cmd # "UpgradeReq" => a.data = data
<1> DEFINE sh == cmd = "ReadReq"
<1>0. sh \in BOOLEAN /\ (sh <=> cmd = "ReadReq")
  OBVIOUS
<1>1. a = [to |-> r, shared |-> sh, memInhibit |-> TRUE,
           cmd |-> CASE cmd = "ReadReq" -> IF inval THEN "ReadRespWithInvalidate" ELSE "ReadResp"
                     [] cmd = "ReadExReq" -> "ReadExResp"
                     [] OTHER -> "UpgradeResp",
           data |-> IF IsUpgrade(cmd) THEN 0 ELSE data]
  BY DEF Reply, Response
<1> HIDE DEF sh
<1>2. IsUpgrade(cmd) <=> cmd = "UpgradeReq"
  BY DEF IsUpgrade
<1>3. a.cmd = IF cmd = "ReadReq" THEN IF inval THEN "ReadRespWithInvalidate" ELSE "ReadResp"
              ELSE IF cmd = "ReadExReq" THEN "ReadExResp" ELSE "UpgradeResp"
  BY <1>1
<1>4. a.data = IF cmd = "UpgradeReq" THEN 0 ELSE data
  BY <1>1, <1>2
<1>5. a.cmd \in RespCmds /\ a.data \in Nat
  BY <1>3, <1>4 DEF RespCmds
<1>6. a.to = r /\ a.memInhibit = TRUE /\ a.shared = sh
  BY <1>1
<1>8. a \in Responses
  <2> DEFINE v == a.cmd
             w == a.data
  <2>1. a = [to |-> r, shared |-> sh, memInhibit |-> TRUE, cmd |-> v, data |-> w]
    BY <1>1
  <2>2. v \in RespCmds /\ w \in Nat
    BY <1>5
  <2> HIDE DEF v, w
  <2> QED BY ONLY <1>0, <2>1, <2>2, r \in Caches DEF Responses
<1> QED BY <1>0, <1>3, <1>4, <1>6, <1>8 DEF SnoopCmds

(* A cache after the snoop of a request of cache r.                        *)
Supply(c) == IF c.writeback.pending THEN c.writeback.data ELSE c.data
After(c, r, cmd) ==
    IF Busy(c) THEN [c EXCEPT !.mshr = SnoopedReg(c.mshr, cmd, r)]
    ELSE [c EXCEPT !.status = IF cmd = "ReadReq" THEN c.status \ {"Writable"} ELSE {},
                   !.data = IF cmd # "ReadReq" /\ isValid(c) THEN 0 ELSE c.data,
                   !.writeback = IF cmd # "ReadReq" /\ c.writeback.pending
                                 THEN NoWriteback ELSE c.writeback,
                   !.snoopRespQueue = IF Owns(c)
                                      THEN Append(c.snoopRespQueue,
                                                  Reply(r, cmd, Supply(c), FALSE))
                                      ELSE c.snoopRespQueue]

Packets == [from : Caches, cmd : SnoopCmds, shared : BOOLEAN, memInhibit : BOOLEAN]

LEMMA SnoopOne ==
    ASSUME NEW c \in CacheRecords, CacheOK(c), NEW pkt \in Packets,
           pkt.cmd # "ReadReq" => ~pkt.shared,
           NEW s, s = recvTimingSnoopReq(c, pkt)
    PROVE  /\ s.cache = After(c, pkt.from, pkt.cmd)
           /\ s.pkt \in Packets /\ s.pkt.from = pkt.from /\ s.pkt.cmd = pkt.cmd
           /\ s.pkt.shared <=> pkt.shared \/ (pkt.cmd = "ReadReq" /\ Shares(c))
           /\ s.pkt.memInhibit <=> pkt.memInhibit \/ Supplies(c)
           /\ s.ok <=> (Supplies(c) => ~pkt.memInhibit)
<1> DEFINE cmd == pkt.cmd
           r == pkt.from
           bm == MSHR_handleSnoop(c.mshr, pkt.cmd, pkt.from)
           tr == IF HasMSHR(c) THEN [c EXCEPT !.mshr = bm.mshr] ELSE c
           bw == SnoopWriteback(tr, pkt)
           bb == handleSnoop(bw.cache, bw.pkt, FALSE)
<1>1. /\ c.mshr \in Regs /\ RegOK(c.mshr) /\ cmd \in SnoopCmds /\ r \in Caches
      /\ pkt.shared \in BOOLEAN /\ pkt.memInhibit \in BOOLEAN
      /\ c.writeback.pending \in BOOLEAN
      /\ pkt = [from |-> r, cmd |-> cmd, shared |-> pkt.shared, memInhibit |-> pkt.memInhibit]
  BY CacheFields DEF CacheOK, Packets
<1>2. /\ bm.mshr = SnoopedReg(c.mshr, cmd, r) /\ bm.handled = c.mshr.inService
      /\ bm.memInhibit <=> c.mshr.inService /\ ~c.mshr.postInvalidate /\ c.mshr.pendingDirty
      /\ bm.shared <=> c.mshr.inService /\ ~c.mshr.postInvalidate /\ cmd = "ReadReq"
  BY <1>1, RegSnoop
<1>3. s = IF HasMSHR(c) /\ bm.handled
          THEN [cache |-> tr,
                pkt |-> [pkt EXCEPT !.shared = pkt.shared \/ bm.shared,
                                    !.memInhibit = pkt.memInhibit \/ bm.memInhibit],
                ok |-> bm.memInhibit => ~pkt.memInhibit]
          ELSE [bb EXCEPT !.ok = bb.ok /\ bw.ok]
  BY DEF recvTimingSnoopReq
<1>4. /\ IsInvalidate(cmd) <=> cmd # "ReadReq"
      /\ NeedsExclusive(cmd) <=> cmd # "ReadReq"
  BY <1>1 DEF IsInvalidate, NeedsExclusive, SnoopCmds
<1>5. CASE Busy(c)
  <2>1. HasMSHR(c) /\ bm.handled /\ ~Owns(c)
    BY <1>2, <1>5, CacheKinds DEF Busy
  <2>2. tr = After(c, r, cmd)
    BY <1>2, <1>5, <2>1 DEF After
  <2> HIDE DEF tr, bb, bw, bm
  <2>3. /\ s.cache = tr
        /\ s.pkt = [pkt EXCEPT !.shared = pkt.shared \/ bm.shared,
                                    !.memInhibit = pkt.memInhibit \/ bm.memInhibit]
        /\ s.ok = (bm.memInhibit => ~pkt.memInhibit)
    BY <1>3, <2>1
  <2>4. /\ s.pkt \in Packets /\ s.pkt.from = r /\ s.pkt.cmd = cmd
        /\ s.pkt.shared = (pkt.shared \/ bm.shared)
        /\ s.pkt.memInhibit = (pkt.memInhibit \/ bm.memInhibit)
    <3> DEFINE b1 == pkt.shared \/ bm.shared
               b2 == pkt.memInhibit \/ bm.memInhibit
    <3>1. b1 \in BOOLEAN /\ b2 \in BOOLEAN /\ s.pkt = [pkt EXCEPT !.shared = b1, !.memInhibit = b2]
      BY <1>1, <2>3
    <3> HIDE DEF b1, b2
    <3>2. s.pkt \in Packets /\ s.pkt.from = r /\ s.pkt.cmd = cmd /\ s.pkt.shared = b1 /\ s.pkt.memInhibit = b2
      BY <1>1, <3>1 DEF Packets
    <3> QED BY <3>2 DEF b1, b2
  <2>5. bm.memInhibit <=> Supplies(c)
    BY <1>2, <1>5, <2>1 DEF Supplies, Claiming, Busy, Doomed
  <2>6. bm.shared <=> cmd = "ReadReq" /\ Shares(c)
    BY <1>2, <1>5, <2>1 DEF Shares, Busy, Doomed
  <2> QED BY <2>2, <2>3, <2>4, <2>5, <2>6
<1>6. CASE ~Busy(c)
  <2>1. ~bm.handled
    BY <1>2, <1>6 DEF Busy
  <2>2. SnoopedReg(c.mshr, cmd, r) = c.mshr
    BY <1>6 DEF SnoopedReg, Busy
  <2>3. tr = c
    <3>1. tr = IF HasMSHR(c) THEN [c EXCEPT !.mshr = c.mshr] ELSE c
      BY <1>2, <2>2
    <3> HIDE DEF tr
    <3> QED BY <3>1, CacheFields
  <2>4. s = [bb EXCEPT !.ok = bb.ok /\ bw.ok]
    BY <1>3, <2>1
  <2> HIDE DEF tr, bm
  <2>5. CASE c.writeback.pending
    <3> DEFINE sh == cmd = "ReadReq"
               ok == ~pkt.memInhibit /\ NeedsExclusive(cmd) = IsInvalidate(cmd)
               sn == [pkt EXCEPT !.memInhibit = TRUE, !.shared = @ \/ ~NeedsExclusive(cmd)]
               sp == [from |-> r, cmd |-> cmd, shared |-> sh, memInhibit |-> TRUE]
               su == doTimingSupplyResponse(c, sn, c.writeback.data, FALSE)
               nc == IF IsInvalidate(cmd) THEN [su EXCEPT !.writeback = NoWriteback] ELSE su
    <3>1. (pkt.shared \/ ~NeedsExclusive(cmd)) = sh
      BY <1>1, <1>4
    <3>2. sn = sp
      <4>1. sn = [pkt EXCEPT !.memInhibit = TRUE, !.shared = sh]
        BY <3>1
      <4> HIDE DEF sh, sn
      <4> QED BY <1>1, <4>1
    <3>3. bw = [cache |-> nc, pkt |-> sn, ok |-> ok]
      BY <2>3, <2>5 DEF SnoopWriteback
    <3>4. ~isValid(c) /\ c.status = {} /\ Owns(c)
      BY <2>5, CacheKinds DEF Owns
    <3>5. Response(sn, c.writeback.data, FALSE) = Reply(r, cmd, Supply(c), FALSE)
      BY <2>5, <3>2 DEF Reply, Supply
    <3>6. su = [c EXCEPT !.snoopRespQueue = Append(c.snoopRespQueue, Reply(r, cmd, Supply(c), FALSE))]
      BY <3>5 DEF doTimingSupplyResponse
    <3> HIDE DEF su, sn
    <3>7. nc = [c EXCEPT !.writeback = IF cmd # "ReadReq" THEN NoWriteback ELSE c.writeback,
                         !.snoopRespQueue = Append(c.snoopRespQueue, Reply(r, cmd, Supply(c), FALSE))]
      BY <1>4, <3>6, CacheFields
    <3>8. nc = After(c, r, cmd)
      <4>1. (c.status \ {"Writable"}) = {} /\ c.status = {}
        BY <3>4
      <4> HIDE DEF nc
      <4> QED BY <1>6, <2>5, <3>4, <3>7, <4>1, CacheFields DEF After
    <3>9. nc.status = {}
      BY <3>7, <3>4, CacheFields
    <3> HIDE DEF nc
    <3>10. ~isValid(nc)
      BY <3>9 DEF isValid
    <3>11. bw.cache = nc /\ bw.pkt = sn
      BY <3>3
    <3>12. bb = [cache |-> nc, pkt |-> sn, ok |-> TRUE]
      BY <3>10, <3>11 DEF handleSnoop
    <3>13. (ok <=> ~pkt.memInhibit) /\ (sh <=> cmd = "ReadReq") /\ sh \in BOOLEAN
           /\ ok \in BOOLEAN
      BY <1>4 DEF NeedsExclusive, IsInvalidate
    <3> HIDE DEF ok, sh
    <3>17. bw.ok = ok
      BY <3>3
    <3> HIDE DEF bw, bb
    <3>14. s.cache = nc /\ s.pkt = sn /\ s.ok = bw.ok
      <4>1. (bb.ok /\ bw.ok) = ok
        BY <3>12, <3>13, <3>17
      <4> QED BY <2>4, <3>12, <3>17, <4>1
    <3>15. Supplies(c) /\ Shares(c)
      BY <1>6, <2>5, <3>4 DEF Supplies, Shares
    <3>16. s.pkt \in Packets /\ s.pkt.from = r /\ s.pkt.cmd = cmd /\ s.pkt.memInhibit
           /\ s.pkt.shared = sh
      BY <1>1, <3>2, <3>13, <3>14 DEF Packets
    <3> QED BY <1>1, <3>8, <3>13, <3>14, <3>15, <3>16, <3>17
  <2>6. CASE ~c.writeback.pending
    <3>1. bw = [cache |-> c, pkt |-> pkt, ok |-> TRUE]
      BY <2>3, <2>6 DEF SnoopWriteback
    <3>2. bb = handleSnoop(c, pkt, FALSE) /\ bw.ok = TRUE
      BY <3>1
    <3> HIDE DEF bw
    <3>3. Owns(c) <=> isDirty(c)
      BY <1>6, <2>6 DEF Owns
    <3>4. CASE ~isValid(c)
      <4>1. bb = [cache |-> c, pkt |-> pkt, ok |-> TRUE]
        BY <3>2, <3>4 DEF handleSnoop
      <4>2. c.status = {} /\ ~isDirty(c)
        BY <3>4, CacheKinds
      <4>3. After(c, r, cmd) = c
        <5>1. (c.status \ {"Writable"}) = c.status /\ {} = c.status
          BY <4>2
        <5> QED BY <1>6, <2>6, <3>3, <3>4, <4>2, <5>1, CacheFields DEF After
      <4>4. ~Supplies(c) /\ ~Shares(c)
        BY <1>6, <2>6, <3>3, <3>4, <4>2 DEF Supplies, Shares, Claiming
      <4> HIDE DEF bb
      <4>5. s.cache = c /\ s.pkt = pkt /\ s.ok = TRUE
        <5>1. bb.ok = TRUE
          BY <4>1
        <5>2. (bb.ok /\ bw.ok) = TRUE
          BY <3>2, <5>1
        <5> QED BY <2>4, <4>1, <5>2
      <4> QED BY <4>3, <4>4, <4>5
    <3>5. CASE isValid(c)
      <4> DEFINE reads == ~IsInvalidate(cmd)
                 b1 == pkt.shared \/ reads
                 b2 == pkt.memInhibit \/ isDirty(c)
                 b3 == isDirty(c) => ~pkt.memInhibit
                 sh == cmd = "ReadReq"
                 sn == [pkt EXCEPT !.shared = b1, !.memInhibit = b2]
                 sp == [from |-> r, cmd |-> cmd, shared |-> sh, memInhibit |-> TRUE]
                 su == IF isDirty(c) THEN doTimingSupplyResponse(c, sn, c.data, FALSE) ELSE c
                 nb == IF reads THEN [su EXCEPT !.status = @ \ {"Writable"}]
                                ELSE invalidate(su)
      <4>1. bb = [cache |-> nb, pkt |-> sn, ok |-> b3]
        BY <3>2, <3>5 DEF handleSnoop
      <4>13. nb = IF reads THEN [su EXCEPT !.status = su.status \ {"Writable"}]
                           ELSE [su EXCEPT !.status = {}, !.data = 0]
        BY DEF invalidate
      <4>2. reads <=> cmd = "ReadReq"
        BY <1>4
      <4>3. isDirty(c) => sn = sp
        <5>1. b1 = sh
          BY <1>1, <4>2
        <5> SUFFICES ASSUME isDirty(c) PROVE sn = sp
          OBVIOUS
        <5>2. b2 = TRUE
          OBVIOUS
        <5> HIDE DEF sh, b1, b2
        <5>3. pkt \in [from : Caches, cmd : SnoopCmds, shared : BOOLEAN, memInhibit : BOOLEAN]
          BY DEF Packets
        <5>4. sn = [pkt EXCEPT !.shared = sh, !.memInhibit = TRUE]
          BY <5>1, <5>2
        <5> HIDE DEF sn
        <5> QED BY ONLY <5>3, <5>4
      <4>4. isDirty(c) => Response(sn, c.data, FALSE) = Reply(r, cmd, Supply(c), FALSE)
        BY <2>6, <4>3 DEF Reply, Supply
      <4>12. /\ b1 \in BOOLEAN /\ b2 \in BOOLEAN /\ b3 \in BOOLEAN
             /\ b1 <=> pkt.shared \/ cmd = "ReadReq"
             /\ b2 <=> pkt.memInhibit \/ isDirty(c)
             /\ b3 <=> (isDirty(c) => ~pkt.memInhibit)
        BY <1>1, <4>2
      <4> HIDE DEF sn, b1, b2, b3
      <4>5. su = [c EXCEPT !.snoopRespQueue = IF Owns(c)
                    THEN Append(c.snoopRespQueue, Reply(r, cmd, Supply(c), FALSE))
                    ELSE c.snoopRespQueue]
        <5>1. CASE isDirty(c)
          BY <3>3, <4>4, <5>1 DEF doTimingSupplyResponse
        <5>2. CASE ~isDirty(c)
          <6>1. su = c /\ ~Owns(c)
            BY <3>3, <5>2
          <6> HIDE DEF su
          <6> QED BY <6>1, CacheFields
        <5> QED BY <5>1, <5>2
      <4> HIDE DEF su, reads, nb, bb
      <4>6. bb.cache = After(c, r, cmd)
        <5>1. CASE reads
          <6>1. bb.cache = [su EXCEPT !.status = su.status \ {"Writable"}]
            BY <4>1, <4>5, <4>13, <5>1, CacheFields
          <6> DEFINE q == IF Owns(c)
                          THEN Append(c.snoopRespQueue, Reply(r, cmd, Supply(c), FALSE))
                          ELSE c.snoopRespQueue
          <6>2. su = [c EXCEPT !.snoopRespQueue = q]
            BY <4>5
          <6>3. After(c, r, cmd) = [c EXCEPT !.status = c.status \ {"Writable"},
                  !.data = c.data, !.writeback = c.writeback, !.snoopRespQueue = q]
            BY <1>6, <4>2, <5>1 DEF After
          <6> HIDE DEF q
          <6>4. c \in CacheRecords
            OBVIOUS
          <6> QED BY ONLY <6>1, <6>2, <6>3, <6>4 DEF CacheRecords
        <5>2. CASE ~reads
          <6>1. bb.cache = [su EXCEPT !.status = {}, !.data = 0]
            BY <4>1, <4>5, <4>13, <5>2, CacheFields
          <6> QED BY <1>6, <2>6, <3>5, <4>2, <4>5, <5>2, <6>1, CacheFields DEF After
        <5> QED BY <5>1, <5>2
      <4>7. bb.pkt = sn /\ bb.ok = b3
        BY <4>1
      <4>8. bb = [cache |-> bb.cache, pkt |-> sn, ok |-> bb.ok]
        BY <4>1
      <4>9. s.cache = bb.cache /\ s.pkt = sn /\ s.ok = b3
        <5>1. (bb.ok /\ bw.ok) = b3
          BY <3>2, <4>7, <4>12
        <5> QED BY <2>4, <4>8, <5>1
      <4>10. (Supplies(c) <=> isDirty(c)) /\ Shares(c)
        BY <1>6, <2>6, <3>3, <3>5 DEF Supplies, Shares, Claiming
      <4>11. /\ sn \in Packets /\ sn.from = r /\ sn.cmd = cmd
             /\ sn.memInhibit = b2 /\ sn.shared = b1
        BY <1>1, <4>12 DEF Packets, sn
      <4> QED BY <4>6, <4>7, <4>9, <4>10, <4>11, <4>12
    <3> QED BY <3>4, <3>5
  <2> QED BY <1>1, <2>5, <2>6
<1> QED BY <1>5, <1>6

(* What the snoop of a request of cache r changes in a cache.              *)
AfterOK(c2, c, r, cmd) ==
    /\ c2 \in CacheRecords /\ CacheOK(c2)
    /\ Busy(c2) <=> Busy(c)
    /\ Claiming(c2) <=> Claiming(c)
    /\ Reading(c2) <=> Reading(c)
    /\ Busy(c) => (Doomed(c2) <=> Doomed(c) \/ cmd # "ReadReq")
    /\ Busy(c) => (Lowered(c2) <=> Lowered(c) \/ (~Doomed(c) /\ cmd = "ReadReq"))
    /\ isValid(c2) <=> isValid(c) /\ (Busy(c) \/ cmd = "ReadReq")
    /\ c2.writeback.pending <=> c.writeback.pending /\ cmd = "ReadReq"
    /\ c2.writeback.pending => c2.writeback.data = c.writeback.data
    /\ isValid(c2) => c2.data = c.data
    /\ c.status = {} => c2.status = {}
    /\ ~isWritable(c2)
    /\ Owns(c2) <=> Owns(c) /\ cmd = "ReadReq"
    /\ Meets(c2.mshr, c.mshr, cmd, r)
    /\ c2.snoopRespQueue = IF Owns(c)
                           THEN Append(c.snoopRespQueue, Reply(r, cmd, Supply(c), FALSE))
                           ELSE c.snoopRespQueue

LEMMA AfterFacts ==
    ASSUME NEW c \in CacheRecords, CacheOK(c), NEW r \in Caches, NEW cmd \in SnoopCmds
    PROVE  AfterOK(After(c, r, cmd), c, r, cmd)
<1> DEFINE c2 == After(c, r, cmd)
<1>1. /\ c.mshr \in Regs /\ RegOK(c.mshr) /\ r \in Nat /\ c.snoopRespQueue \in Seq(Responses)
      /\ c.writeback.data \in Nat /\ c.data \in Nat /\ c.status \in SUBSET Bits
      /\ c.writeback.pending \in BOOLEAN /\ c.writeback \in [data : Nat, pending : BOOLEAN]
  BY CacheFields, CacheAssumption DEF CacheOK, Caches
<1>2. CASE Busy(c)
  <2> DEFINE m2 == SnoopedReg(c.mshr, cmd, r)
  <2>1. /\ m2 \in Regs /\ RegOK(m2) /\ Meets(m2, c.mshr, cmd, r)
        /\ m2 = FreeMSHR <=> c.mshr = FreeMSHR
    <3>1. m2 = SnoopedReg(c.mshr, cmd, r) /\ c.mshr \in Regs /\ RegOK(c.mshr) /\ r \in Nat
      BY <1>1
    <3> HIDE DEF m2
    <3> QED BY ONLY <3>1, cmd \in SnoopCmds, RegSnooped
  <2> HIDE DEF m2
  <2>2. c2 = [c EXCEPT !.mshr = m2]
    BY <1>2 DEF After, m2
  <2> HIDE DEF c2
  <2>3. /\ c2 \in CacheRecords /\ c2.mshr = m2 /\ c2.status = c.status /\ c2.data = c.data
        /\ c2.writeback = c.writeback /\ c2.snoopRespQueue = c.snoopRespQueue
    <3>1. m2 \in Regs
      BY <2>1
    <3> QED BY ONLY <2>2, <3>1, c \in CacheRecords DEF CacheRecords
  <2>4. /\ m2.inService = c.mshr.inService /\ m2.pendingDirty = c.mshr.pendingDirty
        /\ m2.targets.needsExclusive <=> c.mshr.targets.needsExclusive
        /\ m2.postInvalidate <=> c.mshr.postInvalidate \/ cmd # "ReadReq"
        /\ m2.postDowngrade <=>
              c.mshr.postDowngrade \/ (~c.mshr.postInvalidate /\ cmd = "ReadReq")
    BY <1>2, <2>1 DEF Meets, Busy
  <2>5. /\ Busy(c2) <=> Busy(c)
        /\ Claiming(c2) <=> Claiming(c)
        /\ Reading(c2) <=> Reading(c)
        /\ Doomed(c2) <=> Doomed(c) \/ cmd # "ReadReq"
        /\ Lowered(c2) <=> Lowered(c) \/ (~Doomed(c) /\ cmd = "ReadReq")
    BY <2>3, <2>4 DEF Busy, Claiming, Reading, Doomed, Lowered
  <2>6. /\ isValid(c2) <=> isValid(c)
        /\ isDirty(c2) <=> isDirty(c)
        /\ isWritable(c2) <=> isWritable(c)
        /\ HasMSHR(c2) <=> HasMSHR(c)
    BY <2>1, <2>3 DEF isValid, isDirty, isWritable, HasMSHR
  <2>7. ~isWritable(c) /\ ~Owns(c) /\ ~c.writeback.pending /\ HasMSHR(c)
    BY <1>2, CacheKinds
  <2>8. ~Owns(c2)
    BY <1>2, <2>3, <2>5, <2>7 DEF Owns
  <2>9. CacheOK(c2)
    BY <1>2, <2>1, <2>3, <2>4, <2>5, <2>6, <2>7 DEF CacheOK
  <2> QED BY <1>2, <2>1, <2>3, <2>5, <2>6, <2>7, <2>8, <2>9 DEF AfterOK, c2
<1>3. CASE ~Busy(c)
  <2> DEFINE q == IF Owns(c) THEN Append(c.snoopRespQueue, Reply(r, cmd, Supply(c), FALSE))
                             ELSE c.snoopRespQueue
             st == IF cmd = "ReadReq" THEN c.status \ {"Writable"} ELSE {}
             da == IF cmd # "ReadReq" /\ isValid(c) THEN 0 ELSE c.data
             wr == IF cmd # "ReadReq" /\ c.writeback.pending THEN NoWriteback ELSE c.writeback
  <2>1. c2 = [c EXCEPT !.status = st, !.data = da, !.writeback = wr, !.snoopRespQueue = q]
    BY <1>3 DEF After
  <2>2. Supply(c) \in Nat
    BY <1>1 DEF Supply
  <2>3. q \in Seq(Responses)
    <3> DEFINE a == Reply(r, cmd, Supply(c), FALSE)
    <3>0. PICK no : no = FALSE
      OBVIOUS
    <3>1. a = Reply(r, cmd, Supply(c), no)
      BY <3>0
    <3> HIDE DEF a
    <3>2. a \in Responses
      BY ONLY <2>2, <3>1, r \in Caches, cmd \in SnoopCmds, ReplyFacts
    <3>3. Append(c.snoopRespQueue, a) \in Seq(Responses)
      BY <1>1, <3>2, AppendFacts
    <3> QED BY <1>1, <3>3 DEF a
  <2>4. st \in SUBSET Bits /\ da \in Nat /\ wr \in [data : Nat, pending : BOOLEAN]
    <3>1. NoWriteback \in [data : Nat, pending : BOOLEAN]
      BY DEF NoWriteback
    <3> QED BY <1>1, <3>1
  <2> HIDE DEF c2, q, st, da, wr
  <2>5. /\ c2 \in CacheRecords /\ c2.mshr = c.mshr /\ c2.status = st /\ c2.data = da
        /\ c2.writeback = wr /\ c2.snoopRespQueue = q
    BY ONLY <2>1, <2>3, <2>4, c \in CacheRecords DEF CacheRecords
  <2>6. /\ Busy(c2) <=> Busy(c)
        /\ Claiming(c2) <=> Claiming(c)
        /\ Reading(c2) <=> Reading(c)
        /\ HasMSHR(c2) <=> HasMSHR(c)
    BY <2>5 DEF Busy, Claiming, Reading, HasMSHR
  <2>7. /\ isValid(c2) <=> isValid(c) /\ cmd = "ReadReq"
        /\ isDirty(c2) <=> isDirty(c) /\ cmd = "ReadReq"
        /\ ~isWritable(c2)
        /\ c.status = {} => c2.status = {}
    BY <2>5 DEF isValid, isDirty, isWritable, st
  <2>8. /\ c2.writeback.pending <=> c.writeback.pending /\ cmd = "ReadReq"
        /\ c2.writeback.pending => c2.writeback.data = c.writeback.data
    BY <1>1, <2>5 DEF wr, NoWriteback
  <2>9. isValid(c2) => c2.data = c.data
    BY <2>5, <2>7 DEF da
  <2>10. Owns(c2) <=> Owns(c) /\ cmd = "ReadReq"
    BY <2>6, <2>7, <2>8 DEF Owns
  <2>11. Meets(c2.mshr, c.mshr, cmd, r)
    BY <1>3, <2>5, RegFields, <1>1 DEF Meets, Busy
  <2>12. c2.status \in IF HasMSHR(c) THEN Pending ELSE Settled
    <3>1. c.status \in IF HasMSHR(c) THEN Pending ELSE Settled
      BY DEF CacheOK
    <3>2. CASE cmd # "ReadReq"
      BY <2>5, <3>2 DEF st, Pending, Settled
    <3>3. CASE cmd = "ReadReq"
      <4>1. c2.status = c.status \ {"Writable"}
        BY <2>5, <3>3 DEF st
      <4>2. \A x \in Pending : x \ {"Writable"} \in Pending
        BY DEF Pending
      <4>3. /\ {"Valid", "Readable", "Writable"} \ {"Writable"} = {"Valid", "Readable"}
            /\ {"Valid", "Readable", "Writable", "Dirty"} \ {"Writable"}
                  = {"Valid", "Readable", "Dirty"}
            /\ {"Valid", "Readable"} \ {"Writable"} = {"Valid", "Readable"}
            /\ {"Valid", "Readable", "Dirty"} \ {"Writable"} = {"Valid", "Readable", "Dirty"}
            /\ {} \ {"Writable"} = {}
        OBVIOUS
      <4>4. \A x \in Settled : x \ {"Writable"} \in Settled
        BY <4>3 DEF Settled
      <4> QED BY <3>1, <4>1, <4>2, <4>4
    <3> QED BY <3>2, <3>3
  <2>13. CacheOK(c2)
    BY <1>3, <2>5, <2>6, <2>7, <2>8, <2>12 DEF CacheOK
  <2> QED BY <1>3, <2>5, <2>6, <2>7, <2>8, <2>9, <2>10, <2>11, <2>13 DEF AfterOK, q, c2
<1> QED BY <1>2, <1>3

(* A cache without a copy and without a request in service ignores a snoop. *)
Idle(c) == ~Busy(c) /\ ~isValid(c) /\ ~c.writeback.pending

LEMMA IdleSnoop ==
    ASSUME NEW c \in CacheRecords, CacheOK(c), Idle(c), NEW pkt \in Packets
    PROVE  /\ recvTimingSnoopReq(c, pkt) = [cache |-> c, pkt |-> pkt, ok |-> TRUE]
           /\ After(c, pkt.from, pkt.cmd) = c
           /\ ~Supplies(c) /\ ~Shares(c)
<1> DEFINE bm == MSHR_handleSnoop(c.mshr, pkt.cmd, pkt.from)
           tr == IF HasMSHR(c) THEN [c EXCEPT !.mshr = bm.mshr] ELSE c
           bw == SnoopWriteback(tr, pkt)
           bb == handleSnoop(bw.cache, bw.pkt, FALSE)
<1>1. c.mshr \in Regs /\ RegOK(c.mshr) /\ pkt.cmd \in SnoopCmds
  BY CacheFields DEF CacheOK, Packets
<1>2. bm.mshr = SnoopedReg(c.mshr, pkt.cmd, pkt.from) /\ bm.handled = c.mshr.inService
  BY <1>1, RegSnoop
<1>3. bm.mshr = c.mshr /\ ~bm.handled
  BY <1>2 DEF SnoopedReg, Idle, Busy
<1>4. tr = c
  <2>1. tr = IF HasMSHR(c) THEN [c EXCEPT !.mshr = c.mshr] ELSE c
    BY <1>3
  <2> HIDE DEF tr
  <2> QED BY <2>1, CacheFields
<1>5. recvTimingSnoopReq(c, pkt) = [bb EXCEPT !.ok = bb.ok /\ bw.ok]
  BY <1>3 DEF recvTimingSnoopReq
<1> HIDE DEF tr, bm
<1>6. bw = [cache |-> c, pkt |-> pkt, ok |-> TRUE]
  BY <1>4 DEF SnoopWriteback, Idle
<1> HIDE DEF bw
<1>7. bb = [cache |-> c, pkt |-> pkt, ok |-> TRUE]
  BY <1>6 DEF handleSnoop, Idle
<1> HIDE DEF bb
<1>8. recvTimingSnoopReq(c, pkt) = [cache |-> c, pkt |-> pkt, ok |-> TRUE]
  <2>1. bb.ok = TRUE /\ bw.ok = TRUE
    BY <1>6, <1>7
  <2>2. (bb.ok /\ bw.ok) = TRUE
    BY <2>1
  <2> QED BY <1>5, <1>7, <2>2
<1>9. c.status = {} /\ ~isDirty(c) /\ ~Owns(c)
  <2>1. c.status = {} /\ ~isDirty(c)
    BY CacheKinds DEF Idle
  <2> QED BY <2>1 DEF Owns, Idle
<1>10. After(c, pkt.from, pkt.cmd) = c
  <2>1. c.status \ {"Writable"} = c.status /\ {} = c.status
    BY <1>9
  <2> QED BY <1>9, <2>1, CacheFields DEF After, Idle
<1>11. ~Supplies(c) /\ ~Shares(c)
  BY <1>9 DEF Supplies, Shares, Idle, Claiming
<1> QED BY <1>8, <1>10, <1>11

(* An answer to a request, and the one of an owner.                        *)
AnswersTo(a, r, cmd, data) ==
    /\ a \in Responses /\ a.to = r
    /\ cmd = "ReadReq" => a.cmd = "ReadResp"
    /\ cmd = "ReadExReq" => a.cmd = "ReadExResp"
    /\ cmd = "UpgradeReq" => a.cmd = "UpgradeResp"
    /\ cmd # "UpgradeReq" => a.data = data

LEMMA OwnerReply ==
    ASSUME NEW c \in CacheRecords, NEW r \in Caches, NEW cmd \in SnoopCmds
    PROVE  /\ AnswersTo(Reply(r, cmd, Supply(c), FALSE), r, cmd, Supply(c))
           /\ Reply(r, cmd, Supply(c), FALSE).memInhibit
           /\ Reply(r, cmd, Supply(c), FALSE).shared <=> cmd = "ReadReq"
<1>0. PICK a : a = Reply(r, cmd, Supply(c), FALSE)
  OBVIOUS
<1>1. Supply(c) \in Nat
  BY CacheFields DEF Supply
<1>2. PICK no : no = FALSE
  OBVIOUS
<1>3. a = Reply(r, cmd, Supply(c), no)
  BY <1>0, <1>2
<1>4. /\ a \in Responses /\ a.to = r /\ a.memInhibit
      /\ a.shared <=> cmd = "ReadReq"
      /\ cmd = "ReadReq" => a.cmd = IF no THEN "ReadRespWithInvalidate" ELSE "ReadResp"
      /\ cmd = "ReadExReq" => a.cmd = "ReadExResp"
      /\ cmd = "UpgradeReq" => a.cmd = "UpgradeResp"
      /\ cmd # "UpgradeReq" => a.data = Supply(c)
  BY ONLY <1>1, <1>3, r \in Caches, cmd \in SnoopCmds, ReplyFacts
<1>5. AnswersTo(a, r, cmd, Supply(c)) /\ a.memInhibit /\ (a.shared <=> cmd = "ReadReq")
  BY <1>2, <1>4 DEF AnswersTo
<1> QED BY <1>0, <1>5

-----------------------------------------------------------------------------
(* The snoop of all the caches dests.  f is what the first n have left.    *)
CachesOK == cache \in [Caches -> CacheRecords] /\ \A d \in Caches : CacheOK(cache[d])

SnoopedUpTo(f, n, r, cmd, dests) ==
    /\ f.cache = [d \in Caches |-> IF d \in dests /\ d <= n THEN After(cache[d], r, cmd)
                                                          ELSE cache[d]]
    /\ f.pkt \in Packets /\ f.pkt.from = r /\ f.pkt.cmd = cmd
    /\ f.pkt.shared <=> cmd = "ReadReq" /\ \E d \in dests : d <= n /\ Shares(cache[d])
    /\ f.pkt.memInhibit <=> \E d \in dests : d <= n /\ Supplies(cache[d])
    /\ f.ok = TRUE /\ f = [cache |-> f.cache, pkt |-> f.pkt, ok |-> TRUE]

LEMMA SnoopHistory ==
    ASSUME CachesOK, NEW r \in Caches, NEW cmd \in SnoopCmds, NEW dests \in SUBSET Caches,
           \A p, q \in dests : Supplies(cache[p]) /\ Supplies(cache[q]) => p = q,
           NEW f, f[0] = [cache |-> cache, pkt |-> Packet(r, cmd), ok |-> TRUE],
           \A d \in Caches : f[d] = Forward(f[d - 1], d, dests)
    PROVE  \A n \in 0 .. NumCaches : SnoopedUpTo(f[n], n, r, cmd, dests)
<1> DEFINE S == {n \in Nat : n <= NumCaches => SnoopedUpTo(f[n], n, r, cmd, dests)}
<1>0. NumCaches \in Nat /\ Caches = 1 .. NumCaches
  BY CacheAssumption DEF Caches
<1>1. 0 \in S
  <2>1. /\ Packet(r, cmd) \in Packets /\ Packet(r, cmd).from = r /\ Packet(r, cmd).cmd = cmd
        /\ ~Packet(r, cmd).shared /\ ~Packet(r, cmd).memInhibit
    BY DEF Packet, Packets
  <2>2. f[0].cache = cache /\ f[0].pkt = Packet(r, cmd) /\ f[0].ok = TRUE
    OBVIOUS
  <2>3. \A d \in Caches : ~(d <= 0)
    BY <1>0
  <2>4. cache = [d \in Caches |-> cache[d]]
    BY DEF CachesOK
  <2>5. SnoopedUpTo(f[0], 0, r, cmd, dests)
    BY <2>1, <2>2, <2>3, <2>4 DEF SnoopedUpTo
  <2> QED BY <2>5
<1>2. ASSUME NEW n \in Nat, n \in S PROVE n + 1 \in S
  <2> SUFFICES ASSUME n + 1 <= NumCaches
               PROVE  SnoopedUpTo(f[n + 1], n + 1, r, cmd, dests)
    OBVIOUS
  <2> DEFINE d == n + 1
             g == f[n]
             s == recvTimingSnoopReq(g.cache[d], g.pkt)
  <2>0. d - 1 = n
    OBVIOUS
  <2>1. d \in Caches /\ f[d] = Forward(g, d, dests) /\ ~(d <= n)
    BY <1>0, <2>0
  <2>2. SnoopedUpTo(g, n, r, cmd, dests)
    BY <1>0, <1>2
  <2>3. \A e \in Caches : e <= n + 1 <=> (e <= n \/ e = d)
    BY <1>0
  <2> HIDE DEF d, g, s
  <2>4. g.cache[d] = cache[d] /\ cache[d] \in CacheRecords /\ CacheOK(cache[d])
    BY <2>1, <2>2 DEF SnoopedUpTo, CachesOK
  <2>5. CASE d \notin dests
    <3>1. f[d] = g
      BY <2>1, <2>5 DEF Forward
    <3>2. \A e \in dests : e <= n + 1 <=> e <= n
      BY <2>3, <2>5
    <3>3. g.cache = [e \in Caches |-> IF e \in dests /\ e <= n + 1 THEN After(cache[e], r, cmd)
                                                          ELSE cache[e]]
      BY <2>2, <3>2 DEF SnoopedUpTo
    <3> QED BY <2>2, <3>1, <3>2, <3>3 DEF SnoopedUpTo, d
  <2>6. CASE d \in dests
    <3> DEFINE nc == [g.cache EXCEPT ![d] = s.cache]
               ok == g.ok /\ s.ok
    <3>1. f[d] = [cache |-> nc, pkt |-> s.pkt, ok |-> ok]
      BY <2>1, <2>6 DEF Forward, s
    <3> HIDE DEF nc
    <3>2. s = recvTimingSnoopReq(cache[d], g.pkt)
      BY <2>4 DEF s
    <3>3. g.pkt \in Packets /\ g.pkt.from = r /\ g.pkt.cmd = cmd
          /\ (g.pkt.cmd # "ReadReq" => ~g.pkt.shared)
      BY <2>2 DEF SnoopedUpTo
    <3>4. /\ s.cache = After(cache[d], r, cmd)
          /\ s.pkt \in Packets /\ s.pkt.from = r /\ s.pkt.cmd = cmd
          /\ s.pkt.shared <=> g.pkt.shared \/ (cmd = "ReadReq" /\ Shares(cache[d]))
          /\ s.pkt.memInhibit <=> g.pkt.memInhibit \/ Supplies(cache[d])
          /\ s.ok <=> (Supplies(cache[d]) => ~g.pkt.memInhibit)
      BY <2>4, <3>2, <3>3, SnoopOne
    <3>5. Supplies(cache[d]) => ~g.pkt.memInhibit
      BY <2>1, <2>2, <2>6 DEF SnoopedUpTo
    <3>6. ok = TRUE
      BY <2>2, <3>4, <3>5 DEF SnoopedUpTo
    <3> HIDE DEF ok
    <3>7. /\ f[d].cache = nc /\ f[d].pkt = s.pkt /\ f[d].ok = TRUE
          /\ f[d] = [cache |-> f[d].cache, pkt |-> f[d].pkt, ok |-> TRUE]
      BY <3>1, <3>6
    <3>8. f[d].cache = [e \in Caches |-> IF e \in dests /\ e <= n + 1
                                         THEN After(cache[e], r, cmd) ELSE cache[e]]
      <4>1. g.cache = [e \in Caches |-> IF e \in dests /\ e <= n THEN After(cache[e], r, cmd)
                                                          ELSE cache[e]]
        BY <2>2 DEF SnoopedUpTo
      <4>2. f[d].cache = [e \in Caches |-> IF e = d THEN After(cache[d], r, cmd) ELSE g.cache[e]]
        BY <2>1, <3>4, <3>7, <4>1 DEF nc
      <4> QED BY <2>1, <2>3, <2>6, <4>1, <4>2
    <3>9. f[d].pkt.shared <=> cmd = "ReadReq" /\ \E e \in dests : e <= n + 1 /\ Shares(cache[e])
      <4>1. g.pkt.shared <=> cmd = "ReadReq" /\ \E e \in dests : e <= n /\ Shares(cache[e])
        BY <2>2 DEF SnoopedUpTo
      <4> QED BY <2>3, <2>6, <3>4, <3>7, <4>1
    <3>10. f[d].pkt.memInhibit <=> \E e \in dests : e <= n + 1 /\ Supplies(cache[e])
      <4>1. g.pkt.memInhibit <=> \E e \in dests : e <= n /\ Supplies(cache[e])
        BY <2>2 DEF SnoopedUpTo
      <4> QED BY <2>3, <2>6, <3>4, <3>7, <4>1
    <3> QED BY <3>4, <3>7, <3>8, <3>9, <3>10 DEF SnoopedUpTo, d
  <2> QED BY <2>5, <2>6
<1> HIDE DEF S
<1>3. Nat \subseteq S
  BY <1>1, <1>2, Induction
<1> QED BY <1>0, <1>3 DEF S

(* The effect of the snoop of all the others for a request of cache r.     *)
SnoopsOK(s, cs, r, cmd) ==
    /\ s.ok /\ s.cache = [d \in Caches |-> IF d = r THEN cs[r] ELSE After(cs[d], r, cmd)]
    /\ s.pkt \in Packets /\ s.pkt.from = r /\ s.pkt.cmd = cmd
    /\ s.pkt.shared <=> cmd = "ReadReq" /\ \E d \in Caches \ {r} : Shares(cs[d])
    /\ s.pkt.memInhibit <=> \E d \in Caches \ {r} : Supplies(cs[d])

LEMMA SnoopAll ==
    ASSUME CachesOK, NEW r \in Caches, NEW cmd \in SnoopCmds, NEW dests \in SUBSET Caches,
           r \notin dests, \A d \in Caches \ {r} : d \notin dests => Idle(cache[d]),
           \A p, q \in Caches : Supplies(cache[p]) /\ Supplies(cache[q]) => p = q
    PROVE  SnoopsOK(forwardTiming(Packet(r, cmd), dests), cache, r, cmd)
<1> DEFINE s == forwardTiming(Packet(r, cmd), dests)
<1>1. PICK f : /\ f[0] = [cache |-> cache, pkt |-> Packet(r, cmd), ok |-> TRUE]
               /\ \A d \in Caches : f[d] = Forward(f[d - 1], d, dests)
               /\ s = f[NumCaches]
  BY ForwardRun
<1>2. NumCaches \in Nat /\ NumCaches \in 0 .. NumCaches /\ \A d \in Caches : d <= NumCaches
  BY CacheAssumption DEF Caches
<1>3. \A p, q \in dests : Supplies(cache[p]) /\ Supplies(cache[q]) => p = q
  OBVIOUS
<1>4. \A n \in 0 .. NumCaches : SnoopedUpTo(f[n], n, r, cmd, dests)
  BY <1>1, <1>3, SnoopHistory
<1>5. SnoopedUpTo(s, NumCaches, r, cmd, dests)
  BY <1>1, <1>2, <1>4
<1>6. \A d \in Caches \ {r} : d \notin dests =>
         After(cache[d], r, cmd) = cache[d] /\ ~Supplies(cache[d]) /\ ~Shares(cache[d])
  <2> SUFFICES ASSUME NEW d \in Caches \ {r}, d \notin dests
               PROVE  After(cache[d], r, cmd) = cache[d] /\ ~Supplies(cache[d]) /\ ~Shares(cache[d])
    OBVIOUS
  <2> DEFINE pkt == Packet(r, cmd)
  <2>1. pkt \in Packets /\ pkt.from = r /\ pkt.cmd = cmd
    BY DEF Packet, Packets
  <2>2. cache[d] \in CacheRecords /\ CacheOK(cache[d]) /\ Idle(cache[d])
    BY DEF CachesOK
  <2> HIDE DEF pkt
  <2> QED BY <2>1, <2>2, IdleSnoop
<1> HIDE DEF s
<1>7. s.cache = [d \in Caches |-> IF d = r THEN cache[r] ELSE After(cache[d], r, cmd)]
  <2>1. s.cache = [d \in Caches |-> IF d \in dests /\ d <= NumCaches THEN After(cache[d], r, cmd)
                                                          ELSE cache[d]]
    BY <1>5 DEF SnoopedUpTo
  <2> QED BY <1>2, <1>6, <2>1
<1>8. /\ s.pkt \in Packets /\ s.pkt.from = r /\ s.pkt.cmd = cmd /\ s.ok
      /\ s.pkt.shared <=> cmd = "ReadReq" /\ \E d \in dests : d <= NumCaches /\ Shares(cache[d])
      /\ s.pkt.memInhibit <=> \E d \in dests : d <= NumCaches /\ Supplies(cache[d])
  BY <1>5 DEF SnoopedUpTo
<1>9. /\ s.pkt.shared <=> cmd = "ReadReq" /\ \E d \in Caches \ {r} : Shares(cache[d])
      /\ s.pkt.memInhibit <=> \E d \in Caches \ {r} : Supplies(cache[d])
  BY <1>2, <1>6, <1>8
<1> QED BY <1>7, <1>8, <1>9 DEF SnoopsOK, s

(* Leaving out caches that ignore the snoop makes no difference.           *)
LEMMA SnoopSame ==
    ASSUME CachesOK, NEW r \in Caches, NEW cmd \in SnoopCmds, NEW dests \in SUBSET Caches,
           r \notin dests, \A d \in Caches \ {r} : d \notin dests => Idle(cache[d]),
           \A p, q \in Caches : Supplies(cache[p]) /\ Supplies(cache[q]) => p = q
    PROVE  forwardTiming(Packet(r, cmd), dests)
              = forwardTiming(Packet(r, cmd), Caches \ {r})
<1> DEFINE pkt == Packet(r, cmd)
           all == Caches \ {r}
<1>1. PICK f : /\ f[0] = [cache |-> cache, pkt |-> pkt, ok |-> TRUE]
               /\ \A d \in Caches : f[d] = Forward(f[d - 1], d, dests)
               /\ forwardTiming(pkt, dests) = f[NumCaches]
  BY ForwardRun
<1>2. PICK g : /\ g[0] = [cache |-> cache, pkt |-> pkt, ok |-> TRUE]
               /\ \A d \in Caches : g[d] = Forward(g[d - 1], d, all)
               /\ forwardTiming(pkt, all) = g[NumCaches]
  BY ForwardRun
<1>3. \A n \in 0 .. NumCaches : SnoopedUpTo(f[n], n, r, cmd, dests)
  <2>1. \A p, q \in dests : Supplies(cache[p]) /\ Supplies(cache[q]) => p = q
    OBVIOUS
  <2> QED BY <1>1, <2>1, SnoopHistory
<1> DEFINE S == {n \in Nat : n <= NumCaches => f[n] = g[n]}
<1>4. NumCaches \in Nat /\ Caches = 1 .. NumCaches
  BY CacheAssumption DEF Caches
<1>5. 0 \in S
  BY <1>1, <1>2
<1>6. ASSUME NEW n \in Nat, n \in S PROVE n + 1 \in S
  <2> SUFFICES ASSUME n + 1 <= NumCaches PROVE f[n + 1] = g[n + 1]
    OBVIOUS
  <2> DEFINE d == n + 1
             h == f[n]
  <2>0. d - 1 = n /\ ~(d <= n) /\ n \in 0 .. NumCaches
    BY <1>4
  <2>1. /\ d \in Caches /\ h = g[n] /\ d - 1 = n /\ n \in 0 .. NumCaches /\ ~(d <= n)
    BY <1>4, <1>6, <2>0
  <2>2. f[d] = Forward(h, d, dests) /\ g[d] = Forward(h, d, all)
    BY <1>1, <1>2, <2>1
  <2>3. SnoopedUpTo(h, n, r, cmd, dests)
    BY <1>3, <2>1
  <2> HIDE DEF d, h
  <2>4. CASE d \in dests
    <3> DEFINE s == recvTimingSnoopReq(h.cache[d], h.pkt)
               x == [cache |-> [h.cache EXCEPT ![d] = s.cache], pkt |-> s.pkt, ok |-> h.ok /\ s.ok]
    <3>1. \A D : d \in D => Forward(h, d, D) = x
      BY DEF Forward
    <3> HIDE DEF x
    <3> QED BY <2>1, <2>2, <2>4, <3>1 DEF d
  <2>7. \A D : d \notin D => Forward(h, d, D) = h
    BY DEF Forward
  <2>5. CASE d = r
    BY <2>2, <2>5, <2>7 DEF d
  <2>6. CASE d \notin dests /\ d # r
    <3>1. /\ h.cache[d] = cache[d] /\ cache[d] \in CacheRecords /\ CacheOK(cache[d])
          /\ Idle(cache[d]) /\ h.pkt \in Packets /\ h.ok = TRUE
      BY <2>1, <2>3, <2>6 DEF SnoopedUpTo, CachesOK
    <3>2. recvTimingSnoopReq(h.cache[d], h.pkt) = [cache |-> h.cache[d], pkt |-> h.pkt, ok |-> TRUE]
      BY <3>1, IdleSnoop
    <3>3. g[d] = [cache |-> [h.cache EXCEPT ![d] = h.cache[d]], pkt |-> h.pkt,
                  ok |-> h.ok /\ TRUE]
      BY <2>1, <2>2, <2>6, <3>2 DEF Forward
    <3>4. [h.cache EXCEPT ![d] = h.cache[d]] = h.cache
      <4>1. h.cache = [e \in Caches |-> h.cache[e]]
        BY <2>3 DEF SnoopedUpTo
      <4> DEFINE k == h.cache
      <4>2. k = [e \in Caches |-> k[e]]
        BY <4>1
      <4> HIDE DEF k
      <4>3. [k EXCEPT ![d] = k[d]] = k
        BY <4>2
      <4> QED BY <4>3 DEF k
    <3>5. (h.ok /\ TRUE) = TRUE
      BY <3>1
    <3>6. f[d] = h
      BY <2>2, <2>6, <2>7
    <3>7. g[d] = [cache |-> h.cache, pkt |-> h.pkt, ok |-> TRUE]
      BY <3>3, <3>4, <3>5
    <3>8. h = [cache |-> h.cache, pkt |-> h.pkt, ok |-> TRUE]
      BY <2>3 DEF SnoopedUpTo
    <3> QED BY <3>6, <3>7, <3>8 DEF d
  <2> QED BY <2>4, <2>5, <2>6 DEF d
<1> HIDE DEF S
<1>7. Nat \subseteq S
  BY <1>5, <1>6, Induction
<1> QED BY <1>1, <1>2, <1>4, <1>7 DEF S

-----------------------------------------------------------------------------
(* The targets that a fill serves.  One target at a time:                  *)
Fills == [cache : CacheRecords, latest : Nat, stale : BOOLEAN, ok : BOOLEAN]

LEMMA ServeLoad ==
    ASSUME NEW f \in Fills, NEW t, IsLoad(t), NEW resp, NEW inval,
           NEW g, g = ServeTarget(f, t, resp, inval), isValid(f.cache),
           ~(f.cache.data < t.readyTime)
    PROVE  g = f
<1> DEFINE b1 == f.stale \/ f.cache.data < t.readyTime
           b2 == f.ok /\ isValid(f.cache)
<1>1. t.source # "FromSnoop" /\ ~NeedsExclusive(t.cmd)
  BY DEF IsLoad, NeedsExclusive
<1>2. g = [f EXCEPT !.stale = b1, !.ok = b2]
  BY <1>1 DEF ServeTarget
<1>3. b1 = f.stale /\ b2 = f.ok
  BY DEF Fills
<1> HIDE DEF b1, b2
<1>4. g = [f EXCEPT !.stale = f.stale, !.ok = f.ok]
  BY <1>2, <1>3
<1> QED BY ONLY <1>4, f \in Fills DEF Fills

LEMMA ServeStore ==
    ASSUME NEW f \in Fills, NEW t, IsStore(t), NEW resp, NEW inval,
           NEW g, g = ServeTarget(f, t, resp, inval), isValid(f.cache), isWritable(f.cache)
    PROVE  g = [cache |-> [f.cache EXCEPT !.data = f.cache.data + 1,
                                          !.status = f.cache.status \cup {"Dirty"}],
                latest |-> f.latest + 1, stale |-> f.stale, ok |-> f.ok]
<1> DEFINE b2 == f.ok /\ isValid(f.cache) /\ isWritable(f.cache)
           c == f.cache
           st == f.cache.status \cup {"Dirty"}
           nc == [c EXCEPT !.data = c.data + 1, !.status = st]
<1>1. t.source # "FromSnoop" /\ NeedsExclusive(t.cmd)
  BY DEF IsStore, NeedsExclusive
<1>2. g = [f EXCEPT !.cache.data = @ + 1, !.cache.status = @ \cup {"Dirty"},
                    !.latest = @ + 1, !.ok = b2]
  BY <1>1 DEF ServeTarget
<1>3. b2 = f.ok
  BY DEF Fills
<1>4. c \in CacheRecords /\ f \in [cache : CacheRecords, latest : Nat, stale : BOOLEAN, ok : BOOLEAN]
  BY DEF Fills
<1> HIDE DEF b2
<1>5. g = [f EXCEPT !.cache = nc, !.latest = f.latest + 1, !.ok = f.ok]
  BY <1>2, <1>3, <1>4 DEF CacheRecords
<1> HIDE DEF nc
<1>6. g = [cache |-> nc, latest |-> f.latest + 1, stale |-> f.stale, ok |-> f.ok]
  BY <1>4, <1>5
<1> QED BY <1>6 DEF nc

(* The deferred snoop: the cache answers it if its block is dirty.         *)
Snapped(c, t, inval) ==
    [c EXCEPT !.status = IF t.cmd = "ReadReq" THEN c.status \ {"Writable"} ELSE {},
              !.data = IF t.cmd = "ReadReq" THEN c.data ELSE 0,
              !.snoopRespQueue = IF isDirty(c)
                  THEN Append(c.snoopRespQueue, Reply(t.order, t.cmd, c.data, inval))
                  ELSE c.snoopRespQueue]

LEMMA ServeSnoop ==
    ASSUME NEW f \in Fills, NEW t, IsSnoop(t), NEW resp, NEW inval,
           resp.cmd = "ReadRespWithInvalidate" => inval,
           NEW g, g = ServeTarget(f, t, resp, inval), isValid(f.cache)
    PROVE  g = [cache |-> Snapped(f.cache, t, inval), latest |-> f.latest,
                stale |-> f.stale, ok |-> f.ok]
<1> DEFINE c == f.cache
           pkt == Packet(t.order, t.cmd)
           s == handleSnoop(c, pkt, inval)
           b2 == f.ok /\ s.ok /\ (resp.cmd = "ReadRespWithInvalidate" => inval)
           sh == t.cmd = "ReadReq"
           rd == ~IsInvalidate(t.cmd)
           di == isDirty(c)
           b4 == di => ~pkt.memInhibit
           sn == [pkt EXCEPT !.shared = @ \/ rd, !.memInhibit = @ \/ di]
           sp == [from |-> t.order, cmd |-> t.cmd, shared |-> sh, memInhibit |-> TRUE]
           su == IF di THEN doTimingSupplyResponse(c, sn, c.data, inval) ELSE c
           nb == IF rd THEN [su EXCEPT !.status = @ \ {"Writable"}] ELSE invalidate(su)
<1>0. /\ f \in [cache : CacheRecords, latest : Nat, stale : BOOLEAN, ok : BOOLEAN]
      /\ c \in CacheRecords
  BY DEF Fills
<1>1. t.source = "FromSnoop" /\ t.cmd \in SnoopCmds
  BY DEF IsSnoop, IsRead, IsClaim, SnoopCmds
<1>2. g = [f EXCEPT !.cache = s.cache, !.ok = b2]
  BY <1>1 DEF ServeTarget
<1>3. s = [cache |-> nb, pkt |-> sn, ok |-> b4]
  BY DEF handleSnoop, Packet
<1>4. rd <=> t.cmd = "ReadReq"
  BY <1>1 DEF IsInvalidate, SnoopCmds
<1>5. di => sn = sp
  <2> SUFFICES ASSUME di PROVE sn = sp
    OBVIOUS
  <2>1. pkt = [from |-> t.order, cmd |-> t.cmd, shared |-> FALSE, memInhibit |-> FALSE]
    BY DEF Packet
  <2>2. (FALSE \/ rd) = sh /\ (FALSE \/ di) = TRUE
    BY <1>4
  <2> DEFINE b5 == FALSE \/ rd
             b6 == FALSE \/ di
  <2>3. sn = [from |-> t.order, cmd |-> t.cmd, shared |-> b5, memInhibit |-> b6]
    <3>1. pkt.shared = FALSE /\ pkt.memInhibit = FALSE
      BY <2>1
    <3>2. (pkt.shared \/ rd) = b5 /\ (pkt.memInhibit \/ di) = b6
      BY <3>1
    <3>3. sn = [pkt EXCEPT !.shared = b5, !.memInhibit = b6]
      BY <3>2
    <3> HIDE DEF sn, b5, b6, pkt
    <3> QED BY <2>1, <3>3
  <2> HIDE DEF sn, sh, b5, b6
  <2>4. b5 = sh /\ b6 = TRUE
    BY <2>2 DEF b5, b6
  <2> QED BY <2>3, <2>4
<1>6. b4 = TRUE
  <2>1. ~pkt.memInhibit
    BY DEF Packet
  <2> QED BY <2>1
<1>7. di => Response(sn, c.data, inval) = Reply(t.order, t.cmd, c.data, inval)
  BY <1>5 DEF Reply
<1>8. su = [c EXCEPT !.snoopRespQueue = IF di
                  THEN Append(c.snoopRespQueue, Reply(t.order, t.cmd, c.data, inval))
                  ELSE c.snoopRespQueue]
  <2>1. CASE di
    BY <1>7, <2>1 DEF doTimingSupplyResponse
  <2>2. CASE ~di
    <3>1. su = c
      BY <2>2
    <3> HIDE DEF su
    <3> QED BY <1>0, <2>2, <3>1, CacheFields
  <2> QED BY <2>1, <2>2
<1>9. nb = IF rd THEN [su EXCEPT !.status = su.status \ {"Writable"}]
                 ELSE [su EXCEPT !.status = {}, !.data = 0]
  BY DEF invalidate
<1> DEFINE q == IF di THEN Append(c.snoopRespQueue, Reply(t.order, t.cmd, c.data, inval))
                      ELSE c.snoopRespQueue
<1> HIDE DEF nb, su, sn, b4
<1>10. nb = Snapped(c, t, inval)
  <2>1. su = [c EXCEPT !.snoopRespQueue = q]
    BY <1>8
  <2>2. CASE rd
    <3>1. Snapped(c, t, inval) = [c EXCEPT !.status = c.status \ {"Writable"},
                                           !.data = c.data, !.snoopRespQueue = q]
      BY <1>4, <2>2 DEF Snapped
    <3>2. nb = [su EXCEPT !.status = su.status \ {"Writable"}]
      BY <1>9, <2>2
    <3> HIDE DEF q
    <3> QED BY ONLY <1>0, <2>1, <3>1, <3>2 DEF CacheRecords
  <2>3. CASE ~rd
    <3>1. Snapped(c, t, inval) = [c EXCEPT !.status = {}, !.data = 0, !.snoopRespQueue = q]
      BY <1>4, <2>3 DEF Snapped
    <3>2. nb = [su EXCEPT !.status = {}, !.data = 0]
      BY <1>9, <2>3
    <3> HIDE DEF q
    <3> QED BY ONLY <1>0, <2>1, <3>1, <3>2 DEF CacheRecords
  <2> QED BY <2>2, <2>3
<1>11. s.cache = nb /\ s.ok = TRUE
  BY <1>3, <1>6
<1>12. b2 = f.ok
  BY <1>0, <1>11
<1> HIDE DEF s, b2
<1>13. g = [f EXCEPT !.cache = Snapped(c, t, inval), !.ok = f.ok]
  BY <1>2, <1>10, <1>11, <1>12
<1> DEFINE z == Snapped(c, t, inval)
<1>14. g = [f EXCEPT !.cache = z, !.ok = f.ok]
  BY <1>13
<1> HIDE DEF z
<1>15. g = [cache |-> z, latest |-> f.latest, stale |-> f.stale, ok |-> f.ok]
  BY ONLY <1>0, <1>14
<1> QED BY <1>15 DEF z

(* All the targets l of a fill of the cache c: what must hold before,      *)
ServeStart(c, l, lat, resp, inval) ==
    /\ c \in CacheRecords /\ isValid(c) /\ isReadable(c) /\ c.snoopRespQueue = <<>>
    /\ l \in Seq(Targets) /\ lat \in Nat
    /\ \A k \in DOMAIN l : \/ IsLoad(l[k]) \/ IsStore(l[k]) \/ IsRead(l[k])
                           \/ IsClaim(l[k]) /\ k = Len(l)
    /\ \A j, k \in DOMAIN l : j < k /\ IsRead(l[j]) => ~IsStore(l[k])
    /\ HasStore(l) => isWritable(c) /\ c.data = lat
    /\ isDirty(c) => HasStore(l)
    /\ \A k \in DOMAIN l : IsRead(l[k]) => HasStore(l)
    /\ \A k \in DOMAIN l : IsLoad(l[k]) => l[k].readyTime <= c.data
    /\ resp.cmd = "ReadRespWithInvalidate" => inval
    /\ HasStore(l) => \A k \in DOMAIN l : IsSnoop(l[k]) =>
          l[k].order \in Caches /\ (IsClaim(l[k]) => l[k].cmd = "ReadExReq")
    /\ HasStore(l) => \A j, k \in DOMAIN l :
          IsSnoop(l[j]) /\ IsSnoop(l[k]) /\ l[j].order = l[k].order => j = k

(* the answers that the first n leave in the queue q of the cache,         *)
Answered(q, l, n, d, inval) ==
    /\ \A i \in DOMAIN q : \E k \in 1 .. n :
          IsSnoop(l[k]) /\ q[i] = Reply(l[k].order, l[k].cmd, d, inval)
    /\ \A k \in 1 .. n : IsSnoop(l[k]) => \E i \in DOMAIN q : q[i].to = l[k].order
    /\ \A i, j \in DOMAIN q : q[i].to = q[j].to => i = j
    /\ \A i \in DOMAIN q : q[i].cmd = "ReadExResp" => i = Len(q)

(* and the state g of the fill after them.                                 *)
Served(g, n, c, l, lat, inval) ==
    /\ g \in Fills /\ ~g.stale /\ g.ok
    /\ g.cache.mshr = c.mshr /\ g.cache.writeback = c.writeback
    /\ g.latest >= lat
    /\ g.latest > lat <=> \E k \in 1 .. n : IsStore(l[k])
    /\ n # 0 /\ IsClaim(l[n]) => g.cache.status = {}
    /\ ~(n # 0 /\ IsClaim(l[n])) =>
          /\ g.cache.data = IF HasStore(l) THEN g.latest ELSE c.data
          /\ isValid(g.cache) /\ isReadable(g.cache)
          /\ isWritable(g.cache) <=> isWritable(c) /\ \A k \in 1 .. n : ~IsRead(l[k])
          /\ isDirty(g.cache) <=> isDirty(c) \/ \E k \in 1 .. n : IsStore(l[k])
    /\ IF HasStore(l) THEN Answered(g.cache.snoopRespQueue, l, n, g.latest, inval)
                      ELSE g.cache.snoopRespQueue = <<>>

LEMMA TargetKinds ==
    ASSUME NEW t
    PROVE  /\ IsLoad(t) => ~IsStore(t) /\ ~IsSnoop(t)
           /\ IsStore(t) => ~IsLoad(t) /\ ~IsSnoop(t)
           /\ IsRead(t) => ~IsClaim(t) /\ t.cmd = "ReadReq"
           /\ IsClaim(t) => ~IsRead(t) /\ t.cmd # "ReadReq"
           /\ IsSnoop(t) <=> IsRead(t) \/ IsClaim(t)
           /\ IsSnoop(t) => t.cmd \in SnoopCmds /\ t.source = "FromSnoop"
           /\ IsSnoop(t) => ~IsLoad(t) /\ ~IsStore(t)
  BY DEF IsLoad, IsStore, IsRead, IsClaim, IsSnoop, SnoopCmds

(* A cache after a store or after a deferred snoop.                        *)
LEMMA StoredCache ==
    ASSUME NEW c \in CacheRecords,
           NEW c2, c2 = [c EXCEPT !.data = c.data + 1, !.status = c.status \cup {"Dirty"}]
    PROVE  /\ c2 \in CacheRecords /\ c2.data = c.data + 1 /\ c2.mshr = c.mshr
           /\ c2.writeback = c.writeback /\ c2.snoopRespQueue = c.snoopRespQueue
           /\ isValid(c2) <=> isValid(c)
           /\ isReadable(c2) <=> isReadable(c)
           /\ isWritable(c2) <=> isWritable(c)
           /\ isDirty(c2)
           /\ c2.status = c.status \cup {"Dirty"}
<1> DEFINE st == c.status \cup {"Dirty"}
<1>1. st \in SUBSET Bits /\ c.data + 1 \in Nat
  BY CacheFields DEF Bits
<1>2. c2 = [c EXCEPT !.data = c.data + 1, !.status = st]
  OBVIOUS
<1> HIDE DEF st
<1>3. /\ c2 \in CacheRecords /\ c2.data = c.data + 1 /\ c2.mshr = c.mshr
      /\ c2.writeback = c.writeback /\ c2.snoopRespQueue = c.snoopRespQueue
      /\ c2.status = st
  BY ONLY <1>1, <1>2, c \in CacheRecords DEF CacheRecords
<1> QED BY <1>3 DEF st, isValid, isReadable, isWritable, isDirty

LEMMA SnappedCache ==
    ASSUME NEW c \in CacheRecords, NEW t, IsSnoop(t), isDirty(c) => t.order \in Caches,
           NEW inval, NEW c2, c2 = Snapped(c, t, inval)
    PROVE  /\ c2 \in CacheRecords /\ c2.mshr = c.mshr /\ c2.writeback = c.writeback
           /\ c2.snoopRespQueue = IF isDirty(c)
                  THEN Append(c.snoopRespQueue, Reply(t.order, t.cmd, c.data, inval))
                  ELSE c.snoopRespQueue
           /\ IsClaim(t) => c2.status = {}
           /\ IsRead(t) => /\ c2.data = c.data /\ ~isWritable(c2)
                           /\ isValid(c2) <=> isValid(c)
                           /\ isReadable(c2) <=> isReadable(c)
                           /\ isDirty(c2) <=> isDirty(c)
<1> DEFINE st == IF t.cmd = "ReadReq" THEN c.status \ {"Writable"} ELSE {}
           da == IF t.cmd = "ReadReq" THEN c.data ELSE 0
           a == Reply(t.order, t.cmd, c.data, inval)
           q == IF isDirty(c) THEN Append(c.snoopRespQueue, a) ELSE c.snoopRespQueue
<1>1. st \in SUBSET Bits /\ da \in Nat
  BY CacheFields DEF Bits
<1>2. isDirty(c) => a \in Responses
  <2> SUFFICES ASSUME isDirty(c) PROVE a \in Responses
    OBVIOUS
  <2>1. t.order \in Caches /\ t.cmd \in SnoopCmds /\ c.data \in Nat
        /\ a = Reply(t.order, t.cmd, c.data, inval)
    BY TargetKinds, CacheFields
  <2> HIDE DEF a
  <2> QED BY ONLY <2>1, ReplyFacts
<1> HIDE DEF a
<1>3. q \in Seq(Responses)
  <2>1. c.snoopRespQueue \in Seq(Responses)
    BY CacheFields
  <2>2. isDirty(c) => Append(c.snoopRespQueue, a) \in Seq(Responses)
    BY <1>2, <2>1, AppendFacts
  <2> QED BY <2>1, <2>2
<1>4. c2 = [c EXCEPT !.status = st, !.data = da, !.snoopRespQueue = q]
  BY DEF Snapped, a
<1> HIDE DEF st, da, q
<1>5. /\ c2 \in CacheRecords /\ c2.mshr = c.mshr /\ c2.writeback = c.writeback
      /\ c2.snoopRespQueue = q /\ c2.status = st /\ c2.data = da
  BY ONLY <1>1, <1>3, <1>4, c \in CacheRecords DEF CacheRecords
<1>6. IsClaim(t) => c2.status = {}
  BY <1>5, TargetKinds DEF st
<1>7. IsRead(t) => c2.status = c.status \ {"Writable"} /\ c2.data = c.data
  BY <1>5, TargetKinds DEF st, da
<1>8. IsRead(t) => /\ c2.data = c.data /\ ~isWritable(c2)
                   /\ isValid(c2) <=> isValid(c)
                   /\ isReadable(c2) <=> isReadable(c)
                   /\ isDirty(c2) <=> isDirty(c)
  BY <1>7 DEF isValid, isReadable, isWritable, isDirty
<1> QED BY <1>5, <1>6, <1>8 DEF q, a

(* One more answer in the queue.                                           *)
LEMMA AnsweredOne ==
    ASSUME NEW q \in Seq(Responses), NEW l, NEW n \in Nat, NEW d \in Nat, NEW inval,
           Answered(q, l, n, d, inval), IsSnoop(l[n + 1]), l[n + 1].order \in Caches,
           \A k \in 1 .. n : ~IsClaim(l[k]) /\ (IsSnoop(l[k]) =>
               l[k].order \in Caches /\ l[k].order # l[n + 1].order)
    PROVE  Answered(Append(q, Reply(l[n + 1].order, l[n + 1].cmd, d, inval)), l, n + 1, d, inval)
<1> DEFINE a == Reply(l[n + 1].order, l[n + 1].cmd, d, inval)
           p == Append(q, a)
<1>1. l[n + 1].cmd \in SnoopCmds
  BY TargetKinds
<1>2. a \in Responses /\ a.to = l[n + 1].order
  <2>1. a = Reply(l[n + 1].order, l[n + 1].cmd, d, inval)
    OBVIOUS
  <2> HIDE DEF a
  <2> QED BY <1>1, <2>1, ReplyFacts
<1>3. /\ Len(q) \in Nat /\ DOMAIN q = 1 .. Len(q) /\ DOMAIN p = 1 .. Len(q) + 1
      /\ p[Len(q) + 1] = a /\ Len(p) = Len(q) + 1
      /\ \A i \in DOMAIN q : p[i] = q[i]
      /\ \A i \in DOMAIN p : i \in DOMAIN q \/ i = Len(q) + 1
  BY <1>2, AppendFacts
<1>4. \A i \in DOMAIN q : \E k \in 1 .. n :
          IsSnoop(l[k]) /\ q[i] = Reply(l[k].order, l[k].cmd, d, inval)
  BY DEF Answered
<1>5. \A i \in DOMAIN q : q[i].to # a.to /\ q[i].cmd # "ReadExResp"
  <2> SUFFICES ASSUME NEW i \in DOMAIN q PROVE q[i].to # a.to /\ q[i].cmd # "ReadExResp"
    OBVIOUS
  <2>1. PICK k \in 1 .. n : IsSnoop(l[k]) /\ q[i] = Reply(l[k].order, l[k].cmd, d, inval)
    BY <1>4
  <2>2. l[k].order \in Caches /\ l[k].order # l[n + 1].order /\ l[k].cmd = "ReadReq"
        /\ l[k].cmd \in SnoopCmds
    BY <2>1, TargetKinds
  <2>3. q[i].to = l[k].order
        /\ q[i].cmd = IF inval THEN "ReadRespWithInvalidate" ELSE "ReadResp"
    BY <2>1, <2>2, ReplyFacts
  <2> QED BY <1>2, <2>2, <2>3
<1> HIDE DEF p
<1>6. \A i \in DOMAIN p : \E k \in 1 .. n + 1 :
          IsSnoop(l[k]) /\ p[i] = Reply(l[k].order, l[k].cmd, d, inval)
  <2> SUFFICES ASSUME NEW i \in DOMAIN p
               PROVE  \E k \in 1 .. n + 1 :
                         IsSnoop(l[k]) /\ p[i] = Reply(l[k].order, l[k].cmd, d, inval)
    OBVIOUS
  <2>1. CASE i \in DOMAIN q
    BY <1>3, <1>4, <2>1
  <2>2. CASE i = Len(q) + 1
    BY <1>3, <2>2
  <2> QED BY <1>3, <2>1, <2>2
<1> HIDE DEF a
<1>7. \A k \in 1 .. n + 1 : IsSnoop(l[k]) => \E i \in DOMAIN p : p[i].to = l[k].order
  <2> SUFFICES ASSUME NEW k \in 1 .. n + 1, IsSnoop(l[k])
               PROVE  \E i \in DOMAIN p : p[i].to = l[k].order
    OBVIOUS
  <2>1. CASE k = n + 1
    BY <1>2, <1>3, <2>1
  <2>2. CASE k # n + 1
    <3>1. k \in 1 .. n
      BY <2>2
    <3>2. PICK i \in DOMAIN q : q[i].to = l[k].order
      BY <3>1 DEF Answered
    <3> QED BY <1>3, <3>2
  <2> QED BY <2>1, <2>2
<1>8. \A i, j \in DOMAIN p : p[i].to = p[j].to => i = j
  <2>1. \A i, j \in DOMAIN q : q[i].to = q[j].to => i = j
    BY DEF Answered
  <2> QED BY <1>3, <1>5, <2>1
<1>9. \A i \in DOMAIN p : p[i].cmd = "ReadExResp" => i = Len(p)
  BY <1>3, <1>5
<1> QED BY <1>6, <1>7, <1>8, <1>9 DEF Answered, p, a

(* A target that is no snoop leaves the queue alone.                       *)
LEMMA AnsweredNone ==
    ASSUME NEW q, NEW l, NEW n \in Nat, NEW d, NEW inval,
           Answered(q, l, n, d, inval), ~IsSnoop(l[n + 1])
    PROVE  Answered(q, l, n + 1, d, inval)
<1>1. \A k \in 1 .. n + 1 : k \in 1 .. n \/ k = n + 1
  OBVIOUS
<1>2. \A k \in 1 .. n : k \in 1 .. n + 1
  OBVIOUS
<1> QED BY <1>1, <1>2 DEF Answered

LEMMA ServeStep ==
    ASSUME NEW c, NEW l, NEW lat, NEW resp, NEW inval, ServeStart(c, l, lat, resp, inval),
           NEW n \in Nat, n + 1 \in DOMAIN l, NEW f, Served(f, n, c, l, lat, inval),
           NEW g, g = ServeTarget(f, l[n + 1], resp, inval)
    PROVE  Served(g, n + 1, c, l, lat, inval)
<1> DEFINE t == l[n + 1]
           e == f.cache
<1>1. /\ c \in CacheRecords /\ l \in Seq(Targets) /\ lat \in Nat /\ c.data \in Nat
      /\ Len(l) \in Nat /\ DOMAIN l = 1 .. Len(l) /\ n + 1 <= Len(l)
      /\ n # 0 => n \in DOMAIN l
      /\ \A k \in 1 .. n : k \in DOMAIN l /\ k # Len(l) /\ k < n + 1
  BY CacheFields DEF ServeStart
<1>2. /\ f \in Fills /\ e \in CacheRecords /\ f.latest \in Nat /\ ~f.stale /\ f.ok
      /\ e.mshr = c.mshr /\ e.writeback = c.writeback /\ f.latest >= lat
      /\ f.latest > lat <=> \E k \in 1 .. n : IsStore(l[k])
      /\ f.stale \in BOOLEAN /\ f.ok \in BOOLEAN /\ e.data \in Nat
      /\ e.snoopRespQueue \in Seq(Responses)
  BY CacheFields DEF Served, Fills
<1>3. \A k \in 1 .. n : ~IsClaim(l[k])
  BY <1>1, TargetKinds DEF ServeStart
<1>4. ~(n # 0 /\ IsClaim(l[n]))
  BY <1>3
<1>5. /\ e.data = IF HasStore(l) THEN f.latest ELSE c.data
      /\ isValid(e) /\ isReadable(e)
      /\ isWritable(e) <=> isWritable(c) /\ \A k \in 1 .. n : ~IsRead(l[k])
      /\ isDirty(e) <=> isDirty(c) \/ \E k \in 1 .. n : IsStore(l[k])
  BY <1>4 DEF Served
<1>6. /\ HasStore(l) => Answered(e.snoopRespQueue, l, n, f.latest, inval)
      /\ ~HasStore(l) => e.snoopRespQueue = <<>>
  BY DEF Served
<1>7. \A k \in 1 .. n + 1 : k \in 1 .. n \/ k = n + 1
  OBVIOUS
<1>8. \A k \in 1 .. n : k \in 1 .. n + 1
  OBVIOUS
<1>9. n + 1 \in 1 .. n + 1 /\ n + 1 # 0 /\ n + 1 \in Nat
  OBVIOUS
<1>10. HasStore(l) => isWritable(c) /\ c.data = lat
  BY DEF ServeStart
<1>11. CASE IsLoad(t)
  <2>1. ~IsStore(t) /\ ~IsSnoop(t) /\ ~IsClaim(t) /\ ~IsRead(t)
    BY <1>11, TargetKinds
  <2>2. t.readyTime <= c.data /\ t.readyTime \in Nat
    <3>1. n + 1 \in DOMAIN l /\ l \in Seq(Targets)
      BY <1>1
    <3>2. t \in Targets
      BY ONLY <3>1
    <3> QED BY <1>11, <3>2 DEF ServeStart, Targets
  <2>3. c.data <= e.data
    <3>1. CASE HasStore(l)
      <4>1. c.data = lat /\ e.data = f.latest /\ f.latest >= lat /\ lat \in Nat /\ f.latest \in Nat
        BY <1>1, <1>2, <1>5, <1>10, <3>1
      <4> QED BY ONLY <4>1
    <3>2. CASE ~HasStore(l)
      <4>1. c.data = e.data /\ c.data \in Nat
        BY <1>1, <1>5, <3>2
      <4> QED BY ONLY <4>1
    <3> QED BY <3>1, <3>2
  <2>4. ~(e.data < t.readyTime)
    <3>1. e.data \in Nat /\ c.data \in Nat
      BY <1>1, <1>2
    <3> QED BY ONLY <3>1, <2>2, <2>3
  <2>5. g = f
    BY <1>2, <1>5, <1>11, <2>4, ServeLoad
  <2> HIDE DEF t
  <2>6. /\ (\E k \in 1 .. n + 1 : IsStore(l[k])) <=> \E k \in 1 .. n : IsStore(l[k])
        /\ (\A k \in 1 .. n + 1 : ~IsRead(l[k])) <=> \A k \in 1 .. n : ~IsRead(l[k])
    BY <1>7, <1>8, <2>1 DEF t
  <2>7. HasStore(l) => Answered(e.snoopRespQueue, l, n + 1, f.latest, inval)
    BY <1>6, <2>1, AnsweredNone DEF t
  <2> QED BY <1>2, <1>5, <1>6, <1>9, <2>1, <2>5, <2>6, <2>7 DEF Served, t
<1>12. CASE IsStore(t)
  <2>1. ~IsSnoop(t) /\ ~IsClaim(t) /\ ~IsRead(t) /\ HasStore(l)
    BY <1>12, TargetKinds DEF HasStore
  <2>2. \A k \in 1 .. n : ~IsRead(l[k])
    BY <1>1, <1>12 DEF ServeStart
  <2>3. isWritable(e)
    BY <1>5, <1>10, <2>1, <2>2
  <2> DEFINE d == [e EXCEPT !.data = e.data + 1, !.status = e.status \cup {"Dirty"}]
  <2>4. g = [cache |-> d, latest |-> f.latest + 1, stale |-> f.stale, ok |-> f.ok]
    BY <1>2, <1>5, <1>12, <2>3, ServeStore
  <2>5. /\ d \in CacheRecords /\ d.data = e.data + 1 /\ d.mshr = e.mshr
        /\ d.writeback = e.writeback /\ d.snoopRespQueue = e.snoopRespQueue
        /\ isValid(d) <=> isValid(e)
        /\ isReadable(d) <=> isReadable(e)
        /\ isWritable(d) <=> isWritable(e)
        /\ isDirty(d)
    <3>1. d = [e EXCEPT !.data = e.data + 1, !.status = e.status \cup {"Dirty"}]
      OBVIOUS
    <3> HIDE DEF d
    <3> QED BY <1>2, <3>1, StoredCache
  <2> HIDE DEF d
  <2>6. /\ g \in Fills /\ g.cache = d /\ g.latest = f.latest + 1 /\ g.latest \in Nat
        /\ ~g.stale /\ g.ok
    BY <1>2, <2>4, <2>5 DEF Fills
  <2>7. e.snoopRespQueue = <<>>
    <3>1. \A k \in 1 .. n : ~IsSnoop(l[k])
      BY <1>3, <2>2, TargetKinds
    <3>2. \A i \in DOMAIN e.snoopRespQueue : FALSE
      BY <1>6, <2>1, <3>1 DEF Answered
    <3> DEFINE q == e.snoopRespQueue
    <3>3. q \in Seq(Responses) /\ \A i \in DOMAIN q : FALSE
      BY <1>2, <3>2
    <3> HIDE DEF q
    <3>4. DOMAIN q = 1 .. Len(q) /\ Len(q) \in Nat
      BY <3>3
    <3>5. Len(q) = 0
      <4>1. 1 \notin 1 .. Len(q)
        BY ONLY <3>3, <3>4
      <4> QED BY ONLY <3>4, <4>1
    <3>6. q = <<>>
      BY ONLY <3>3, <3>5
    <3> QED BY <3>6 DEF q
  <2>8. Answered(e.snoopRespQueue, l, n + 1, f.latest + 1, inval)
    <3>1. \A k \in 1 .. n + 1 : ~IsSnoop(l[k])
      BY <1>3, <1>7, <2>1, <2>2, TargetKinds
    <3>2. DOMAIN e.snoopRespQueue = {}
      BY <2>7
    <3> QED BY <3>1, <3>2 DEF Answered
  <2>9. g.latest >= lat /\ g.latest > lat /\ \E k \in 1 .. n + 1 : IsStore(l[k])
    <3>1. g.latest = f.latest + 1 /\ f.latest >= lat /\ lat \in Nat /\ f.latest \in Nat
      BY <1>1, <1>2, <2>6
    <3>2. g.latest >= lat /\ g.latest > lat
      BY ONLY <3>1
    <3>3. n + 1 \in 1 .. n + 1 /\ IsStore(l[n + 1])
      BY <1>9, <1>12
    <3> QED BY ONLY <3>2, <3>3
  <2>10. \A k \in 1 .. n + 1 : ~IsRead(l[k])
    BY <1>7, <2>1, <2>2
  <2>11. d.data = g.latest
    BY <1>5, <2>1, <2>5, <2>6
  <2> HIDE DEF t
  <2> QED BY <1>2, <1>5, <1>9, <1>10, <2>1, <2>3, <2>5, <2>6, <2>8, <2>9, <2>10, <2>11 DEF Served, t
<1>13. CASE IsSnoop(t)
  <2>1. ~IsStore(t) /\ ~IsLoad(t) /\ (IsRead(t) \/ IsClaim(t)) /\ (IsRead(t) => ~IsClaim(t))
        /\ t.cmd \in SnoopCmds
    BY <1>13, TargetKinds
  <2>2. HasStore(l) => t.order \in Caches
    BY <1>13 DEF ServeStart
  <2>3. isDirty(e) <=> HasStore(l)
    <3>1. isDirty(e) => HasStore(l)
      BY <1>1, <1>5 DEF ServeStart, HasStore
    <3>2. HasStore(l) => \E k \in 1 .. n : IsStore(l[k])
      <4> SUFFICES ASSUME NEW k \in DOMAIN l, IsStore(l[k]) PROVE k \in 1 .. n
        BY DEF HasStore
      <4>1. k # n + 1
        BY <2>1
      <4>2. ~(n + 1 < k)
        <5>1. CASE IsRead(t)
          <6>1. /\ IsRead(l[n + 1]) /\ k \in DOMAIN l /\ n + 1 \in DOMAIN l
                /\ \A i, j \in DOMAIN l : i < j /\ IsRead(l[i]) => ~IsStore(l[j])
            BY <5>1 DEF ServeStart
          <6> QED BY ONLY <6>1, IsStore(l[k])
        <5>2. CASE IsClaim(t)
          <6>1. IsClaim(l[n + 1]) /\ ~IsLoad(l[n + 1]) /\ ~IsStore(l[n + 1]) /\ ~IsRead(l[n + 1])
            BY <5>2, TargetKinds
          <6>2. n + 1 = Len(l)
            BY <6>1 DEF ServeStart
          <6>3. k \in 1 .. Len(l) /\ Len(l) \in Nat
            BY <1>1
          <6> QED BY ONLY <6>2, <6>3
        <5> QED BY <2>1, <5>1, <5>2
      <4>3. k \in 1 .. Len(l) /\ Len(l) \in Nat /\ n \in Nat
        BY <1>1
      <4> QED BY ONLY <4>1, <4>2, <4>3
    <3> QED BY <1>5, <3>1, <3>2
  <2> DEFINE d == Snapped(e, t, inval)
  <2>4. g = [cache |-> d, latest |-> f.latest, stale |-> f.stale, ok |-> f.ok]
    <3>1. resp.cmd = "ReadRespWithInvalidate" => inval
      BY DEF ServeStart
    <3>2. f \in Fills /\ IsSnoop(t) /\ g = ServeTarget(f, t, resp, inval) /\ isValid(f.cache)
      BY <1>2, <1>5, <1>13
    <3> HIDE DEF t
    <3>3. g = [cache |-> Snapped(f.cache, t, inval), latest |-> f.latest,
               stale |-> f.stale, ok |-> f.ok]
      BY ONLY <3>1, <3>2, ServeSnoop
    <3> QED BY <3>3
  <2>5. /\ d \in CacheRecords /\ d.mshr = e.mshr /\ d.writeback = e.writeback
        /\ d.snoopRespQueue = IF isDirty(e)
              THEN Append(e.snoopRespQueue, Reply(t.order, t.cmd, e.data, inval))
              ELSE e.snoopRespQueue
        /\ IsClaim(t) => d.status = {}
        /\ IsRead(t) => /\ d.data = e.data /\ ~isWritable(d)
                        /\ isValid(d) <=> isValid(e)
                        /\ isReadable(d) <=> isReadable(e)
                        /\ isDirty(d) <=> isDirty(e)
    <3>1. d = Snapped(e, t, inval) /\ (isDirty(e) => t.order \in Caches)
      BY <2>2, <2>3
    <3> HIDE DEF d, t, e
    <3>2. IsSnoop(t) /\ e \in CacheRecords
      BY <1>2, <1>13
    <3> QED BY ONLY <3>1, <3>2, SnappedCache
  <2> HIDE DEF d
  <2>6. /\ g \in Fills /\ g.cache = d /\ g.latest = f.latest /\ ~g.stale /\ g.ok
    BY <1>2, <2>4, <2>5 DEF Fills
  <2>7. HasStore(l) => Answered(d.snoopRespQueue, l, n + 1, g.latest, inval)
    <3> SUFFICES ASSUME HasStore(l) PROVE Answered(d.snoopRespQueue, l, n + 1, g.latest, inval)
      OBVIOUS
    <3>1. d.snoopRespQueue = Append(e.snoopRespQueue, Reply(t.order, t.cmd, f.latest, inval))
      BY <1>5, <2>3, <2>5
    <3>2. \A k \in 1 .. n : ~IsClaim(l[k]) /\ (IsSnoop(l[k]) =>
               l[k].order \in Caches /\ l[k].order # l[n + 1].order)
      <4> SUFFICES ASSUME NEW k \in 1 .. n, IsSnoop(l[k])
                   PROVE  l[k].order \in Caches /\ l[k].order # l[n + 1].order
        BY <1>3
      <4>1. k \in DOMAIN l /\ n + 1 \in DOMAIN l /\ IsSnoop(l[n + 1])
        BY <1>1, <1>13
      <4>2. k # n + 1
        BY ONLY k \in 1 .. n, n \in Nat
      <4> QED BY <4>1, <4>2 DEF ServeStart
    <3>3. /\ e.snoopRespQueue \in Seq(Responses) /\ f.latest \in Nat
          /\ Answered(e.snoopRespQueue, l, n, f.latest, inval) /\ IsSnoop(l[n + 1])
          /\ l[n + 1].order \in Caches
      BY <1>2, <1>6, <1>13, <2>2
    <3> HIDE DEF e
    <3>4. Answered(Append(e.snoopRespQueue, Reply(t.order, t.cmd, f.latest, inval)),
                   l, n + 1, f.latest, inval)
      BY <3>2, <3>3, AnsweredOne
    <3> QED BY <2>6, <3>1, <3>4
  <2>8. ~HasStore(l) => d.snoopRespQueue = <<>>
    BY <1>6, <2>3, <2>5
  <2>9. (\E k \in 1 .. n + 1 : IsStore(l[k])) <=> \E k \in 1 .. n : IsStore(l[k])
    BY <1>7, <1>8, <2>1
  <2>10. IsRead(t) => ~\A k \in 1 .. n + 1 : ~IsRead(l[k])
    BY <1>9
  <2>11. IsRead(t) => d.data = IF HasStore(l) THEN g.latest ELSE c.data
    BY <1>5, <2>5, <2>6
  <2> HIDE DEF t
  <2>12. CASE IsClaim(t)
    BY <1>2, <1>9, <2>5, <2>6, <2>7, <2>8, <2>9, <2>12 DEF Served, t
  <2>13. CASE IsRead(t)
    BY <1>2, <1>5, <1>9, <2>1, <2>5, <2>6, <2>7, <2>8, <2>9, <2>10, <2>11, <2>13 DEF Served, t
  <2> QED BY <2>1, <2>12, <2>13
<1>14. IsLoad(t) \/ IsStore(t) \/ IsSnoop(t)
  BY TargetKinds DEF ServeStart
<1> QED BY <1>11, <1>12, <1>13, <1>14

LEMMA ServedNone ==
    ASSUME NEW c, NEW l, NEW lat, NEW resp, NEW inval, ServeStart(c, l, lat, resp, inval),
           NEW st \in BOOLEAN, ~st
    PROVE  Served([cache |-> c, latest |-> lat, stale |-> st, ok |-> TRUE],
                  0, c, l, lat, inval)
<1> DEFINE fl == [cache |-> c, latest |-> lat, stale |-> st, ok |-> TRUE]
<1>1. /\ c \in CacheRecords /\ l \in Seq(Targets) /\ lat \in Nat /\ c.data \in Nat
      /\ Len(l) \in Nat /\ DOMAIN l = 1 .. Len(l) /\ isValid(c) /\ isReadable(c)
      /\ c.snoopRespQueue = <<>>
      /\ HasStore(l) => c.data = lat
  BY CacheFields DEF ServeStart
<1>2. fl \in Fills /\ fl.cache = c /\ fl.latest = lat /\ ~fl.stale /\ fl.ok
  BY <1>1 DEF Fills
<1>3. ~(fl.latest > lat) /\ fl.latest >= lat
  BY <1>1, <1>2
<1>4. \A k \in 1 .. 0 : FALSE
  OBVIOUS
<1>5. Answered(<<>>, l, 0, lat, inval)
  BY <1>4 DEF Answered
<1> HIDE DEF fl
<1>6. Served(fl, 0, c, l, lat, inval)
  BY <1>1, <1>2, <1>3, <1>4, <1>5 DEF Served
<1> QED BY <1>6 DEF fl

LEMMA ServeAll ==
    ASSUME NEW c, NEW l, NEW lat, NEW resp, NEW inval, ServeStart(c, l, lat, resp, inval),
           NEW st \in BOOLEAN, ~st
    PROVE  Served(ServeTargets([cache |-> c, latest |-> lat, stale |-> st, ok |-> TRUE],
                               l, resp, inval), Len(l), c, l, lat, inval)
<1> DEFINE fl == [cache |-> c, latest |-> lat, stale |-> st, ok |-> TRUE]
<1>1. l \in Seq(Targets) /\ Len(l) \in Nat /\ DOMAIN l = 1 .. Len(l)
  BY DEF ServeStart
<1>2. PICK f : /\ f[0] = fl
               /\ \A i \in 1 .. Len(l) : f[i] = ServeTarget(f[i - 1], l[i], resp, inval)
               /\ ServeTargets(fl, l, resp, inval) = f[Len(l)]
  <2>1. PICK f : ServeHistory(f, fl, l, resp, inval)
    BY <1>1, ServeRun
  <2> QED BY <2>1 DEF ServeHistory
<1> DEFINE S == {n \in Nat : n <= Len(l) => Served(f[n], n, c, l, lat, inval)}
<1>3. 0 \in S
  <2>1. Served(fl, 0, c, l, lat, inval)
    BY ServedNone
  <2> QED BY <1>2, <2>1
<1>4. ASSUME NEW n \in Nat, n \in S PROVE n + 1 \in S
  <2> SUFFICES ASSUME n + 1 <= Len(l) PROVE Served(f[n + 1], n + 1, c, l, lat, inval)
    OBVIOUS
  <2>1. n + 1 - 1 = n /\ n + 1 \in 1 .. Len(l) /\ n <= Len(l)
    BY <1>1
  <2>2. Served(f[n], n, c, l, lat, inval)
    BY <1>4, <2>1
  <2>3. f[n + 1] = ServeTarget(f[n], l[n + 1], resp, inval)
    BY <1>2, <2>1
  <2> QED BY <1>1, <2>1, <2>2, <2>3, ServeStep
<1> HIDE DEF S, fl
<1>5. Nat \subseteq S
  BY <1>3, <1>4, Induction
<1>6. Served(f[Len(l)], Len(l), c, l, lat, inval)
  BY <1>1, <1>5 DEF S
<1> QED BY <1>2, <1>6 DEF fl

-----------------------------------------------------------------------------
(* The fill of a cache.  An answer a from port o, 0 the memory, that is on *)
(* its way to the cache c while lat stores have been performed:            *)
AnswerOK(o, a, c, lat) ==
    /\ Busy(c) /\ (a.memInhibit <=> o # 0)
    /\ Claiming(c) => /\ ~a.shared
                      /\ a.cmd = IF isValid(c) THEN "UpgradeResp" ELSE "ReadExResp"
                      /\ lat = IF isValid(c) THEN c.data ELSE a.data
    /\ Reading(c) =>
         /\ a.cmd = "ReadResp" \/ (a.cmd = "ReadRespWithInvalidate" /\ Doomed(c))
         /\ o # 0 => a.shared
         /\ a.data <= lat
         /\ Doomed(c) => \A k \in DOMAIN c.mshr.targets.list :
               IsLoad(c.mshr.targets.list[k]) => c.mshr.targets.list[k].readyTime <= a.data
         /\ ~Doomed(c) => a.data = lat

(* No load was issued after the stores performed so far.                   *)
ReadyOK(c, lat) ==
    /\ \A k \in DOMAIN c.mshr.targets.list : c.mshr.targets.list[k].readyTime <= lat
    /\ \A k \in DOMAIN c.mshr.deferredTargets.list :
          c.mshr.deferredTargets.list[k].readyTime <= lat

(* The snoops saved by a claiming cache are of different caches.           *)
SavedOK(m) ==
    /\ \A k \in DOMAIN m.targets.list : IsSnoop(m.targets.list[k]) =>
          /\ m.targets.list[k].order \in Caches
          /\ IsClaim(m.targets.list[k]) => m.targets.list[k].cmd = "ReadExReq"
    /\ \A j, k \in DOMAIN m.targets.list :
          /\ IsSnoop(m.targets.list[j]) /\ IsSnoop(m.targets.list[k])
          /\ m.targets.list[j].order = m.targets.list[k].order
          => j = k

FillStart(c, o, a, lat) ==
    /\ c \in CacheRecords /\ CacheOK(c) /\ a \in Responses /\ lat \in Nat
    /\ AnswerOK(o, a, c, lat) /\ ReadyOK(c, lat)
    /\ Claiming(c) => SavedOK(c.mshr)

(* The register m that the fill serves, and the list l of its targets.     *)
FillRegOK(m, l, c, a, lat) ==
    /\ l \in Seq(Targets) /\ l # <<>>
    /\ m.postInvalidate = c.mshr.postInvalidate
    /\ m.postDowngrade = c.mshr.postDowngrade
    /\ FillTakesDeferred(c.mshr, a.shared) =>
         /\ Reading(c) /\ ~Doomed(c) /\ ~Lowered(c) /\ ~a.shared
         /\ HasStore(l) /\ m.deferredTargets.list = <<>>
         /\ \A k \in DOMAIN l : IsLoad(l[k]) \/ IsStore(l[k])
         /\ \A k \in DOMAIN l : l[k].readyTime <= lat
    /\ ~FillTakesDeferred(c.mshr, a.shared) => m = c.mshr
    /\ m.deferredTargets.list # <<>> /\ ~Doomed(c) =>
         m.deferredTargets.needsExclusive /\ (Lowered(c) \/ a.shared)

LEMMA FillReg ==
    ASSUME NEW c, NEW o, NEW a, NEW lat, FillStart(c, o, a, lat),
           NEW m, m = MSHR_handleFill(c.mshr, a.shared), NEW l, l = m.targets.list
    PROVE  FillRegOK(m, l, c, a, lat)
<1> DEFINE n == c.mshr
<1>1. /\ n \in Regs /\ RegOK(n) /\ Busy(c) /\ n.inService /\ n.targets.list # <<>>
      /\ n.targets.list \in Seq(Targets) /\ n.deferredTargets.list \in Seq(Targets)
      /\ n.targets.needsExclusive \in BOOLEAN
  <2>1. c \in CacheRecords /\ CacheOK(c) /\ Busy(c)
    BY DEF FillStart, AnswerOK
  <2>2. n \in Regs /\ RegOK(n) /\ n.inService
    BY <2>1, CacheFields DEF CacheOK, Busy
  <2>3. n # FreeMSHR
    BY <2>2, FreeReg
  <2> QED BY <2>1, <2>2, <2>3, RegFields DEF RegOK
<1>2. FlagsOK(n) /\ TargetsOK(n) /\ ReadyOK(c, lat)
  BY <1>1 DEF RegOK, FillStart
<1>3. CASE ~FillTakesDeferred(n, a.shared)
  <2>1. m = n
    BY <1>3 DEF MSHR_handleFill
  <2>2. n.deferredTargets.list # <<>> /\ ~Doomed(c) =>
          n.deferredTargets.needsExclusive /\ (Lowered(c) \/ a.shared)
    BY <1>1, <1>2, <1>3 DEF FlagsOK, FillTakesDeferred, Doomed, Lowered
  <2> QED BY <1>1, <1>3, <2>1, <2>2 DEF FillRegOK
<1>4. CASE FillTakesDeferred(n, a.shared)
  <2>1. /\ ~Doomed(c) /\ ~Lowered(c) /\ ~a.shared /\ n.deferredTargets.needsExclusive
    BY <1>4 DEF FillTakesDeferred, Doomed, Lowered
  <2>2. HasStore(n.deferredTargets.list)
    BY <1>2, <2>1 DEF FlagsOK
  <2>3. n.deferredTargets.list # <<>>
    BY <2>2 DEF HasStore
  <2>4. ~n.pendingDirty /\ Reading(c)
    BY <1>1, <1>2, <2>1, <2>3 DEF FlagsOK, Reading, Busy, Doomed, Lowered
  <2> DEFINE u == n.targets.list
             v == n.deferredTargets.list
             w == u \o v
  <2>5. /\ l = w /\ m.deferredTargets.list = <<>>
        /\ m.postInvalidate = n.postInvalidate /\ m.postDowngrade = n.postDowngrade
    <3>1. /\ n \in Registers({"none", "block"}) /\ w \in Seq(Targets)
          /\ n.targets \in TargetLists
          /\ m = [n EXCEPT !.targets.list = w, !.targets.needsExclusive = TRUE,
                           !.deferredTargets = EmptyTargets]
      BY <1>1, <1>4, RegFields DEF MSHR_handleFill, Regs
    <3>2. EmptyTargets.list = <<>>
      BY DEF EmptyTargets
    <3> HIDE DEF w, n
    <3>3. /\ m.targets.list = w /\ m.deferredTargets = EmptyTargets
          /\ m.postInvalidate = n.postInvalidate /\ m.postDowngrade = n.postDowngrade
      BY ONLY <3>1, FreeFacts DEF Registers, TargetLists
    <3> QED BY <3>2, <3>3 DEF n
  <2>6. \A k \in DOMAIN u : (IsLoad(u[k]) \/ IsStore(u[k])) /\ u[k].readyTime <= lat
    BY <1>1, <1>2, <2>1, <2>4 DEF TargetsOK, Doomed, ReadyOK
  <2>7. \A k \in DOMAIN v : (IsLoad(v[k]) \/ IsStore(v[k])) /\ v[k].readyTime <= lat
    BY <1>2 DEF TargetsOK, ReadyOK
  <2>8. u \in Seq(Targets) /\ v \in Seq(Targets) /\ u # <<>>
    BY <1>1
  <2>9. HasStore(v)
    BY <2>2
  <2> HIDE DEF u, v
  <2>10. /\ w \in Seq(Targets) /\ w # <<>> /\ Len(u) \in Nat /\ Len(v) \in Nat
         /\ DOMAIN u = 1 .. Len(u) /\ DOMAIN v = 1 .. Len(v) /\ DOMAIN w = 1 .. Len(u) + Len(v)
         /\ \A k \in 1 .. Len(u) + Len(v) : w[k] = IF k <= Len(u) THEN u[k] ELSE v[k - Len(u)]
    BY <2>8
  <2> HIDE DEF w
  <2>11. \A k \in DOMAIN w : (IsLoad(w[k]) \/ IsStore(w[k])) /\ w[k].readyTime <= lat
    <3> SUFFICES ASSUME NEW k \in DOMAIN w
                 PROVE  (IsLoad(w[k]) \/ IsStore(w[k])) /\ w[k].readyTime <= lat
      OBVIOUS
    <3>1. CASE k <= Len(u)
      BY <2>6, <2>10, <3>1
    <3>2. CASE ~(k <= Len(u))
      <4>1. k - Len(u) \in DOMAIN v /\ w[k] = v[k - Len(u)]
        BY <2>10, <3>2
      <4> QED BY <2>7, <4>1
    <3> QED BY <3>1, <3>2
  <2>12. HasStore(w)
    <3>1. PICK k \in DOMAIN v : IsStore(v[k])
      BY <2>9 DEF HasStore
    <3>2. k + Len(u) \in DOMAIN w /\ w[k + Len(u)] = v[k]
      BY <2>10
    <3> QED BY <3>1, <3>2 DEF HasStore
  <2> QED BY <1>4, <2>1, <2>4, <2>5, <2>10, <2>11, <2>12 DEF FillRegOK
<1> QED BY <1>3, <1>4

(* The block once the answer has been written to it.                       *)
LEMMA FillBits ==
    ASSUME NEW c, NEW o, NEW a, NEW lat, FillStart(c, o, a, lat),
           NEW fc, fc = handleFill(c, a)
    PROVE  /\ fc \in CacheRecords /\ isValid(fc) /\ isReadable(fc)
           /\ fc.snoopRespQueue = <<>> /\ ~fc.writeback.pending
           /\ isWritable(fc) <=> ~a.shared
           /\ isDirty(fc) <=> isDirty(c) \/ (~a.shared /\ a.memInhibit)
           /\ Claiming(c) => fc.data = lat /\ ~a.shared
           /\ Reading(c) => fc.data = a.data /\ ~isDirty(fc)
           /\ Reading(c) /\ ~Doomed(c) => fc.data = lat
           /\ isValid(c) \/ HasData(a)
           /\ a.cmd = "ReadRespWithInvalidate" => Doomed(c)
<1>1. /\ c \in CacheRecords /\ CacheOK(c) /\ a \in Responses /\ lat \in Nat
      /\ AnswerOK(o, a, c, lat) /\ Busy(c)
  BY DEF FillStart, AnswerOK
<1>2. /\ c.status \in SUBSET Bits /\ c.data \in Nat /\ a.data \in Nat
      /\ c.snoopRespQueue = <<>> /\ ~c.writeback.pending /\ ~isWritable(c)
      /\ Reading(c) => ~isValid(c) /\ ~isDirty(c)
      /\ Reading(c) <=> ~Claiming(c)
  BY <1>1, CacheFields, CacheKinds DEF Responses
<1> DEFINE st == c.status \cup {"Valid", "Readable"}
                   \cup (IF a.shared THEN {} ELSE {"Writable"})
                   \cup (IF ~a.shared /\ a.memInhibit THEN {"Dirty"} ELSE {})
           da == IF HasData(a) THEN a.data ELSE c.data
<1>3. fc = [c EXCEPT !.status = st, !.data = da]
  BY DEF handleFill
<1>4. st \in SUBSET Bits /\ da \in Nat
  BY <1>2 DEF Bits
<1> HIDE DEF st, da
<1>5. /\ fc \in CacheRecords /\ fc.status = st /\ fc.data = da
      /\ fc.snoopRespQueue = c.snoopRespQueue /\ fc.writeback = c.writeback
  BY ONLY <1>1, <1>3, <1>4 DEF CacheRecords
<1>6. /\ isValid(fc) /\ isReadable(fc)
      /\ isWritable(fc) <=> ~a.shared
      /\ isDirty(fc) <=> isDirty(c) \/ (~a.shared /\ a.memInhibit)
  BY <1>2, <1>5 DEF st, isValid, isReadable, isWritable, isDirty
<1>7. Claiming(c) => fc.data = lat /\ ~a.shared
  BY <1>1, <1>5 DEF AnswerOK, da, HasData
<1>8. Reading(c) => fc.data = a.data /\ ~isDirty(fc)
  BY <1>1, <1>2, <1>5, <1>6 DEF AnswerOK, da, HasData
<1>9. Reading(c) /\ ~Doomed(c) => fc.data = lat
  BY <1>1, <1>8 DEF AnswerOK
<1>10. isValid(c) \/ HasData(a)
  BY <1>1, <1>2 DEF AnswerOK, HasData
<1>11. a.cmd = "ReadRespWithInvalidate" => Doomed(c)
  BY <1>1, <1>2 DEF AnswerOK
<1> QED BY <1>2, <1>5, <1>6, <1>7, <1>8, <1>9, <1>10, <1>11

LEMMA FillServes ==
    ASSUME NEW c, NEW o, NEW a, NEW lat, FillStart(c, o, a, lat),
           NEW fc, fc = handleFill(c, a),
           NEW m, m = MSHR_handleFill(c.mshr, a.shared), NEW l, l = m.targets.list
    PROVE  /\ ServeStart(fc, l, lat, a, m.postInvalidate)
           /\ IsClaim(l[Len(l)]) <=> Doomed(c)
           /\ HasStore(l) <=> Claiming(c) \/ FillTakesDeferred(c.mshr, a.shared)
<1>1. /\ c \in CacheRecords /\ CacheOK(c) /\ a \in Responses /\ lat \in Nat
      /\ AnswerOK(o, a, c, lat) /\ Busy(c) /\ ReadyOK(c, lat)
  BY DEF FillStart, AnswerOK
<1>2. /\ c.mshr \in Regs /\ RegOK(c.mshr) /\ c.mshr.inService
      /\ TargetsOK(c.mshr) /\ FlagsOK(c.mshr)
      /\ Reading(c) <=> ~Claiming(c)
  BY <1>1, CacheFields DEF CacheOK, Busy, RegOK, Reading, Claiming
<1>3. /\ l \in Seq(Targets) /\ l # <<>>
      /\ m.postInvalidate = c.mshr.postInvalidate
      /\ FillTakesDeferred(c.mshr, a.shared) =>
           /\ Reading(c) /\ ~Doomed(c) /\ ~Lowered(c) /\ ~a.shared
           /\ HasStore(l) /\ m.deferredTargets.list = <<>>
           /\ \A k \in DOMAIN l : IsLoad(l[k]) \/ IsStore(l[k])
           /\ \A k \in DOMAIN l : l[k].readyTime <= lat
      /\ ~FillTakesDeferred(c.mshr, a.shared) => m = c.mshr
  <2>1. FillRegOK(m, l, c, a, lat)
    BY FillReg
  <2> QED BY <2>1 DEF FillRegOK
<1>4. /\ fc \in CacheRecords /\ isValid(fc) /\ isReadable(fc)
      /\ fc.snoopRespQueue = <<>> /\ ~fc.writeback.pending
      /\ isWritable(fc) <=> ~a.shared
      /\ isDirty(fc) <=> isDirty(c) \/ (~a.shared /\ a.memInhibit)
      /\ Claiming(c) => fc.data = lat /\ ~a.shared
      /\ Reading(c) => fc.data = a.data /\ ~isDirty(fc)
      /\ Reading(c) /\ ~Doomed(c) => fc.data = lat
      /\ a.cmd = "ReadRespWithInvalidate" => Doomed(c)
  BY FillBits
<1>5. Len(l) \in DOMAIN l /\ a.cmd = "ReadRespWithInvalidate" => m.postInvalidate
  BY <1>3, <1>4 DEF Doomed
<1>6. Len(l) \in DOMAIN l
  BY <1>3
<1>7. CASE FillTakesDeferred(c.mshr, a.shared)
  <2>1. \A k \in DOMAIN l : ~IsSnoop(l[k]) /\ ~IsRead(l[k]) /\ ~IsClaim(l[k])
    BY <1>3, <1>7, TargetKinds
  <2>2. ServeStart(fc, l, lat, a, m.postInvalidate)
    BY <1>1, <1>3, <1>4, <1>5, <1>6, <1>7, <2>1 DEF ServeStart
  <2> QED BY <1>3, <1>6, <1>7, <2>1, <2>2
<1>8. CASE ~FillTakesDeferred(c.mshr, a.shared)
  <2>1. l = c.mshr.targets.list
    BY <1>3, <1>8
  <2>2. \A k \in DOMAIN l : \/ IsLoad(l[k]) \/ IsStore(l[k])
                            \/ IsRead(l[k]) /\ Claiming(c)
                            \/ IsClaim(l[k]) /\ k = Len(l) /\ Doomed(c)
    BY <1>2, <2>1 DEF TargetsOK, Claiming, Busy, Doomed
  <2>3. \A j, k \in DOMAIN l : j < k /\ IsRead(l[j]) => ~IsStore(l[k])
    BY <1>2, <2>1 DEF TargetsOK
  <2>4. HasStore(l) <=> Claiming(c)
    BY <1>2, <2>1 DEF FlagsOK, Claiming, Busy
  <2>5. IsClaim(l[Len(l)]) <=> Doomed(c)
    BY <1>2, <1>6, <2>1, <2>2, TargetKinds DEF FlagsOK, Doomed
  <2>6. isDirty(fc) => HasStore(l)
    BY <1>2, <1>4, <2>4
  <2>7. \A k \in DOMAIN l : IsRead(l[k]) => HasStore(l)
    BY <2>2, <2>4, TargetKinds
  <2>8. \A k \in DOMAIN l : IsLoad(l[k]) => l[k].readyTime <= fc.data
    <3>1. CASE Claiming(c) \/ ~Doomed(c)
      <4>1. fc.data = lat
        BY <1>2, <1>4, <3>1
      <4> QED BY <1>1, <2>1, <4>1 DEF ReadyOK
    <3>2. CASE Reading(c) /\ Doomed(c)
      BY <1>1, <1>4, <2>1, <3>2 DEF AnswerOK
    <3> QED BY <1>2, <3>1, <3>2
  <2>9. HasStore(l) => SavedOK(c.mshr)
    BY <2>4 DEF FillStart
  <2>10. ServeStart(fc, l, lat, a, m.postInvalidate)
    <3>1. \A k \in DOMAIN l : \/ IsLoad(l[k]) \/ IsStore(l[k]) \/ IsRead(l[k])
                              \/ IsClaim(l[k]) /\ k = Len(l)
      BY <2>2
    <3>2. HasStore(l) => isWritable(fc) /\ fc.data = lat
      BY <1>4, <2>4
    <3>3. /\ HasStore(l) => \A k \in DOMAIN l : IsSnoop(l[k]) =>
                l[k].order \in Caches /\ (IsClaim(l[k]) => l[k].cmd = "ReadExReq")
          /\ HasStore(l) => \A j, k \in DOMAIN l :
                IsSnoop(l[j]) /\ IsSnoop(l[k]) /\ l[j].order = l[k].order => j = k
      BY <2>1, <2>9 DEF SavedOK
    <3> QED BY <1>1, <1>3, <1>4, <1>5, <1>6, <2>3, <2>6, <2>7, <2>8, <3>1, <3>2, <3>3 DEF ServeStart
  <2> QED BY <1>8, <2>4, <2>5, <2>10
<1> QED BY <1>7, <1>8

(* The fill g once its targets are served, and the cache that it leaves.   *)
Fill(c, a, lat, st) ==
    LET m == MSHR_handleFill(c.mshr, a.shared)
    IN  ServeTargets([cache |-> handleFill(c, a), latest |-> lat, stale |-> st, ok |-> TRUE],
                     m.targets.list, a, m.postInvalidate)
FillSettled(g, c, a) == Settle(g.cache, MSHR_handleFill(c.mshr, a.shared), a)
FillCache(g, c, a, temp) ==
    LET settled == FillSettled(g, c, a)
        dirty == temp /\ isDirty(settled)
    IN  IF temp THEN [invalidate(settled) EXCEPT !.writeback =
                          IF dirty THEN Writeback(settled) ELSE @]
        ELSE settled

LEMMA FillServed ==
    ASSUME NEW c, NEW o, NEW a, NEW lat, FillStart(c, o, a, lat), NEW st \in BOOLEAN, ~st,
           NEW g, g = Fill(c, a, lat, st), NEW m, m = MSHR_handleFill(c.mshr, a.shared)
    PROVE  /\ g \in Fills /\ ~g.stale /\ g.ok /\ ~g.cache.writeback.pending
           /\ g.latest \in Nat /\ g.latest >= lat
           /\ g.latest > lat <=> Claiming(c) \/ FillTakesDeferred(c.mshr, a.shared)
           /\ Doomed(c) => g.cache.status = {}
           /\ ~Doomed(c) => /\ g.cache.data = g.latest
                            /\ isValid(g.cache) /\ isReadable(g.cache)
                            /\ isWritable(g.cache) => ~a.shared /\ g.cache.snoopRespQueue = <<>>
                            /\ isDirty(g.cache) <=> g.latest > lat
           /\ Claiming(c) => Answered(g.cache.snoopRespQueue, c.mshr.targets.list,
                                Len(c.mshr.targets.list), g.latest, c.mshr.postInvalidate)
           /\ Reading(c) => g.cache.snoopRespQueue = <<>>
<1> DEFINE fc == handleFill(c, a)
           l == m.targets.list
           n == Len(l)
           inval == m.postInvalidate
           q == g.cache.snoopRespQueue
<1>1. FillRegOK(m, l, c, a, lat)
  <2>1. l = m.targets.list
    OBVIOUS
  <2> HIDE DEF l
  <2> QED BY <2>1, FillReg
<1>2. /\ ServeStart(fc, l, lat, a, inval)
      /\ IsClaim(l[n]) <=> Doomed(c)
      /\ HasStore(l) <=> Claiming(c) \/ FillTakesDeferred(c.mshr, a.shared)
  <2>1. fc = handleFill(c, a) /\ l = m.targets.list
    OBVIOUS
  <2> HIDE DEF fc, l
  <2>2. /\ ServeStart(fc, l, lat, a, m.postInvalidate)
        /\ IsClaim(l[Len(l)]) <=> Doomed(c)
        /\ HasStore(l) <=> Claiming(c) \/ FillTakesDeferred(c.mshr, a.shared)
    BY <2>1, FillServes
  <2> QED BY <2>2
<1>3. /\ ~fc.writeback.pending
      /\ isWritable(fc) <=> ~a.shared
      /\ isDirty(fc) => Claiming(c)
      /\ Reading(c) /\ ~Doomed(c) => fc.data = lat
      /\ Reading(c) <=> ~Claiming(c)
  <2>1. fc = handleFill(c, a)
    OBVIOUS
  <2>2. Reading(c) <=> ~Claiming(c)
    BY DEF FillStart, AnswerOK, Reading, Claiming
  <2> HIDE DEF fc
  <2>3. /\ ~fc.writeback.pending
        /\ isWritable(fc) <=> ~a.shared
        /\ Reading(c) => fc.data = a.data /\ ~isDirty(fc)
        /\ Reading(c) /\ ~Doomed(c) => fc.data = lat
    BY <2>1, FillBits
  <2> QED BY <2>2, <2>3
<1>5. Served(g, n, fc, l, lat, inval)
  <2> HIDE DEF fc, l, inval
  <2>1. Served(ServeTargets([cache |-> fc, latest |-> lat, stale |-> st, ok |-> TRUE],
                            l, a, inval), Len(l), fc, l, lat, inval)
    BY <1>2, ServeAll
  <2> QED BY <2>1 DEF Fill, fc, l, inval
<1>6. /\ l \in Seq(Targets) /\ l # <<>> /\ n \in Nat /\ n # 0 /\ DOMAIN l = 1 .. n
      /\ inval = c.mshr.postInvalidate
  <2>1. l \in Seq(Targets) /\ l # <<>> /\ inval = c.mshr.postInvalidate
    BY <1>1 DEF FillRegOK
  <2> HIDE DEF l
  <2> QED BY <2>1
<1> HIDE DEF fc, l, n, inval
<1>7. (\E k \in 1 .. n : IsStore(l[k])) <=> HasStore(l)
  BY <1>6 DEF HasStore
<1>8. /\ g \in Fills /\ ~g.stale /\ g.ok /\ ~g.cache.writeback.pending
      /\ g.latest >= lat /\ g.latest \in Nat /\ lat \in Nat
      /\ g.latest > lat <=> HasStore(l)
  BY <1>3, <1>5, <1>7 DEF Served, Fills, FillStart
<1>9. Doomed(c) => g.cache.status = {}
  BY <1>2, <1>5, <1>6 DEF Served
<1>10. ~Doomed(c) => /\ g.cache.data = IF HasStore(l) THEN g.latest ELSE fc.data
                     /\ isValid(g.cache) /\ isReadable(g.cache)
                     /\ isWritable(g.cache) <=> isWritable(fc) /\ \A k \in 1 .. n : ~IsRead(l[k])
                     /\ isDirty(g.cache) <=> isDirty(fc) \/ HasStore(l)
  BY <1>2, <1>5, <1>6, <1>7 DEF Served
<1>11. ~Doomed(c) => g.cache.data = g.latest
  <2> SUFFICES ASSUME ~Doomed(c) PROVE g.cache.data = g.latest
    OBVIOUS
  <2>1. CASE HasStore(l)
    BY <1>10, <2>1
  <2>2. CASE ~HasStore(l)
    <3>1. g.cache.data = lat /\ ~(g.latest > lat)
      BY <1>2, <1>3, <1>8, <1>10, <2>2
    <3> QED BY <1>8, <3>1
  <2> QED BY <2>1, <2>2
<1>12. HasStore(l) => Answered(q, l, n, g.latest, inval)
  BY <1>5 DEF Served
<1>13. ~HasStore(l) => q = <<>>
  BY <1>5 DEF Served
<1>14. (\A k \in 1 .. n : ~IsSnoop(l[k])) => q = <<>>
  <2> SUFFICES ASSUME \A k \in 1 .. n : ~IsSnoop(l[k]), HasStore(l) PROVE q = <<>>
    BY <1>13
  <2>1. q \in Seq(Responses)
    BY <1>8, CacheFields DEF Fills
  <2>2. \A i \in DOMAIN q : FALSE
    BY <1>12 DEF Answered
  <2> HIDE DEF q
  <2>3. DOMAIN q = 1 .. Len(q) /\ Len(q) \in Nat
    BY <2>1
  <2>4. 1 \notin 1 .. Len(q)
    BY ONLY <2>2, <2>3
  <2>5. Len(q) = 0
    BY ONLY <2>3, <2>4
  <2> QED BY ONLY <2>1, <2>5
<1>15. ~Doomed(c) /\ isWritable(g.cache) => ~a.shared /\ q = <<>>
  <2> SUFFICES ASSUME ~Doomed(c), isWritable(g.cache) PROVE ~a.shared /\ q = <<>>
    OBVIOUS
  <2>1. ~a.shared /\ \A k \in 1 .. n : ~IsRead(l[k])
    BY <1>3, <1>10
  <2>2. \A k \in 1 .. n : ~IsClaim(l[k])
    <3> SUFFICES ASSUME NEW k \in 1 .. n, IsClaim(l[k]) PROVE FALSE
      OBVIOUS
    <3>1. k = Len(l)
      BY <1>2, <1>6, TargetKinds DEF ServeStart
    <3> QED BY <1>2, <3>1 DEF n
  <2> QED BY <1>14, <2>1, <2>2, TargetKinds
<1>16. Reading(c) => q = <<>>
  <2> SUFFICES ASSUME Reading(c), HasStore(l) PROVE q = <<>>
    BY <1>13
  <2>1. FillTakesDeferred(c.mshr, a.shared)
    BY <1>2, <1>3
  <2>2. \A k \in 1 .. n : ~IsSnoop(l[k])
    BY <1>1, <1>6, <2>1, TargetKinds DEF FillRegOK
  <2> QED BY <1>14, <2>2
<1>17. Claiming(c) => Answered(q, c.mshr.targets.list, Len(c.mshr.targets.list),
                               g.latest, c.mshr.postInvalidate)
  <2> SUFFICES ASSUME Claiming(c)
               PROVE  Answered(q, c.mshr.targets.list, Len(c.mshr.targets.list),
                               g.latest, c.mshr.postInvalidate)
    OBVIOUS
  <2>1. m = c.mshr
    BY <1>1, <1>3 DEF FillRegOK
  <2>2. l = c.mshr.targets.list /\ n = Len(c.mshr.targets.list)
    BY <2>1 DEF l, n
  <2> QED BY <1>2, <1>6, <1>12, <2>2
<1> QED BY <1>2, <1>3, <1>8, <1>9, <1>10, <1>11, <1>15, <1>16, <1>17

(* What the fill leaves: lat2 stores have been performed.                  *)
FillOK(c2, c, a, lat, lat2) ==
    /\ c2 \in CacheRecords /\ CacheOK(c2) /\ ~Busy(c2) /\ lat2 \in Nat /\ lat2 >= lat
    /\ lat2 > lat <=> Claiming(c) \/ FillTakesDeferred(c.mshr, a.shared)
    /\ Doomed(c) => c2.status = {} /\ ~c2.writeback.pending
    /\ isValid(c2) => c2.data = lat2
    /\ c2.writeback.pending => c2.writeback.data = lat2
    /\ Owns(c2) <=> ~Doomed(c) /\ lat2 > lat
    /\ isWritable(c2) => ~Lowered(c) /\ ~a.shared
    /\ ReadyOK(c2, lat2)
    /\ Claiming(c) => Answered(c2.snoopRespQueue, c.mshr.targets.list,
                               Len(c.mshr.targets.list), lat2, c.mshr.postInvalidate)
    /\ Reading(c) => c2.snoopRespQueue = <<>>

(* The register, for the next request.                                     *)
NextReg(m2, m, lat2) ==
    /\ m2 \in Regs /\ RegOK(m2) /\ ~m2.inService
    /\ m2 = FreeMSHR <=> m.deferredTargets.list = <<>>
    /\ m.deferredTargets.list # <<>> =>
         m2.targets.needsExclusive = m.deferredTargets.needsExclusive
    /\ \A k \in DOMAIN m2.targets.list : m2.targets.list[k].readyTime <= lat2
    /\ DOMAIN m2.deferredTargets.list = {}

LEMMA FillResumes ==
    ASSUME NEW c, NEW o, NEW a, NEW lat, FillStart(c, o, a, lat),
           NEW lat2 \in Nat, lat2 >= lat,
           NEW m, m = MSHR_handleFill(c.mshr, a.shared), NEW m2, m2 = Resumes(m)
    PROVE  NextReg(m2, m, lat2)
<1>1. FillRegOK(m, m.targets.list, c, a, lat)
  <2> DEFINE l == m.targets.list
  <2>1. l = m.targets.list
    OBVIOUS
  <2> HIDE DEF l
  <2>2. FillRegOK(m, l, c, a, lat)
    BY <2>1, FillReg
  <2> QED BY <2>2 DEF l
<1>2. /\ c.mshr \in Regs /\ RegOK(c.mshr) /\ c.mshr.inService /\ lat \in Nat
      /\ \A k \in DOMAIN c.mshr.deferredTargets.list :
            c.mshr.deferredTargets.list[k].readyTime <= lat
  BY CacheFields DEF FillStart, CacheOK, AnswerOK, Busy, ReadyOK
<1>3. CASE FillTakesDeferred(c.mshr, a.shared)
  <2>1. m.deferredTargets.list = <<>>
    BY <1>1, <1>3 DEF FillRegOK
  <2>2. m2 = FreeMSHR
    BY <2>1 DEF Resumes
  <2> QED BY <2>1, <2>2, FreeReg DEF NextReg
<1>4. CASE ~FillTakesDeferred(c.mshr, a.shared)
  <2>1. m = c.mshr
    BY <1>1, <1>4 DEF FillRegOK
  <2>2. m \in Regs /\ RegOK(m) /\ m.inService
    BY <1>2, <2>1
  <2>3. /\ m2 \in Regs /\ RegOK(m2) /\ ~m2.inService
        /\ m2 = FreeMSHR <=> m.deferredTargets.list = <<>>
        /\ m2 # FreeMSHR => m2.targets = m.deferredTargets
        /\ m2.deferredTargets.list = <<>>
        /\ m2 = FreeMSHR => m2.targets.list = <<>>
    BY ONLY <2>2, m2 = Resumes(m), RegResumes
  <2>4. ASSUME NEW k \in DOMAIN m2.targets.list PROVE m2.targets.list[k].readyTime <= lat2
    <3>1. m2 # FreeMSHR
      BY <2>3, <2>4
    <3>2. /\ k \in DOMAIN m.deferredTargets.list
          /\ m2.targets.list[k] = m.deferredTargets.list[k]
      BY <2>3, <2>4, <3>1
    <3> DEFINE d == m.deferredTargets.list
    <3>3. d \in Seq(Targets) /\ k \in DOMAIN d
      BY <2>2, <3>2, RegFields
    <3> HIDE DEF d
    <3>4. d[k] \in Targets
      BY ONLY <3>3
    <3>5. m2.targets.list[k].readyTime \in Nat /\ m2.targets.list[k].readyTime <= lat
      BY <1>2, <2>1, <3>2, <3>4 DEF d, Targets
    <3> QED BY ONLY <1>2, <3>5, lat2 \in Nat, lat2 >= lat
  <2> QED BY <2>3, <2>4 DEF NextReg
<1> QED BY <1>3, <1>4

LEMMA FillDone ==
    ASSUME NEW c, NEW o, NEW a, NEW lat, FillStart(c, o, a, lat), NEW st \in BOOLEAN, ~st,
           NEW g, g = Fill(c, a, lat, st), NEW temp \in BOOLEAN,
           NEW c2, c2 = FillCache(g, c, a, temp)
    PROVE  /\ FillOK(c2, c, a, lat, g.latest) /\ ~g.stale /\ g.ok
           /\ ~(FillTakesDeferred(c.mshr, a.shared) /\ c.mshr.targets.needsExclusive)
           /\ ~(~isValid(c) /\ ~HasData(a))
           /\ ~(isValid(g.cache) /\ FillSettled(g, c, a).status = {})
           /\ ~c.writeback.pending
<1> DEFINE m == MSHR_handleFill(c.mshr, a.shared)
           m2 == Resumes(m)
           e == g.cache
           lat2 == g.latest
           kept == IF a.cmd = "ReadRespWithInvalidate" \/ m.postInvalidate THEN {}
                   ELSE IF m.postDowngrade THEN e.status \ {"Writable"} ELSE e.status
           status == IF m.deferredTargets.list # <<>> THEN kept \ {"Readable"} ELSE kept
           da == IF status = {} THEN 0 ELSE e.data
           s == FillSettled(g, c, a)
<1>1. /\ g \in Fills /\ ~g.stale /\ g.ok /\ ~e.writeback.pending
      /\ lat2 \in Nat /\ lat2 >= lat
      /\ lat2 > lat <=> Claiming(c) \/ FillTakesDeferred(c.mshr, a.shared)
      /\ Doomed(c) => e.status = {}
      /\ ~Doomed(c) => /\ e.data = lat2
                       /\ isValid(e) /\ isReadable(e)
                       /\ isWritable(e) => ~a.shared /\ e.snoopRespQueue = <<>>
                       /\ isDirty(e) <=> lat2 > lat
      /\ Claiming(c) => Answered(e.snoopRespQueue, c.mshr.targets.list,
                                 Len(c.mshr.targets.list), lat2, c.mshr.postInvalidate)
      /\ Reading(c) => e.snoopRespQueue = <<>>
  <2>1. m = MSHR_handleFill(c.mshr, a.shared)
    OBVIOUS
  <2> HIDE DEF m
  <2> QED BY <2>1, FillServed
<1>2. e \in CacheRecords /\ e.status \in SUBSET Bits /\ e.data \in Nat
  BY <1>1, CacheFields DEF Fills
<1>3. /\ m2 \in Regs /\ RegOK(m2) /\ ~m2.inService
      /\ m2 = FreeMSHR <=> m.deferredTargets.list = <<>>
      /\ m.deferredTargets.list # <<>> =>
           m2.targets.needsExclusive = m.deferredTargets.needsExclusive
      /\ \A k \in DOMAIN m2.targets.list : m2.targets.list[k].readyTime <= lat2
      /\ DOMAIN m2.deferredTargets.list = {}
  <2>1. m = MSHR_handleFill(c.mshr, a.shared) /\ m2 = Resumes(m) /\ lat2 \in Nat /\ lat2 >= lat
    BY <1>1
  <2> HIDE DEF m, m2, lat2
  <2>2. NextReg(m2, m, lat2)
    BY ONLY <2>1, FillStart(c, o, a, lat), FillResumes
  <2> QED BY <2>2 DEF NextReg
<1>4. FillRegOK(m, m.targets.list, c, a, lat)
  <2> DEFINE l == m.targets.list
  <2>1. l = m.targets.list /\ m = MSHR_handleFill(c.mshr, a.shared)
    OBVIOUS
  <2> HIDE DEF l, m
  <2>2. FillRegOK(m, l, c, a, lat)
    BY <2>1, FillReg
  <2> QED BY <2>2 DEF l
<1>5. /\ m.postInvalidate <=> Doomed(c)
      /\ m.postDowngrade <=> Lowered(c)
      /\ m.deferredTargets.list # <<>> /\ ~Doomed(c) =>
           m.deferredTargets.needsExclusive /\ (Lowered(c) \/ a.shared)
      /\ FillTakesDeferred(c.mshr, a.shared) => Reading(c) /\ ~Doomed(c)
  BY <1>4 DEF FillRegOK, Doomed, Lowered
<1>6. /\ isValid(c) \/ HasData(a)
      /\ a.cmd = "ReadRespWithInvalidate" => Doomed(c)
      /\ ~c.writeback.pending
      /\ Reading(c) => ~c.mshr.targets.needsExclusive
  <2>1. /\ isValid(c) \/ HasData(a)
        /\ a.cmd = "ReadRespWithInvalidate" => Doomed(c)
    <3> DEFINE fc == handleFill(c, a)
    <3>1. fc = handleFill(c, a)
      OBVIOUS
    <3> HIDE DEF fc
    <3> QED BY <3>1, FillBits
  <2>2. c \in CacheRecords /\ CacheOK(c) /\ Busy(c)
    BY DEF FillStart, AnswerOK
  <2> QED BY <2>1, <2>2, CacheKinds
<1> HIDE DEF m
<1>7. s = [e EXCEPT !.status = status, !.data = da, !.mshr = m2]
  BY DEF FillSettled, Settle, m, Resumes
<1>8. /\ Doomed(c) => status = {}
      /\ ~Doomed(c) => status = (e.status \ (IF Lowered(c) THEN {"Writable"} ELSE {}))
                                 \ (IF m.deferredTargets.list # <<>> THEN {"Readable"} ELSE {})
  BY <1>5, <1>6
<1>9. status \in SUBSET Bits /\ da \in Nat
  BY <1>2
<1> HIDE DEF status, m2, kept
<1>10. Doomed(c) \/ da = e.data
  <2> SUFFICES ASSUME ~Doomed(c) PROVE da = e.data
    OBVIOUS
  <2>1. "Valid" \in status
    BY <1>1, <1>8 DEF isValid
  <2> QED BY <2>1
<1>10a. Doomed(c) => ~isValid(e)
  BY <1>1 DEF isValid
<1> HIDE DEF da, s
<1>11. /\ s \in CacheRecords /\ s.status = status /\ s.data = da /\ s.mshr = m2
       /\ s.writeback = e.writeback /\ s.snoopRespQueue = e.snoopRespQueue
  BY ONLY <1>2, <1>3, <1>7, <1>9 DEF CacheRecords
<1>12. /\ ~Doomed(c) => /\ isValid(s) /\ s.data = lat2
                        /\ isReadable(s) <=> m2 = FreeMSHR
                        /\ isWritable(s) <=> isWritable(e) /\ ~Lowered(c)
                        /\ isDirty(s) <=> lat2 > lat
       /\ Doomed(c) => s.status = {} /\ ~isValid(s) /\ ~isDirty(s) /\ ~isWritable(s)
  <2>1. CASE Doomed(c)
    BY <1>8, <1>11, <2>1 DEF isValid, isDirty, isWritable
  <2>2. CASE ~Doomed(c)
    BY <1>1, <1>3, <1>8, <1>10, <1>11, <2>2 DEF isValid, isReadable, isWritable, isDirty
  <2> QED BY <2>1, <2>2
<1>13. ~(isValid(e) /\ s.status = {})
  BY <1>10a, <1>12 DEF isValid
<1>14. ~(FillTakesDeferred(c.mshr, a.shared) /\ c.mshr.targets.needsExclusive)
  BY <1>5, <1>6
<1>15. ~temp => FillOK(c2, c, a, lat, lat2)
  <2> SUFFICES ASSUME ~temp PROVE FillOK(s, c, a, lat, lat2)
    BY DEF FillCache, s
  <2>1. ~s.writeback.pending /\ ~Busy(s) /\ (HasMSHR(s) <=> m2 # FreeMSHR)
    BY <1>1, <1>3, <1>11 DEF Busy, HasMSHR
  <2>2. Owns(s) <=> ~Doomed(c) /\ lat2 > lat
    BY <1>12, <2>1 DEF Owns
  <2>3. ReadyOK(s, lat2)
    BY <1>3, <1>11 DEF ReadyOK
  <2>4. isWritable(s) => ~Lowered(c) /\ ~a.shared /\ s.snoopRespQueue = <<>>
    BY <1>1, <1>11, <1>12
  <2>5. isValid(s) => s.data = lat2
    BY <1>12
  <2>6. s.status \in IF HasMSHR(s) THEN Pending ELSE Settled
    <3>1. CASE Doomed(c)
      BY <1>12, <3>1 DEF Pending, Settled
    <3>2. CASE ~Doomed(c) /\ HasMSHR(s)
      <4>1. isValid(s) /\ ~isReadable(s) /\ ~isWritable(s) /\ s.status \in SUBSET Bits
        BY <1>1, <1>3, <1>5, <1>9, <1>11, <1>12, <2>1, <3>2
      <4>2. s.status = {"Valid"} \/ s.status = {"Valid", "Dirty"}
        BY <4>1 DEF isValid, isReadable, isWritable, Bits
      <4> QED BY <3>2, <4>2 DEF Pending
    <3>3. CASE ~Doomed(c) /\ ~HasMSHR(s)
      <4>1. isValid(s) /\ isReadable(s) /\ s.status \in SUBSET Bits
        BY <1>3, <1>9, <1>11, <1>12, <2>1, <3>3
      <4>2. \/ s.status = {"Valid", "Readable"} \/ s.status = {"Valid", "Readable", "Writable"}
            \/ s.status = {"Valid", "Readable", "Dirty"}
            \/ s.status = {"Valid", "Readable", "Writable", "Dirty"}
        BY <4>1 DEF isValid, isReadable, Bits
      <4> QED BY <3>3, <4>2 DEF Settled
    <3> QED BY <3>1, <3>2, <3>3
  <2>7. isValid(s) /\ HasMSHR(s) => s.mshr.targets.needsExclusive
    BY <1>3, <1>5, <1>11, <1>12, <2>1
  <2>8. CacheOK(s)
    BY <1>3, <1>11, <2>1, <2>4, <2>6, <2>7 DEF CacheOK
  <2> QED BY <1>1, <1>11, <1>12, <2>1, <2>2, <2>3, <2>4, <2>5, <2>8 DEF FillOK
<1>16. temp => FillOK(c2, c, a, lat, lat2)
  <2> SUFFICES ASSUME temp PROVE FillOK(c2, c, a, lat, lat2)
    OBVIOUS
  <2> DEFINE wr == IF isDirty(s) THEN Writeback(s) ELSE s.writeback
             no == {}
  <2>1. c2 = [s EXCEPT !.status = no, !.data = 0, !.writeback = wr]
    <3>1. c2 = [invalidate(s) EXCEPT !.writeback = IF isDirty(s) THEN Writeback(s) ELSE @]
      BY DEF FillCache, s
    <3> QED BY <1>11, <3>1 DEF invalidate, CacheRecords
  <2>2. wr \in [data : Nat, pending : BOOLEAN] /\ no \in SUBSET Bits /\ 0 \in Nat
        /\ (isDirty(s) => wr.pending /\ wr.data = s.data) /\ (~isDirty(s) => ~wr.pending)
    BY <1>1, <1>11, CacheFields DEF Writeback
  <2> HIDE DEF wr, no
  <2>3. /\ c2 \in CacheRecords /\ c2.status = no /\ c2.data = 0 /\ c2.mshr = m2
        /\ c2.writeback = wr /\ c2.snoopRespQueue = e.snoopRespQueue
    BY ONLY <1>11, <2>1, <2>2 DEF CacheRecords
  <2>4. /\ c2.status = {} /\ ~isValid(c2) /\ ~isDirty(c2) /\ ~isWritable(c2) /\ ~Busy(c2)
        /\ HasMSHR(c2) <=> m2 # FreeMSHR
    BY <1>3, <2>3 DEF isValid, isDirty, isWritable, Busy, HasMSHR, no
  <2>5. c2.writeback.pending <=> ~Doomed(c) /\ lat2 > lat
    BY <1>12, <2>2, <2>3
  <2>6. c2.writeback.pending => c2.writeback.data = lat2
    BY <1>12, <2>2, <2>3
  <2>7. Owns(c2) <=> ~Doomed(c) /\ lat2 > lat
    BY <2>4, <2>5 DEF Owns
  <2>8. ReadyOK(c2, lat2)
    BY <1>3, <2>3 DEF ReadyOK
  <2>9. c2.status \in Pending /\ c2.status \in Settled
    BY <2>4 DEF Pending, Settled
  <2>10. CacheOK(c2)
    BY <1>3, <2>3, <2>4, <2>9 DEF CacheOK
  <2> QED BY <1>1, <2>3, <2>4, <2>5, <2>6, <2>7, <2>8, <2>10 DEF FillOK
<1> QED BY <1>1, <1>6, <1>13, <1>14, <1>15, <1>16 DEF s

-----------------------------------------------------------------------------
(* The inductive invariant.  The queues of answers: port 0 is the memory,  *)
(* the others are the caches, and qs[o] is the queue of port o.            *)
Ports == 0 .. NumCaches
AllQueues(cs, pq) == [o \in Ports |-> IF o = 0 THEN pq ELSE cs[o].snoopRespQueue]

(* Cache r has an answer on its way, or a claiming cache p owes it one.    *)
Real(qs, r) == \E o \in Ports : \E i \in DOMAIN qs[o] : qs[o][i].to = r
Promised(cs, p, r) ==
    /\ Claiming(cs[p])
    /\ \E k \in DOMAIN cs[p].mshr.targets.list :
          IsSnoop(cs[p].mshr.targets.list[k]) /\ cs[p].mshr.targets.list[k].order = r

(* The answers suit the requests, and no request has two.                  *)
Routes(cs, qs, lat) ==
    /\ \A o \in Ports : \A i \in DOMAIN qs[o] : AnswerOK(o, qs[o][i], cs[qs[o][i].to], lat)
    /\ \A o, p \in Ports : \A i \in DOMAIN qs[o], j \in DOMAIN qs[p] :
          qs[o][i].to = qs[p][j].to => o = p /\ i = j

(* The promises suit the requests: a target t saved by a claiming cache p. *)
OwedOK(cs, qs, p, t) ==
    /\ t.order \in Caches \ {p} /\ ~Real(qs, t.order)
    /\ IsRead(t) => Reading(cs[t.order]) /\ (Doomed(cs[p]) => Doomed(cs[t.order]))
    /\ IsClaim(t) => Claiming(cs[t.order])
Owed(cs, qs) ==
    \A p \in Caches : Claiming(cs[p]) =>
        /\ SavedOK(cs[p].mshr)
        /\ \A k \in DOMAIN cs[p].mshr.targets.list : IsSnoop(cs[p].mshr.targets.list[k]) =>
              OwedOK(cs, qs, p, cs[p].mshr.targets.list[k])
OwedOnce(cs) == \A p, q, r \in Caches : Promised(cs, p, r) /\ Promised(cs, q, r) => p = q
Expected(cs, qs) ==
    \A r \in Caches : Busy(cs[r]) => Real(qs, r) \/ \E p \in Caches : Promised(cs, p, r)

(* While a cache claims the block the others hold at most doomed copies.   *)
ClaimAlone(cs) ==
    \A p \in Caches : Claiming(cs[p]) => \A q \in Caches \ {p} :
        ~cs[q].writeback.pending /\ (isValid(cs[q]) => Busy(cs[q]))
UpgradeReal(cs, qs) == \A p \in Caches : Busy(cs[p]) /\ isValid(cs[p]) => Real(qs, p)
ReadAlone(cs, qs) ==
    \A q \in Caches : Reading(cs[q]) /\ ~Doomed(cs[q]) /\ Real(qs, q) =>
        \A p \in Caches : ~Claiming(cs[p]) /\ ~isWritable(cs[p])
WriteAlone(cs) ==
    \A p \in Caches : isWritable(cs[p]) => \A q \in Caches \ {p} :
        /\ ~isValid(cs[q]) /\ ~cs[q].writeback.pending
        /\ Busy(cs[q]) => Reading(cs[q]) /\ Doomed(cs[q])
OneOwner(cs) == \A p, q \in Caches : Owns(cs[p]) /\ Owns(cs[q]) => p = q
OneRealClaim(cs, qs) ==
    \A p, q \in Caches :
        Claiming(cs[p]) /\ Claiming(cs[q]) /\ Real(qs, p) /\ Real(qs, q) => p = q
LastClaim(cs) ==
    (\E p \in Caches : Claiming(cs[p])) =>
        \E p \in Caches : Claiming(cs[p]) /\ ~Doomed(cs[p])

(* The queues of the caches.                                               *)
ClaimLast(cs, qs) ==
    \A o \in Caches : \A i \in DOMAIN qs[o] : Claiming(cs[qs[o][i].to]) => i = Len(qs[o])
OwnersAnswer(cs, qs) ==
    \A o \in Caches : qs[o] # <<>> =>
        Owns(cs[o]) \/ \E i \in DOMAIN qs[o] : Claiming(cs[qs[o][i].to])

(* An exclusive answer of the memory to a read.                            *)
Unshared(cs, qs, i) == ~qs[0][i].shared /\ Reading(cs[qs[0][i].to])
OnlyCopy(cs, qs) ==
    \A i \in DOMAIN qs[0] : Unshared(cs, qs, i) =>
        /\ \A p \in Caches : /\ cs[p].status = {} /\ ~cs[p].writeback.pending
                             /\ qs[p] = <<>>
        /\ \A j \in DOMAIN qs[0] : j < i =>
              Reading(cs[qs[0][j].to]) /\ Doomed(cs[qs[0][j].to])
        /\ ~Doomed(cs[qs[0][i].to]) /\ ~Lowered(cs[qs[0][i].to]) =>
              \A q \in Caches \ {qs[0][i].to} :
                  Busy(cs[q]) => Reading(cs[q]) /\ Doomed(cs[q])

(* The copies are up to date.                                              *)
Current(cs, lat) ==
    \A r \in Caches : /\ isValid(cs[r]) /\ ~Busy(cs[r]) => cs[r].data = lat
                      /\ cs[r].writeback.pending => cs[r].writeback.data = lat
MemCurrent(cs, mm, lat) ==
    /\ mm <= lat
    /\ (\A r \in Caches : ~Owns(cs[r]) /\ ~Claiming(cs[r])) => mm = lat
AllReady(cs, lat) == \A r \in Caches : ReadyOK(cs[r], lat)

(* The claims form a chain, in the order in which they were sent.          *)
Linked(cs, qs, rank, p, q) ==
    /\ rank[p] # rank[q]
    /\ rank[p] < rank[q] => Doomed(cs[p])
    /\ Real(qs, p) => rank[p] < rank[q]
    /\ Promised(cs, p, q) => /\ rank[p] < rank[q]
                             /\ ~\E x \in Caches : /\ Claiming(cs[x]) /\ rank[p] < rank[x]
                                                   /\ rank[x] < rank[q]
Chain(cs, qs, rank) ==
    \A p, q \in Caches : Claiming(cs[p]) /\ Claiming(cs[q]) /\ p # q =>
        Linked(cs, qs, rank, p, q)
Chained(cs, qs) == \E n \in Nat : \E rank \in [Caches -> 0 .. n] : Chain(cs, qs, rank)

StateOK(cs, qs) ==
    /\ cs \in [Caches -> CacheRecords] /\ qs \in [Ports -> Seq(Responses)]
    /\ \A r \in Caches : CacheOK(cs[r]) /\ qs[r] = cs[r].snoopRespQueue

Protocol(cs, qs, mm, lat) ==
    /\ StateOK(cs, qs) /\ mm \in Nat /\ lat \in Nat
    /\ Routes(cs, qs, lat)
    /\ Owed(cs, qs) /\ OwedOnce(cs) /\ Expected(cs, qs)
    /\ ClaimAlone(cs) /\ UpgradeReal(cs, qs) /\ ReadAlone(cs, qs) /\ WriteAlone(cs)
    /\ OneOwner(cs) /\ OneRealClaim(cs, qs) /\ LastClaim(cs)
    /\ ClaimLast(cs, qs) /\ OwnersAnswer(cs, qs) /\ OnlyCopy(cs, qs)
    /\ Current(cs, lat) /\ MemCurrent(cs, mm, lat) /\ AllReady(cs, lat)
    /\ Chained(cs, qs)

(* The snoop filter and the crossbar.                                      *)
Filter(cs, qs, sf) ==
    /\ sf = [requested |-> sf.requested, holder |-> sf.holder]
    /\ sf.requested = {r \in Caches : Busy(cs[r])} /\ sf.holder \subseteq Caches
    /\ \A r \in Caches : isValid(cs[r]) \/ cs[r].writeback.pending \/ qs[r] # <<>>
                         => r \in sf.holder
Crossbar(cs, qs, route, out) ==
    /\ route = {r \in Caches : Busy(cs[r])}
    /\ out = {r \in Caches : Busy(cs[r]) /\ ~\E i \in DOMAIN qs[0] : qs[0][i].to = r}

IInv ==
    /\ Protocol(cache, AllQueues(cache, packetQueue), mem, latest)
    /\ Filter(cache, AllQueues(cache, packetQueue), snoopFilter)
    /\ Crossbar(cache, AllQueues(cache, packetQueue), routeTo, outstandingSnoop)
    /\ packetQueue \in Seq(Responses) /\ issued \in Nat
    /\ stale = FALSE /\ failed = FALSE

-----------------------------------------------------------------------------
(* What the invariant says of the caches.                                  *)
LEMMA PortFacts ==
    /\ Caches \subseteq Ports /\ 0 \in Ports /\ 0 \notin Caches
    /\ \A o \in Ports : o # 0 => o \in Caches
    /\ Caches \subseteq Nat
  BY CacheAssumption DEF Caches, Ports

LEMMA Kinds ==
    ASSUME NEW cs, NEW qs, StateOK(cs, qs), NEW p \in Caches
    PROVE  /\ Claiming(cs[p]) => Busy(cs[p])
           /\ Reading(cs[p]) <=> Busy(cs[p]) /\ ~Claiming(cs[p])
           /\ Busy(cs[p]) => /\ HasMSHR(cs[p]) /\ ~cs[p].writeback.pending
                             /\ ~isWritable(cs[p]) /\ qs[p] = <<>> /\ ~Owns(cs[p])
           /\ Reading(cs[p]) => ~isValid(cs[p])
           /\ ~isValid(cs[p]) <=> cs[p].status = {}
           /\ isDirty(cs[p]) => isValid(cs[p])
           /\ isWritable(cs[p]) => isValid(cs[p]) /\ ~HasMSHR(cs[p]) /\ qs[p] = <<>>
           /\ isReadable(cs[p]) => isValid(cs[p]) /\ ~HasMSHR(cs[p])
           /\ isValid(cs[p]) /\ ~HasMSHR(cs[p]) => isReadable(cs[p])
           /\ cs[p].writeback.pending => ~isValid(cs[p]) /\ ~Busy(cs[p])
           /\ Owns(cs[p]) => ~Busy(cs[p]) /\ (isValid(cs[p]) \/ cs[p].writeback.pending)
<1>1. cs[p] \in CacheRecords /\ CacheOK(cs[p]) /\ qs[p] = cs[p].snoopRespQueue
  BY DEF StateOK
<1>2. isWritable(cs[p]) => cs[p].snoopRespQueue = <<>>
  BY <1>1 DEF CacheOK
<1> QED BY <1>1, <1>2, CacheKinds

LEMMA QueueTypes ==
    ASSUME NEW cs, NEW qs, StateOK(cs, qs), NEW o \in Ports
    PROVE  /\ qs[o] \in Seq(Responses) /\ Len(qs[o]) \in Nat /\ DOMAIN qs[o] = 1 .. Len(qs[o])
           /\ \A i \in DOMAIN qs[o] : qs[o][i] \in Responses /\ qs[o][i].to \in Caches
<1>1. qs[o] \in Seq(Responses)
  BY DEF StateOK
<1>2. \A i \in DOMAIN qs[o] : qs[o][i] \in Responses
  BY <1>1
<1> QED BY <1>1, <1>2 DEF Responses

(* An owner and a claim exclude each other.                                *)
LEMMA OwnerNoClaim ==
    ASSUME NEW cs, NEW qs, StateOK(cs, qs), ClaimAlone(cs),
           NEW p \in Caches, NEW q \in Caches
    PROVE  ~(Owns(cs[p]) /\ Claiming(cs[q]))
<1>1. Owns(cs[p]) => ~Busy(cs[p]) /\ (isValid(cs[p]) \/ cs[p].writeback.pending)
  BY Kinds
<1>2. Claiming(cs[q]) => Busy(cs[q])
  BY Kinds
<1> QED BY <1>1, <1>2 DEF ClaimAlone

(* At most one cache supplies the block.                                   *)
LEMMA OneSupplier ==
    ASSUME NEW cs, NEW qs, StateOK(cs, qs), ClaimAlone(cs), OneOwner(cs), Chained(cs, qs),
           NEW p \in Caches, NEW q \in Caches, Supplies(cs[p]), Supplies(cs[q])
    PROVE  p = q
<1>1. ~(Owns(cs[p]) /\ Claiming(cs[q])) /\ ~(Owns(cs[q]) /\ Claiming(cs[p]))
  BY OwnerNoClaim
<1>2. Owns(cs[p]) /\ Owns(cs[q]) => p = q
  BY DEF OneOwner
<1>3. Claiming(cs[p]) /\ ~Doomed(cs[p]) /\ Claiming(cs[q]) /\ ~Doomed(cs[q]) => p = q
  <2> SUFFICES ASSUME Claiming(cs[p]), ~Doomed(cs[p]), Claiming(cs[q]), ~Doomed(cs[q]), p # q
               PROVE  FALSE
    OBVIOUS
  <2>1. PICK n \in Nat : \E rank \in [Caches -> 0 .. n] : Chain(cs, qs, rank)
    BY DEF Chained
  <2>2. PICK rank \in [Caches -> 0 .. n] : Chain(cs, qs, rank)
    BY <2>1
  <2>3. rank[p] # rank[q] /\ ~(rank[p] < rank[q]) /\ ~(rank[q] < rank[p])
    BY <2>2 DEF Chain, Linked
  <2>4. rank[p] \in Nat /\ rank[q] \in Nat
    BY <2>2
  <2> QED BY <2>3, <2>4
<1> QED BY <1>1, <1>2, <1>3 DEF Supplies

(* Without a supplier there is no claim at all.                            *)
LEMMA NoSupplier ==
    ASSUME NEW cs, LastClaim(cs), NEW r \in Caches, ~Busy(cs[r]),
           \A d \in Caches \ {r} : ~Supplies(cs[d])
    PROVE  /\ \A p \in Caches : ~Claiming(cs[p])
           /\ \A p \in Caches \ {r} : ~Owns(cs[p])
<1>1. ~\E p \in Caches : Claiming(cs[p]) /\ ~Doomed(cs[p])
  BY DEF Supplies, Claiming
<1> QED BY <1>1 DEF LastClaim, Supplies

-----------------------------------------------------------------------------
(* Steps that leave the registers and the queues alone.                    *)
SameReg(c2, c) ==
    /\ Busy(c2) <=> Busy(c)
    /\ Claiming(c2) <=> Claiming(c)
    /\ Reading(c2) <=> Reading(c)
    /\ Doomed(c2) <=> Doomed(c)
    /\ Lowered(c2) <=> Lowered(c)

LEMMA SameRegs ==
    ASSUME NEW c2, NEW c, c2.mshr = c.mshr
    PROVE  SameReg(c2, c)
  BY DEF SameReg, Busy, Claiming, Reading, Doomed, Lowered

LEMMA SamePromises ==
    ASSUME NEW cs, NEW cs2, NEW p, cs2[p].mshr = cs[p].mshr, NEW q
    PROVE  Promised(cs2, p, q) <=> Promised(cs, p, q)
  BY DEF Promised, Claiming, Busy

(* One cache, not busy, changes its block or its writeback.                *)
Local(cs2, cs, qs, r) ==
    /\ r \in Caches /\ ~Busy(cs[r]) /\ cs2[r] \in CacheRecords /\ CacheOK(cs2[r])
    /\ cs2[r].mshr = cs[r].mshr /\ cs2[r].snoopRespQueue = cs[r].snoopRespQueue
    /\ cs2 \in [Caches -> CacheRecords] /\ \A d \in Caches \ {r} : cs2[d] = cs[d]

LEMMA LocalStep ==
    ASSUME NEW cs, NEW cs2, NEW qs, NEW mm, NEW lat, Protocol(cs, qs, mm, lat),
           NEW r, Local(cs2, cs, qs, r)
    PROVE  /\ StateOK(cs2, qs) /\ Owed(cs2, qs) /\ OwedOnce(cs2) /\ Expected(cs2, qs)
           /\ UpgradeReal(cs2, qs) /\ OneRealClaim(cs2, qs) /\ LastClaim(cs2)
           /\ ClaimLast(cs2, qs) /\ Chained(cs2, qs)
           /\ \A d \in Caches : SameReg(cs2[d], cs[d])
<1>1. StateOK(cs2, qs)
  BY DEF StateOK, Protocol, Local
<1>2. \A d \in Caches : cs2[d].mshr = cs[d].mshr
  BY DEF Local
<1>3. \A d \in Caches : SameReg(cs2[d], cs[d])
  BY <1>2, SameRegs
<1>4. \A p \in Caches : \A q : Promised(cs2, p, q) <=> Promised(cs, p, q)
  BY <1>2, SamePromises
<1>5. Owed(cs2, qs)
  <2>1. \A p \in Caches : \A t : OwedOK(cs, qs, p, t) => OwedOK(cs2, qs, p, t)
    BY <1>3 DEF OwedOK, SameReg
  <2> QED BY <1>2, <1>3, <2>1 DEF Owed, Protocol, SameReg
<1>6. OwedOnce(cs2)
  BY <1>4 DEF OwedOnce, Protocol
<1>7. Expected(cs2, qs)
  BY <1>3, <1>4 DEF Expected, Protocol, SameReg
<1>8. UpgradeReal(cs2, qs)
  BY <1>3 DEF UpgradeReal, Protocol, SameReg, Local
<1>9. OneRealClaim(cs2, qs)
  BY <1>3 DEF OneRealClaim, Protocol, SameReg
<1>10. LastClaim(cs2)
  BY <1>3 DEF LastClaim, Protocol, SameReg
<1>11. ClaimLast(cs2, qs)
  <2>1. \A o \in Caches : \A i \in DOMAIN qs[o] : qs[o][i].to \in Caches
    BY PortFacts, QueueTypes DEF Protocol
  <2> QED BY <1>3, <2>1 DEF ClaimLast, Protocol, SameReg
<1>12. Chained(cs2, qs)
  <2>1. PICK n \in Nat : \E rank \in [Caches -> 0 .. n] : Chain(cs, qs, rank)
    BY DEF Chained, Protocol
  <2>2. PICK rank \in [Caches -> 0 .. n] : Chain(cs, qs, rank)
    BY <2>1
  <2>3. Chain(cs2, qs, rank)
    BY <1>3, <1>4, <2>2 DEF Chain, Linked, SameReg
  <2> QED BY <2>3 DEF Chained
<1> QED BY <1>1, <1>3, <1>5, <1>6, <1>7, <1>8, <1>9, <1>10, <1>11, <1>12

(* The answers to doomed reads suit them whatever is stored elsewhere.     *)
LEMMA DoomedAnswer ==
    ASSUME NEW o, NEW a, NEW c, NEW lat, AnswerOK(o, a, c, lat), Reading(c), Doomed(c),
           a.data \in Nat, lat \in Nat, NEW lat2 \in Nat, lat2 >= lat
    PROVE  AnswerOK(o, a, c, lat2)
<1>1. ~Claiming(c) /\ a.data <= lat
  BY DEF AnswerOK, Reading, Claiming
<1>2. a.data <= lat2
  BY <1>1
<1> QED BY <1>1, <1>2 DEF AnswerOK

(* Loads that were issued before a store were issued before the next one.  *)
LEMMA LaterReady ==
    ASSUME NEW c \in CacheRecords, NEW lat \in Nat, ReadyOK(c, lat),
           NEW lat2 \in Nat, lat2 >= lat
    PROVE  ReadyOK(c, lat2)
<1> DEFINE u == c.mshr.targets.list
           v == c.mshr.deferredTargets.list
<1>1. u \in Seq(Targets) /\ v \in Seq(Targets)
  BY CacheFields, RegFields
<1>2. \A k \in DOMAIN u : u[k] \in Targets
  BY <1>1
<1>3. \A k \in DOMAIN v : v[k] \in Targets
  BY <1>1
<1>4. /\ \A k \in DOMAIN u : u[k].readyTime \in Nat /\ u[k].readyTime <= lat
      /\ \A k \in DOMAIN v : v[k].readyTime \in Nat /\ v[k].readyTime <= lat
  BY <1>2, <1>3 DEF Targets, ReadyOK
<1> HIDE DEF u, v
<1>5. /\ \A k \in DOMAIN u : u[k].readyTime <= lat2
      /\ \A k \in DOMAIN v : v[k].readyTime <= lat2
  BY <1>4
<1> QED BY <1>5 DEF ReadyOK, u, v

(* A store that hits: the block is writable, so no other copy can be read. *)
LEMMA StoreStep ==
    ASSUME NEW cs, NEW cs2, NEW qs, NEW mm, NEW lat, Protocol(cs, qs, mm, lat),
           NEW r, Local(cs2, cs, qs, r), isWritable(cs[r]),
           isValid(cs2[r]), isDirty(cs2[r]), cs2[r].data = lat + 1,
           cs2[r].writeback = cs[r].writeback
    PROVE  Protocol(cs2, qs, mm, lat + 1)
<1>1. /\ StateOK(cs2, qs) /\ Owed(cs2, qs) /\ OwedOnce(cs2) /\ Expected(cs2, qs)
      /\ UpgradeReal(cs2, qs) /\ OneRealClaim(cs2, qs) /\ LastClaim(cs2)
      /\ ClaimLast(cs2, qs) /\ Chained(cs2, qs)
      /\ \A d \in Caches : SameReg(cs2[d], cs[d])
  BY LocalStep
<1>2. /\ r \in Caches /\ StateOK(cs, qs) /\ lat \in Nat /\ mm \in Nat /\ ~Busy(cs[r])
      /\ \A d \in Caches \ {r} : cs2[d] = cs[d]
  BY DEF Protocol, Local
<1>3. \A q \in Caches \ {r} : /\ ~isValid(cs[q]) /\ ~cs[q].writeback.pending
                              /\ Busy(cs[q]) => Reading(cs[q]) /\ Doomed(cs[q])
  BY <1>2 DEF Protocol, WriteAlone
<1>4. \A q \in Caches : Busy(cs[q]) => q # r /\ Reading(cs[q]) /\ Doomed(cs[q])
  BY <1>2, <1>3
<1>5. \A q \in Caches : ~Claiming(cs[q]) /\ ~Claiming(cs2[q])
  BY <1>1, <1>2, <1>4 DEF SameReg, Claiming, Reading
<1>6. \A q \in Caches \ {r} : ~Owns(cs2[q]) /\ ~isWritable(cs2[q])
  BY <1>2, <1>3, Kinds
<1>7. Owns(cs2[r]) /\ ~Busy(cs2[r]) /\ qs[r] = <<>> /\ ~cs2[r].writeback.pending
  BY <1>1, <1>2, Kinds DEF Owns, SameReg
<1>8. Routes(cs2, qs, lat + 1)
  <2>1. ASSUME NEW o \in Ports, NEW i \in DOMAIN qs[o]
        PROVE  AnswerOK(o, qs[o][i], cs2[qs[o][i].to], lat + 1)
    <3>1. /\ AnswerOK(o, qs[o][i], cs[qs[o][i].to], lat)
          /\ qs[o][i].to \in Caches /\ qs[o][i].data \in Nat
      BY <1>2, QueueTypes DEF Protocol, Routes, Responses
    <3>2. /\ Busy(cs[qs[o][i].to])
      BY <3>1 DEF AnswerOK
    <3>3. cs2[qs[o][i].to] = cs[qs[o][i].to] /\ Reading(cs[qs[o][i].to]) /\ Doomed(cs[qs[o][i].to])
      BY <1>2, <1>4, <3>1, <3>2
    <3>4. lat + 1 \in Nat /\ lat + 1 >= lat
      BY <1>2
    <3> QED BY <1>2, <3>1, <3>3, <3>4, DoomedAnswer
  <2>2. \A o, p \in Ports : \A i \in DOMAIN qs[o], j \in DOMAIN qs[p] :
          qs[o][i].to = qs[p][j].to => o = p /\ i = j
    BY DEF Protocol, Routes
  <2> QED BY <2>1, <2>2 DEF Routes
<1>9. ClaimAlone(cs2)
  BY <1>5 DEF ClaimAlone
<1>10. ReadAlone(cs2, qs)
  <2>1. \A q \in Caches : Reading(cs2[q]) => Doomed(cs2[q])
    BY <1>1, <1>4 DEF SameReg, Reading
  <2> QED BY <2>1 DEF ReadAlone
<1>11. WriteAlone(cs2)
  BY <1>1, <1>2, <1>3, <1>6 DEF WriteAlone, SameReg
<1>12. OneOwner(cs2)
  BY <1>2, <1>6 DEF OneOwner
<1>13. OwnersAnswer(cs2, qs)
  <2>1. \A o \in Caches : \A i \in DOMAIN qs[o] : qs[o][i].to \in Caches
    BY <1>2, PortFacts, QueueTypes
  <2>2. \A o \in Caches \ {r} : ~Owns(cs[o])
    BY <1>2, <1>6
  <2> QED BY <1>5, <1>7, <2>1, <2>2 DEF OwnersAnswer, Protocol
<1>14. OnlyCopy(cs2, qs)
  <2> SUFFICES ASSUME NEW i \in DOMAIN qs[0], Unshared(cs2, qs, i) PROVE FALSE
    BY DEF OnlyCopy
  <2>1. qs[0][i].to \in Caches
    BY <1>2, PortFacts, QueueTypes
  <2>2. Unshared(cs, qs, i)
    BY <1>1, <2>1 DEF Unshared, SameReg
  <2>3. cs[r].status = {}
    BY <1>2, <2>2 DEF Protocol, OnlyCopy
  <2> QED BY <2>3 DEF isWritable
<1>15. Current(cs2, lat + 1)
  BY <1>2, <1>3, <1>7 DEF Current
<1>16. MemCurrent(cs2, mm, lat + 1)
  <2>1. mm <= lat
    BY DEF Protocol, MemCurrent
  <2>2. mm <= lat + 1
    BY <1>2, <2>1
  <2> QED BY <1>2, <1>7, <2>2 DEF MemCurrent
<1>17. AllReady(cs2, lat + 1)
  <2>1. ASSUME NEW q \in Caches PROVE ReadyOK(cs2[q], lat + 1)
    <3>1. cs2[q].mshr = cs[q].mshr /\ ReadyOK(cs[q], lat)
      BY DEF Protocol, AllReady, Local
    <3>2. cs2[q] \in CacheRecords /\ ReadyOK(cs2[q], lat)
      BY <1>1, <3>1 DEF StateOK, ReadyOK
    <3>3. lat + 1 \in Nat /\ lat + 1 >= lat
      BY <1>2
    <3> QED BY <1>2, <3>2, <3>3, LaterReady
  <2> QED BY <2>1 DEF AllReady
<1>18. lat + 1 \in Nat
  BY <1>2
<1> QED BY <1>1, <1>2, <1>8, <1>9, <1>10, <1>11, <1>12, <1>13, <1>14, <1>15, <1>16, <1>17,
           <1>18 DEF Protocol

(* A block is evicted, or its writeback leaves.                            *)
LEMMA DropStep ==
    ASSUME NEW cs, NEW cs2, NEW qs, NEW mm, NEW lat, Protocol(cs, qs, mm, lat),
           NEW r, Local(cs2, cs, qs, r), isValid(cs[r]) \/ cs[r].writeback.pending,
           ~isValid(cs2[r]), cs2[r].writeback.pending => cs2[r].writeback.data = lat,
           Owns(cs2[r]) => Owns(cs[r]), qs[r] # <<>> /\ Owns(cs[r]) => Owns(cs2[r]),
           NEW mm2 \in Nat, mm2 <= lat, Owns(cs[r]) /\ ~Owns(cs2[r]) => mm2 = lat,
           mm2 # lat => mm2 = mm
    PROVE  Protocol(cs2, qs, mm2, lat)
<1>1. /\ StateOK(cs2, qs) /\ Owed(cs2, qs) /\ OwedOnce(cs2) /\ Expected(cs2, qs)
      /\ UpgradeReal(cs2, qs) /\ OneRealClaim(cs2, qs) /\ LastClaim(cs2)
      /\ ClaimLast(cs2, qs) /\ Chained(cs2, qs)
      /\ \A d \in Caches : SameReg(cs2[d], cs[d])
  BY LocalStep
<1>2. /\ r \in Caches /\ StateOK(cs, qs) /\ lat \in Nat /\ mm \in Nat /\ ~Busy(cs[r])
      /\ \A d \in Caches \ {r} : cs2[d] = cs[d]
  BY DEF Protocol, Local
<1>3. \A q \in Caches : ~Claiming(cs[q]) /\ ~Claiming(cs2[q])
  BY <1>1, <1>2 DEF SameReg, Claiming, ClaimAlone, Protocol
<1>4. ~isWritable(cs2[r])
  BY <1>1, <1>2, Kinds
<1>5. Routes(cs2, qs, lat)
  <2>1. ASSUME NEW o \in Ports, NEW i \in DOMAIN qs[o]
        PROVE  AnswerOK(o, qs[o][i], cs2[qs[o][i].to], lat)
    <3>1. /\ AnswerOK(o, qs[o][i], cs[qs[o][i].to], lat) /\ qs[o][i].to \in Caches
      BY <1>2, QueueTypes DEF Protocol, Routes
    <3>2. Busy(cs[qs[o][i].to])
      BY <3>1 DEF AnswerOK
    <3> QED BY <1>2, <3>1, <3>2
  <2> QED BY <2>1 DEF Routes, Protocol
<1>6. ClaimAlone(cs2)
  BY <1>3 DEF ClaimAlone
<1>7. ReadAlone(cs2, qs)
  BY <1>1, <1>2, <1>3, <1>4 DEF ReadAlone, Protocol, SameReg
<1>8. WriteAlone(cs2)
  BY <1>1, <1>2, <1>4 DEF WriteAlone, Protocol, SameReg
<1>9. OneOwner(cs2)
  BY <1>2 DEF OneOwner, Protocol
<1>10. OwnersAnswer(cs2, qs)
  <2>1. \A o \in Caches : \A i \in DOMAIN qs[o] : qs[o][i].to \in Caches
    BY <1>2, PortFacts, QueueTypes
  <2> QED BY <1>2, <1>3, <2>1 DEF OwnersAnswer, Protocol
<1>11. OnlyCopy(cs2, qs)
  <2> SUFFICES ASSUME NEW i \in DOMAIN qs[0], Unshared(cs2, qs, i) PROVE FALSE
    BY DEF OnlyCopy
  <2>1. qs[0][i].to \in Caches
    BY <1>2, PortFacts, QueueTypes
  <2>2. Unshared(cs, qs, i)
    BY <1>1, <2>1 DEF Unshared, SameReg
  <2>3. cs[r].status = {} /\ ~cs[r].writeback.pending
    BY <1>2, <2>2 DEF Protocol, OnlyCopy
  <2> QED BY <2>3 DEF isValid
<1>12. Current(cs2, lat)
  BY <1>2 DEF Current, Protocol
<1>13. MemCurrent(cs2, mm2, lat)
  <2> SUFFICES ASSUME \A q \in Caches : ~Owns(cs2[q]), mm2 # lat PROVE FALSE
    BY DEF MemCurrent
  <2>1. mm2 = mm /\ ~Owns(cs[r])
    BY <1>2
  <2>2. \A q \in Caches : ~Owns(cs[q])
    BY <1>2, <2>1
  <2> QED BY <1>3, <2>1, <2>2 DEF MemCurrent, Protocol
<1>14. AllReady(cs2, lat)
  <2>1. \A q \in Caches : cs2[q].mshr = cs[q].mshr /\ ReadyOK(cs[q], lat)
    BY DEF Protocol, AllReady, Local
  <2> QED BY <2>1 DEF AllReady, ReadyOK
<1> QED BY <1>1, <1>2, <1>5, <1>6, <1>7, <1>8, <1>9, <1>10, <1>11, <1>12, <1>13, <1>14
        DEF Protocol

-----------------------------------------------------------------------------
(* A miss joins the register of its cache.                                 *)
JoinStep(cs2, cs, r, lat) ==
    LET u == cs[r].mshr.targets.list
        u2 == cs2[r].mshr.targets.list
        v2 == cs2[r].mshr.deferredTargets.list
    IN  /\ r \in Caches /\ cs2 \in [Caches -> CacheRecords] /\ CacheOK(cs2[r])
        /\ \A d \in Caches \ {r} : cs2[d] = cs[d]
        /\ cs2[r].snoopRespQueue = cs[r].snoopRespQueue /\ cs2[r].writeback = cs[r].writeback
        /\ cs2[r].data = cs[r].data /\ SameReg(cs2[r], cs[r])
        /\ isValid(cs2[r]) <=> isValid(cs[r])
        /\ isDirty(cs2[r]) <=> isDirty(cs[r])
        /\ isWritable(cs2[r]) => isWritable(cs[r])
        /\ \A k \in DOMAIN u : k \in DOMAIN u2 /\ u2[k] = u[k]
        /\ \A k \in DOMAIN u2 :
              \/ k \in DOMAIN u
              \/ ~IsSnoop(u2[k]) /\ u2[k].readyTime <= lat /\ ~(Busy(cs[r]) /\ Doomed(cs[r]))
        /\ \A k \in DOMAIN v2 : v2[k].readyTime <= lat

LEMMA MissStep ==
    ASSUME NEW cs, NEW cs2, NEW qs, NEW mm, NEW lat, Protocol(cs, qs, mm, lat),
           NEW r, JoinStep(cs2, cs, r, lat)
    PROVE  Protocol(cs2, qs, mm, lat)
<1> DEFINE u == cs[r].mshr.targets.list
           u2 == cs2[r].mshr.targets.list
           v2 == cs2[r].mshr.deferredTargets.list
<1>1. /\ r \in Caches /\ StateOK(cs, qs) /\ lat \in Nat /\ mm \in Nat
      /\ \A d \in Caches \ {r} : cs2[d] = cs[d]
      /\ cs2[r].snoopRespQueue = cs[r].snoopRespQueue /\ cs2[r].writeback = cs[r].writeback
      /\ cs2[r].data = cs[r].data
      /\ isValid(cs2[r]) <=> isValid(cs[r])
      /\ isDirty(cs2[r]) <=> isDirty(cs[r])
      /\ isWritable(cs2[r]) => isWritable(cs[r])
  BY DEF Protocol, JoinStep
<1>2. /\ \A k \in DOMAIN u : k \in DOMAIN u2 /\ u2[k] = u[k]
      /\ \A k \in DOMAIN u2 :
            \/ k \in DOMAIN u
            \/ ~IsSnoop(u2[k]) /\ u2[k].readyTime <= lat /\ ~(Busy(cs[r]) /\ Doomed(cs[r]))
      /\ \A k \in DOMAIN v2 : v2[k].readyTime <= lat
  BY DEF JoinStep
<1>3. \A d \in Caches : SameReg(cs2[d], cs[d])
  BY <1>1 DEF JoinStep, SameReg
<1>4. StateOK(cs2, qs)
  BY <1>1 DEF StateOK, JoinStep
<1>5. \A d \in Caches : /\ cs2[d].writeback = cs[d].writeback /\ cs2[d].data = cs[d].data
                        /\ isValid(cs2[d]) <=> isValid(cs[d])
                        /\ isWritable(cs2[d]) => isWritable(cs[d])
                        /\ cs2[d].status = {} <=> cs[d].status = {}
  BY <1>1, <1>4, Kinds
<1>6. \A d \in Caches : Owns(cs2[d]) <=> Owns(cs[d])
  BY <1>1, <1>3 DEF Owns, SameReg
<1> HIDE DEF u, u2, v2
<1>7. \A p \in Caches : \A q : Promised(cs2, p, q) <=> Promised(cs, p, q)
  <2>0. \A p \in Caches \ {r} : \A q : Promised(cs2, p, q) <=> Promised(cs, p, q)
    BY <1>1, SamePromises
  <2> SUFFICES ASSUME NEW q PROVE Promised(cs2, r, q) <=> Promised(cs, r, q)
    BY <2>0
  <2>1. (\E k \in DOMAIN u2 : IsSnoop(u2[k]) /\ u2[k].order = q)
          <=> (\E k \in DOMAIN u : IsSnoop(u[k]) /\ u[k].order = q)
    BY <1>2
  <2> QED BY <1>1, <1>3, <2>1 DEF Promised, SameReg, u, u2
<1>8. \A o \in Ports : \A i \in DOMAIN qs[o] : qs[o][i].to \in Caches
  BY <1>1, QueueTypes
<1>9. Routes(cs2, qs, lat)
  <2>1. ASSUME NEW o \in Ports, NEW i \in DOMAIN qs[o]
        PROVE  AnswerOK(o, qs[o][i], cs2[qs[o][i].to], lat)
    <3> DEFINE q == qs[o][i].to
    <3>1. AnswerOK(o, qs[o][i], cs[q], lat) /\ q \in Caches
      BY <1>8 DEF Protocol, Routes
    <3> HIDE DEF q
    <3>2. CASE q # r
      BY <1>1, <3>1, <3>2 DEF q
    <3>3. CASE q = r
      <4>1. Doomed(cs[r]) => \A k \in DOMAIN u2 : k \in DOMAIN u /\ u2[k] = u[k]
        BY <1>2, <3>1, <3>3 DEF AnswerOK
      <4>2. AnswerOK(o, qs[o][i], cs2[r], lat)
        BY <1>1, <1>3, <3>1, <3>3, <4>1 DEF AnswerOK, SameReg, u, u2
      <4> QED BY <3>3, <4>2 DEF q
    <3> QED BY <3>2, <3>3
  <2> QED BY <2>1 DEF Routes, Protocol
<1>10. Owed(cs2, qs)
  <2>1. \A p \in Caches : \A t : OwedOK(cs, qs, p, t) => OwedOK(cs2, qs, p, t)
    BY <1>3 DEF OwedOK, SameReg
  <2>2. ASSUME Claiming(cs2[r])
        PROVE  /\ SavedOK(cs2[r].mshr)
               /\ \A k \in DOMAIN u2 : IsSnoop(u2[k]) => OwedOK(cs2, qs, r, u2[k])
    <3>1. SavedOK(cs[r].mshr) /\ \A k \in DOMAIN u : IsSnoop(u[k]) => OwedOK(cs, qs, r, u[k])
      BY <1>1, <1>3, <2>2 DEF Owed, Protocol, SameReg, u
    <3>2. \A k \in DOMAIN u2 : IsSnoop(u2[k]) => k \in DOMAIN u /\ u2[k] = u[k]
      BY <1>2
    <3>3. SavedOK(cs2[r].mshr)
      BY <3>1, <3>2 DEF SavedOK, u, u2
    <3> QED BY <1>1, <2>1, <3>1, <3>2, <3>3
  <2> QED BY <1>1, <2>1, <2>2 DEF Owed, Protocol, u2
<1>11. OwedOnce(cs2)
  BY <1>7 DEF OwedOnce, Protocol
<1>12. Expected(cs2, qs)
  BY <1>3, <1>7 DEF Expected, Protocol, SameReg
<1>13. ClaimAlone(cs2) /\ UpgradeReal(cs2, qs) /\ ReadAlone(cs2, qs) /\ WriteAlone(cs2)
  BY <1>3, <1>5 DEF ClaimAlone, UpgradeReal, ReadAlone, WriteAlone, Protocol, SameReg
<1>14. OneOwner(cs2) /\ OneRealClaim(cs2, qs) /\ LastClaim(cs2)
  BY <1>3, <1>6 DEF OneOwner, OneRealClaim, LastClaim, Protocol, SameReg
<1>15. ClaimLast(cs2, qs) /\ OwnersAnswer(cs2, qs)
  BY <1>3, <1>6, <1>8, PortFacts DEF ClaimLast, OwnersAnswer, Protocol, SameReg
<1>16. OnlyCopy(cs2, qs)
  <2>1. \A i \in DOMAIN qs[0] : qs[0][i].to \in Caches
    BY <1>8, PortFacts
  <2>2. \A i \in DOMAIN qs[0] : Unshared(cs2, qs, i) <=> Unshared(cs, qs, i)
    BY <1>3, <2>1 DEF Unshared, SameReg
  <2> QED BY <1>3, <1>5, <2>1, <2>2 DEF OnlyCopy, Protocol, SameReg
<1>17. Current(cs2, lat)
  BY <1>3, <1>5 DEF Current, Protocol, SameReg
<1>18. MemCurrent(cs2, mm, lat)
  BY <1>3, <1>6 DEF MemCurrent, Protocol, SameReg
<1>19. AllReady(cs2, lat)
  <2>1. ReadyOK(cs[r], lat)
    BY <1>1 DEF AllReady, Protocol
  <2>2. ReadyOK(cs2[r], lat)
    BY <1>2, <2>1 DEF ReadyOK, u, u2, v2
  <2> QED BY <1>1, <2>2 DEF AllReady, Protocol
<1>20. Chained(cs2, qs)
  <2>1. PICK n \in Nat : \E rank \in [Caches -> 0 .. n] : Chain(cs, qs, rank)
    BY DEF Chained, Protocol
  <2>2. PICK rank \in [Caches -> 0 .. n] : Chain(cs, qs, rank)
    BY <2>1
  <2>3. Chain(cs2, qs, rank)
    BY <1>3, <1>7, <2>2 DEF Chain, Linked, SameReg
  <2> QED BY <2>3 DEF Chained
<1> QED BY <1>1, <1>4, <1>9, <1>10, <1>11, <1>12, <1>13, <1>14, <1>15, <1>16, <1>17, <1>18,
           <1>19, <1>20 DEF Protocol

-----------------------------------------------------------------------------
(* A request cmd of cache r is sent, or is refused by the memory after the *)
(* other caches have been snooped.                                         *)
Asked(cs, qs, r, cmd) ==
    /\ r \in Caches /\ cmd \in SnoopCmds
    /\ ~Busy(cs[r]) /\ ~cs[r].writeback.pending /\ qs[r] = <<>> /\ HasMSHR(cs[r])
    /\ isValid(cs[r]) <=> cmd = "UpgradeReq"

(* Who answers: a cache that owns the block, or else the memory unless a   *)
(* claiming cache has promised to.                                         *)
Gives(cs, r, o) ==
    IF o = 0 THEN \A d \in Caches \ {r} : ~Supplies(cs[d]) ELSE o # r /\ Owns(cs[o])

GivenOK(a, cs, r, cmd, o, mm) ==
    /\ a \in Responses /\ a.to = r
    /\ a.memInhibit <=> o # 0
    /\ cmd = "ReadReq" => a.cmd = "ReadResp"
    /\ cmd = "ReadExReq" => a.cmd = "ReadExResp"
    /\ cmd = "UpgradeReq" => a.cmd = "UpgradeResp"
    /\ cmd # "ReadReq" => ~a.shared
    /\ cmd = "ReadReq" => (a.shared <=> (o # 0 \/ \E d \in Caches \ {r} : Shares(cs[d])))
    /\ cmd # "UpgradeReq" => a.data = IF o = 0 THEN mm ELSE Supply(cs[o])

(* The register of the request once it is in service.                      *)
SentReg(c2, c, cmd) ==
    /\ CacheOK(c2) /\ Busy(c2) /\ ~Doomed(c2) /\ ~Lowered(c2)
    /\ Claiming(c2) <=> cmd # "ReadReq"
    /\ c2.status = c.status /\ c2.data = c.data /\ c2.writeback = c.writeback
    /\ c2.snoopRespQueue = c.snoopRespQueue
    /\ c2.mshr.targets = c.mshr.targets /\ c2.mshr.deferredTargets = c.mshr.deferredTargets
    /\ \A k \in DOMAIN c2.mshr.targets.list : ~IsSnoop(c2.mshr.targets.list[k])

SendStep(cs2, cs, qs2, qs, mm, lat, r, cmd, ans, sent) ==
    /\ Protocol(cs, qs, mm, lat) /\ Asked(cs, qs, r, cmd)
    /\ cs2 \in [Caches -> CacheRecords] /\ qs2 \in [Ports -> Seq(Responses)]
    /\ \A d \in Caches \ {r} : AfterOK(cs2[d], cs[d], r, cmd)
    /\ sent => SentReg(cs2[r], cs[r], cmd)
    /\ ~sent => cs2[r] = cs[r] /\ Gives(cs, r, 0)
    /\ \A o \in Ports : Gives(cs, r, o) => GivenOK(ans[o], cs, r, cmd, o, mm)
    /\ \A o \in Ports : qs2[o] = IF sent /\ Gives(cs, r, o) THEN Append(qs[o], ans[o])
                                 ELSE qs[o]

(* Exactly one of the ports and the claiming caches answers.               *)
LEMMA WhoGives ==
    ASSUME NEW cs2, NEW cs, NEW qs2, NEW qs, NEW mm, NEW lat, NEW r, NEW cmd, NEW ans,
           NEW sent, SendStep(cs2, cs, qs2, qs, mm, lat, r, cmd, ans, sent)
    PROVE  /\ \A o, p \in Ports : Gives(cs, r, o) /\ Gives(cs, r, p) => o = p
           /\ (\E o \in Ports : Gives(cs, r, o)) => \A p \in Caches : ~Claiming(cs[p])
           /\ (\E p \in Caches : Claiming(cs[p])) =>
                \E p \in Caches \ {r} : Claiming(cs[p]) /\ ~Doomed(cs[p])
           /\ ~(\E o \in Ports : Gives(cs, r, o)) =>
                \E p \in Caches \ {r} : Claiming(cs[p]) /\ ~Doomed(cs[p])
           /\ isValid(cs[r]) => \A p \in Caches : ~Claiming(cs[p])
           /\ \A p, q \in Caches : Supplies(cs[p]) /\ Supplies(cs[q]) => p = q
           /\ Gives(cs, r, 0) => \A p \in Caches \ {r} : ~Owns(cs[p])
           /\ ~Claiming(cs[r])
<1>1. /\ Protocol(cs, qs, mm, lat) /\ r \in Caches /\ ~Busy(cs[r]) /\ StateOK(cs, qs)
      /\ ClaimAlone(cs) /\ OneOwner(cs) /\ LastClaim(cs) /\ Chained(cs, qs)
  BY DEF SendStep, Asked, Protocol
<1>2. \A p, q \in Caches : Supplies(cs[p]) /\ Supplies(cs[q]) => p = q
  BY <1>1, OneSupplier
<1>3. \A p, q \in Caches : ~(Owns(cs[p]) /\ Claiming(cs[q]))
  BY <1>1, OwnerNoClaim
<1>4. Gives(cs, r, 0) => /\ \A p \in Caches : ~Claiming(cs[p])
                         /\ \A p \in Caches \ {r} : ~Owns(cs[p])
  BY <1>1, NoSupplier DEF Gives
<1>5. \A o \in Ports : o # 0 /\ Gives(cs, r, o) => o \in Caches \ {r} /\ Owns(cs[o])
  BY PortFacts DEF Gives
<1>6. \A o, p \in Ports : Gives(cs, r, o) /\ Gives(cs, r, p) => o = p
  BY <1>1, <1>4, <1>5 DEF OneOwner
<1>7. (\E o \in Ports : Gives(cs, r, o)) => \A p \in Caches : ~Claiming(cs[p])
  BY <1>3, <1>4, <1>5
<1>8. ~Claiming(cs[r])
  BY <1>1 DEF Claiming
<1>9. (\E p \in Caches : Claiming(cs[p])) =>
         \E p \in Caches \ {r} : Claiming(cs[p]) /\ ~Doomed(cs[p])
  BY <1>1, <1>8 DEF LastClaim
<1>10. ~(\E o \in Ports : Gives(cs, r, o)) =>
         \E p \in Caches \ {r} : Claiming(cs[p]) /\ ~Doomed(cs[p])
  <2> SUFFICES ASSUME ~(\E o \in Ports : Gives(cs, r, o))
               PROVE  \E p \in Caches \ {r} : Claiming(cs[p]) /\ ~Doomed(cs[p])
    OBVIOUS
  <2>1. PICK d \in Caches \ {r} : Supplies(cs[d])
    BY PortFacts DEF Gives
  <2>2. ~Owns(cs[d])
    BY PortFacts DEF Gives
  <2> QED BY <2>1, <2>2 DEF Supplies
<1>11. isValid(cs[r]) => \A p \in Caches : ~Claiming(cs[p])
  BY <1>1, <1>8 DEF ClaimAlone
<1> QED BY <1>2, <1>4, <1>6, <1>7, <1>8, <1>9, <1>10, <1>11

(* The queues: at most one new answer, to cache r, at the end of a queue.  *)
LEMMA GivenQueues ==
    ASSUME NEW cs2, NEW cs, NEW qs2, NEW qs, NEW mm, NEW lat, NEW r, NEW cmd, NEW ans,
           NEW sent, SendStep(cs2, cs, qs2, qs, mm, lat, r, cmd, ans, sent),
           NEW o \in Ports
    PROVE  /\ Len(qs[o]) \in Nat /\ DOMAIN qs[o] = 1 .. Len(qs[o])
           /\ \A i \in DOMAIN qs[o] : i \in DOMAIN qs2[o] /\ qs2[o][i] = qs[o][i] /\ i \in Nat
                                      /\ i # Len(qs[o]) + 1 /\ i < Len(qs[o]) + 1
           /\ ~(sent /\ Gives(cs, r, o)) => qs2[o] = qs[o]
           /\ sent /\ Gives(cs, r, o) =>
                /\ Len(qs2[o]) = Len(qs[o]) + 1
                /\ Len(qs[o]) + 1 \in DOMAIN qs2[o] /\ qs2[o][Len(qs[o]) + 1] = ans[o]
                /\ ans[o] \in Responses /\ ans[o].to = r /\ qs2[o] # <<>>
                /\ \A i \in DOMAIN qs2[o] : i \in DOMAIN qs[o] \/ i = Len(qs[o]) + 1
           /\ \A i \in DOMAIN qs[o] : qs[o][i].to \in Caches \ {r} /\ Busy(cs[qs[o][i].to])
<1>1. StateOK(cs, qs) /\ Protocol(cs, qs, mm, lat) /\ r \in Caches /\ ~Busy(cs[r])
  BY DEF SendStep, Asked, Protocol
<1>2. /\ qs[o] \in Seq(Responses) /\ Len(qs[o]) \in Nat /\ DOMAIN qs[o] = 1 .. Len(qs[o])
      /\ \A i \in DOMAIN qs[o] : qs[o][i] \in Responses /\ qs[o][i].to \in Caches
  BY <1>1, QueueTypes
<1>3. \A i \in DOMAIN qs[o] : i \in Nat /\ i # Len(qs[o]) + 1 /\ i < Len(qs[o]) + 1
  BY <1>2
<1>4. \A i \in DOMAIN qs[o] : Busy(cs[qs[o][i].to])
  BY <1>1 DEF Protocol, Routes, AnswerOK
<1>5. \A i \in DOMAIN qs[o] : qs[o][i].to \in Caches \ {r}
  BY <1>1, <1>2, <1>4
<1>6. ~(sent /\ Gives(cs, r, o)) => qs2[o] = qs[o]
  BY DEF SendStep
<1>7. sent /\ Gives(cs, r, o) => ans[o] \in Responses /\ ans[o].to = r
  BY DEF SendStep, GivenOK
<1>8. sent /\ Gives(cs, r, o) =>
        /\ Len(qs2[o]) = Len(qs[o]) + 1
        /\ Len(qs[o]) + 1 \in DOMAIN qs2[o] /\ qs2[o][Len(qs[o]) + 1] = ans[o]
        /\ \A i \in DOMAIN qs[o] : i \in DOMAIN qs2[o] /\ qs2[o][i] = qs[o][i]
        /\ \A i \in DOMAIN qs2[o] : i \in DOMAIN qs[o] \/ i = Len(qs[o]) + 1
  <2> SUFFICES ASSUME sent, Gives(cs, r, o)
               PROVE  /\ Len(qs2[o]) = Len(qs[o]) + 1
                      /\ Len(qs[o]) + 1 \in DOMAIN qs2[o] /\ qs2[o][Len(qs[o]) + 1] = ans[o]
                      /\ \A i \in DOMAIN qs[o] : i \in DOMAIN qs2[o] /\ qs2[o][i] = qs[o][i]
                      /\ \A i \in DOMAIN qs2[o] : i \in DOMAIN qs[o] \/ i = Len(qs[o]) + 1
    OBVIOUS
  <2>1. qs2[o] = Append(qs[o], ans[o])
    BY DEF SendStep
  <2> QED BY <1>2, <1>7, <2>1, AppendFacts
<1>9. sent /\ Gives(cs, r, o) => qs2[o] # <<>>
  BY <1>8
<1> QED BY <1>2, <1>3, <1>4, <1>5, <1>6, <1>7, <1>8, <1>9

LEMMA GivenReal ==
    ASSUME NEW cs2, NEW cs, NEW qs2, NEW qs, NEW mm, NEW lat, NEW r, NEW cmd, NEW ans,
           NEW sent, SendStep(cs2, cs, qs2, qs, mm, lat, r, cmd, ans, sent)
    PROVE  /\ ~Real(qs, r)
           /\ \A q : q # r => (Real(qs2, q) <=> Real(qs, q))
           /\ Real(qs2, r) <=> sent /\ \E o \in Ports : Gives(cs, r, o)
<1>1. \A o \in Ports :
           /\ \A i \in DOMAIN qs[o] : i \in DOMAIN qs2[o] /\ qs2[o][i] = qs[o][i]
           /\ ~(sent /\ Gives(cs, r, o)) => qs2[o] = qs[o]
           /\ sent /\ Gives(cs, r, o) =>
                /\ Len(qs[o]) + 1 \in DOMAIN qs2[o] /\ qs2[o][Len(qs[o]) + 1] = ans[o]
                /\ ans[o].to = r
                /\ \A i \in DOMAIN qs2[o] : i \in DOMAIN qs[o] \/ i = Len(qs[o]) + 1
           /\ \A i \in DOMAIN qs[o] : qs[o][i].to # r
  BY GivenQueues
<1>2. ~Real(qs, r)
  BY <1>1 DEF Real
<1>3. ASSUME NEW q, q # r PROVE Real(qs2, q) <=> Real(qs, q)
  BY <1>1, <1>3 DEF Real
<1>4. Real(qs2, r) <=> sent /\ \E o \in Ports : Gives(cs, r, o)
  BY <1>1 DEF Real
<1> QED BY <1>2, <1>3, <1>4

(* The answers that are on their way still suit the snooped caches.        *)
LEMMA AnswerAfter ==
    ASSUME NEW o, NEW a, NEW c \in CacheRecords, NEW lat, AnswerOK(o, a, c, lat),
           ReadyOK(c, lat), NEW r \in Caches, NEW cmd \in SnoopCmds, NEW c2,
           AfterOK(c2, c, r, cmd)
    PROVE  AnswerOK(o, a, c2, lat)
<1> DEFINE u == c.mshr.targets.list
           u2 == c2.mshr.targets.list
<1>1. Busy(c) /\ (Reading(c) => ~Claiming(c)) /\ r \in Nat
  BY PortFacts DEF AnswerOK, Reading, Claiming
<1>2. /\ Busy(c2)
      /\ Claiming(c2) <=> Claiming(c)
      /\ Reading(c2) <=> Reading(c)
      /\ Doomed(c2) <=> Doomed(c) \/ cmd # "ReadReq"
      /\ isValid(c2) <=> isValid(c)
      /\ isValid(c2) => c2.data = c.data
      /\ Meets(c2.mshr, c.mshr, cmd, r)
  BY <1>1 DEF AfterOK
<1>3. \A k \in DOMAIN u2 : IsLoad(u2[k]) => k \in DOMAIN u /\ u2[k] = u[k]
  <2>1. ~IsLoad(Target(cmd, "FromSnoop", 0, r))
    BY DEF Target, IsLoad
  <2>2. /\ \A k \in DOMAIN u : k \in DOMAIN u2 /\ u2[k] = u[k]
        /\ \A k \in DOMAIN u2 : k \in DOMAIN u \/ u2[k] = Target(cmd, "FromSnoop", 0, r)
    BY <1>2 DEF Meets
  <2> QED BY <2>1, <2>2
<1>4. \A k \in DOMAIN u : u[k].readyTime <= lat
  BY DEF ReadyOK
<1> HIDE DEF u, u2
<1>5. Claiming(c) => AnswerOK(o, a, c2, lat)
  BY <1>1, <1>2 DEF AnswerOK
<1>6. ASSUME Reading(c) PROVE AnswerOK(o, a, c2, lat)
  <2>1. /\ a.cmd = "ReadResp" \/ (a.cmd = "ReadRespWithInvalidate" /\ Doomed(c))
        /\ o # 0 => a.shared
        /\ a.data <= lat
        /\ Doomed(c) => \A k \in DOMAIN u : IsLoad(u[k]) => u[k].readyTime <= a.data
        /\ ~Doomed(c) => a.data = lat
        /\ a.memInhibit <=> o # 0
    BY <1>6 DEF AnswerOK, u
  <2>2. \A k \in DOMAIN u : IsLoad(u[k]) => u[k].readyTime <= a.data
    BY <1>4, <2>1
  <2>3. \A k \in DOMAIN u2 : IsLoad(u2[k]) => u2[k].readyTime <= a.data
    BY <1>3, <2>2
  <2> QED BY <1>1, <1>2, <1>6, <2>1, <2>3 DEF AnswerOK, u2
<1> QED BY <1>1, <1>5, <1>6 DEF Reading, Claiming

(* An owner has the latest data.                                           *)
LEMMA OwnerCurrent ==
    ASSUME NEW cs, NEW qs, NEW lat, StateOK(cs, qs), Current(cs, lat),
           NEW d \in Caches, Owns(cs[d])
    PROVE  Supply(cs[d]) = lat
<1>1. isDirty(cs[d]) => isValid(cs[d])
  BY Kinds
<1> QED BY <1>1 DEF Supply, Owns, Current

(* The new answer suits the request.                                       *)
LEMMA GivenAnswer ==
    ASSUME NEW cs2, NEW cs, NEW qs2, NEW qs, NEW mm, NEW lat, NEW r, NEW cmd, NEW ans,
           NEW sent, SendStep(cs2, cs, qs2, qs, mm, lat, r, cmd, ans, sent), sent,
           NEW o \in Ports, Gives(cs, r, o)
    PROVE  AnswerOK(o, ans[o], cs2[r], lat)
<1>1. /\ Protocol(cs, qs, mm, lat) /\ r \in Caches /\ ~Busy(cs[r]) /\ cmd \in SnoopCmds
      /\ StateOK(cs, qs) /\ Current(cs, lat) /\ MemCurrent(cs, mm, lat)
      /\ ~cs[r].writeback.pending /\ mm \in Nat /\ lat \in Nat
      /\ isValid(cs[r]) <=> cmd = "UpgradeReq"
  BY DEF SendStep, Asked, Protocol
<1>2. GivenOK(ans[o], cs, r, cmd, o, mm)
  BY DEF SendStep
<1>3. /\ Busy(cs2[r]) /\ ~Doomed(cs2[r])
      /\ Claiming(cs2[r]) <=> cmd # "ReadReq"
      /\ isValid(cs2[r]) <=> isValid(cs[r])
      /\ cs2[r].data = cs[r].data
  BY DEF SendStep, SentReg, isValid
<1>4. isValid(cs[r]) => cs[r].data = lat
  BY <1>1 DEF Current
<1>5. ~isValid(cs[r]) => (IF o = 0 THEN mm ELSE Supply(cs[o])) = lat
  <2> SUFFICES ASSUME ~isValid(cs[r]) PROVE (IF o = 0 THEN mm ELSE Supply(cs[o])) = lat
    OBVIOUS
  <2>1. CASE o # 0
    <3>1. o \in Caches /\ Owns(cs[o])
      BY <2>1, PortFacts DEF Gives
    <3> QED BY <1>1, <2>1, <3>1, OwnerCurrent
  <2>2. CASE o = 0
    <3>1. /\ \A p \in Caches : ~Claiming(cs[p])
          /\ \A p \in Caches \ {r} : ~Owns(cs[p])
      BY <2>2, WhoGives
    <3>2. ~Owns(cs[r])
      BY <1>1, Kinds
    <3> QED BY <1>1, <2>2, <3>1, <3>2 DEF MemCurrent
  <2> QED BY <2>1, <2>2
<1>6. CASE cmd = "ReadReq"
  <2>1. Reading(cs2[r]) /\ ~Claiming(cs2[r]) /\ ~isValid(cs[r])
    BY <1>1, <1>3, <1>6 DEF Reading, Claiming
  <2>2. ans[o].data = lat /\ ans[o].cmd = "ReadResp" /\ (o # 0 => ans[o].shared)
        /\ (ans[o].memInhibit <=> o # 0)
    BY <1>2, <1>5, <1>6, <2>1 DEF GivenOK
  <2>3. ans[o].data <= lat
    BY <1>1, <2>2
  <2> QED BY <1>3, <2>1, <2>2, <2>3 DEF AnswerOK
<1>7. CASE cmd # "ReadReq"
  <2>1. Claiming(cs2[r]) /\ ~Reading(cs2[r])
    BY <1>3, <1>7 DEF Reading, Claiming
  <2>2. ~ans[o].shared /\ (ans[o].memInhibit <=> o # 0)
    BY <1>2, <1>7 DEF GivenOK
  <2>3. CASE cmd = "UpgradeReq"
    BY <1>1, <1>2, <1>3, <1>4, <2>1, <2>2, <2>3 DEF AnswerOK, GivenOK
  <2>4. CASE cmd = "ReadExReq"
    BY <1>1, <1>2, <1>3, <1>5, <2>1, <2>2, <2>4 DEF AnswerOK, GivenOK
  <2> QED BY <1>1, <1>7, <2>3, <2>4 DEF SnoopCmds
<1> QED BY <1>6, <1>7

LEMMA SendState ==
    ASSUME NEW cs2, NEW cs, NEW qs2, NEW qs, NEW mm, NEW lat, NEW r, NEW cmd, NEW ans,
           NEW sent, SendStep(cs2, cs, qs2, qs, mm, lat, r, cmd, ans, sent),
           \A o \in Ports : o # 0 => qs2[o] = cs2[o].snoopRespQueue
    PROVE  StateOK(cs2, qs2)
<1>1. cs2 \in [Caches -> CacheRecords] /\ qs2 \in [Ports -> Seq(Responses)] /\ StateOK(cs, qs)
  BY DEF SendStep, Protocol
<1>2. CacheOK(cs2[r])
  BY <1>1 DEF SendStep, SentReg, StateOK, Asked
<1>3. \A d \in Caches \ {r} : CacheOK(cs2[d])
  BY DEF SendStep, AfterOK
<1> QED BY <1>1, <1>2, <1>3, PortFacts DEF StateOK

LEMMA SendRoutes ==
    ASSUME NEW cs2, NEW cs, NEW qs2, NEW qs, NEW mm, NEW lat, NEW r, NEW cmd, NEW ans,
           NEW sent, SendStep(cs2, cs, qs2, qs, mm, lat, r, cmd, ans, sent)
    PROVE  Routes(cs2, qs2, lat)
<1>1. /\ Protocol(cs, qs, mm, lat) /\ r \in Caches /\ cmd \in SnoopCmds
      /\ StateOK(cs, qs) /\ Routes(cs, qs, lat) /\ AllReady(cs, lat)
  BY DEF SendStep, Asked, Protocol
<1>2. \A o \in Ports :
         /\ \A i \in DOMAIN qs[o] : i \in DOMAIN qs2[o] /\ qs2[o][i] = qs[o][i]
                                    /\ i # Len(qs[o]) + 1
         /\ ~(sent /\ Gives(cs, r, o)) => qs2[o] = qs[o]
         /\ sent /\ Gives(cs, r, o) =>
              /\ qs2[o][Len(qs[o]) + 1] = ans[o] /\ ans[o].to = r
              /\ \A i \in DOMAIN qs2[o] : i \in DOMAIN qs[o] \/ i = Len(qs[o]) + 1
         /\ \A i \in DOMAIN qs[o] : qs[o][i].to \in Caches \ {r}
  BY GivenQueues
<1>3. \A o \in Ports : \A i \in DOMAIN qs2[o] :
         \/ i \in DOMAIN qs[o] /\ qs2[o][i] = qs[o][i] /\ qs2[o][i].to # r
         \/ /\ sent /\ Gives(cs, r, o) /\ i = Len(qs[o]) + 1 /\ qs2[o][i] = ans[o]
            /\ qs2[o][i].to = r
  BY <1>2
<1>4. ASSUME NEW o \in Ports, NEW i \in DOMAIN qs2[o]
      PROVE  AnswerOK(o, qs2[o][i], cs2[qs2[o][i].to], lat)
  <2>1. CASE i \in DOMAIN qs[o] /\ qs2[o][i] = qs[o][i]
    <3> DEFINE d == qs[o][i].to
    <3>1. d \in Caches \ {r} /\ AnswerOK(o, qs[o][i], cs[d], lat)
      BY <1>1, <1>2, <2>1 DEF Routes
    <3> HIDE DEF d
    <3>2. cs[d] \in CacheRecords /\ ReadyOK(cs[d], lat) /\ AfterOK(cs2[d], cs[d], r, cmd)
      BY <1>1, <3>1 DEF StateOK, AllReady, SendStep
    <3>3. AnswerOK(o, qs[o][i], cs2[d], lat)
      BY <1>1, <3>1, <3>2, AnswerAfter
    <3> QED BY <2>1, <3>3 DEF d
  <2>2. CASE sent /\ Gives(cs, r, o) /\ qs2[o][i] = ans[o] /\ qs2[o][i].to = r
    BY <2>2, GivenAnswer
  <2> QED BY <1>3, <2>1, <2>2
<1>5. \A o, p \in Ports : Gives(cs, r, o) /\ Gives(cs, r, p) => o = p
  BY WhoGives
<1>6. ASSUME NEW o \in Ports, NEW p \in Ports, NEW i \in DOMAIN qs2[o], NEW j \in DOMAIN qs2[p],
             qs2[o][i].to = qs2[p][j].to
      PROVE  o = p /\ i = j
  <2>1. CASE qs2[o][i].to = r
    <3>1. Gives(cs, r, o) /\ i = Len(qs[o]) + 1
      BY <1>3, <2>1
    <3>2. qs2[p][j].to = r
      BY <1>6, <2>1
    <3>3. Gives(cs, r, p) /\ j = Len(qs[p]) + 1
      BY <1>3, <3>2
    <3> QED BY <1>5, <3>1, <3>3
  <2>2. CASE qs2[o][i].to # r
    BY <1>1, <1>3, <1>6, <2>2 DEF Routes
  <2> QED BY <2>1, <2>2
<1> QED BY <1>4, <1>6 DEF Routes

(* What a request changes in the caches.                                   *)
SentFacts(cs2, cs, qs2, qs, r, cmd, sent) ==
    /\ \A d \in Caches :
          /\ Busy(cs2[d]) <=> Busy(cs[d]) \/ (d = r /\ sent)
          /\ Claiming(cs2[d]) <=> Claiming(cs[d]) \/ (d = r /\ sent /\ cmd # "ReadReq")
          /\ Reading(cs2[d]) <=> Reading(cs[d]) \/ (d = r /\ sent /\ cmd = "ReadReq")
          /\ Busy(cs[d]) => (Doomed(cs2[d]) <=> Doomed(cs[d]) \/ cmd # "ReadReq")
          /\ Busy(cs[d]) => (Lowered(cs2[d]) <=>
                 (Lowered(cs[d]) \/ (~Doomed(cs[d]) /\ cmd = "ReadReq")))
          /\ Claiming(cs[d]) => Busy(cs[d])
          /\ Reading(cs[d]) <=> Busy(cs[d]) /\ ~Claiming(cs[d])
    /\ sent => ~Doomed(cs2[r]) /\ ~Lowered(cs2[r])
    /\ r \in Caches /\ cmd \in SnoopCmds /\ ~Busy(cs[r]) /\ ~Claiming(cs[r]) /\ ~Reading(cs[r])
    /\ \A d \in Caches \ {r} :
          /\ isValid(cs2[d]) <=> isValid(cs[d]) /\ (Busy(cs[d]) \/ cmd = "ReadReq")
          /\ cs2[d].writeback.pending <=> cs[d].writeback.pending /\ cmd = "ReadReq"
          /\ ~isWritable(cs2[d])
          /\ cs[d].status = {} => cs2[d].status = {}
          /\ Owns(cs2[d]) <=> Owns(cs[d]) /\ cmd = "ReadReq"
    /\ ~isWritable(cs2[r]) /\ ~cs2[r].writeback.pending /\ ~cs[r].writeback.pending
    /\ Owns(cs2[r]) <=> Owns(cs[r]) /\ ~sent
    /\ cs2[r].status = cs[r].status
    /\ Owns(cs[r]) => isValid(cs[r])
    /\ isValid(cs2[r]) <=> isValid(cs[r])
    /\ isValid(cs[r]) <=> cmd = "UpgradeReq"
    /\ \A p \in Caches : \A q : Promised(cs2, p, q) <=>
          Promised(cs, p, q) \/ (q = r /\ Claiming(cs[p]) /\ ~Doomed(cs[p]))
    /\ \A q : ~Promised(cs2, r, q) /\ ~Promised(cs, r, q)
    /\ \A p \in Caches : ~Promised(cs, p, r)
    /\ ~Real(qs, r)
    /\ \A q : q # r => (Real(qs2, q) <=> Real(qs, q))
    /\ Real(qs2, r) <=> sent /\ \E o \in Ports : Gives(cs, r, o)

LEMMA SendFacts ==
    ASSUME NEW cs2, NEW cs, NEW qs2, NEW qs, NEW mm, NEW lat, NEW r, NEW cmd, NEW ans,
           NEW sent, SendStep(cs2, cs, qs2, qs, mm, lat, r, cmd, ans, sent)
    PROVE  SentFacts(cs2, cs, qs2, qs, r, cmd, sent)
<1>1. /\ StateOK(cs, qs) /\ r \in Caches /\ cmd \in SnoopCmds /\ ~Busy(cs[r]) /\ Owed(cs, qs)
      /\ ~cs[r].writeback.pending /\ HasMSHR(cs[r])
      /\ isValid(cs[r]) <=> cmd = "UpgradeReq"
  BY DEF SendStep, Asked, Protocol
<1>2. \A d \in Caches : /\ Claiming(cs[d]) => Busy(cs[d])
                        /\ Reading(cs[d]) <=> Busy(cs[d]) /\ ~Claiming(cs[d])
  BY <1>1, Kinds
<1>3. ~Busy(cs[r]) /\ ~Claiming(cs[r]) /\ ~Reading(cs[r])
  BY <1>1, <1>2
<1>4. /\ Busy(cs2[r]) <=> sent
      /\ Claiming(cs2[r]) <=> sent /\ cmd # "ReadReq"
      /\ Reading(cs2[r]) <=> sent /\ cmd = "ReadReq"
      /\ sent => ~Doomed(cs2[r]) /\ ~Lowered(cs2[r])
  BY <1>3 DEF SendStep, SentReg, Claiming, Reading
<1>5. /\ cs2[r].status = cs[r].status /\ cs2[r].writeback = cs[r].writeback
      /\ cs2[r].mshr.targets = cs[r].mshr.targets
  BY DEF SendStep, SentReg
<1>6. ~isWritable(cs[r]) /\ (Owns(cs[r]) => isValid(cs[r]))
  BY <1>1, Kinds
<1>7. /\ ~isWritable(cs2[r]) /\ ~cs2[r].writeback.pending
      /\ isValid(cs2[r]) <=> isValid(cs[r])
      /\ Owns(cs2[r]) <=> Owns(cs[r]) /\ ~sent
  BY <1>1, <1>4, <1>5, <1>6 DEF isWritable, isValid, Owns, isDirty
<1>8. ASSUME NEW d \in Caches \ {r}
      PROVE  /\ Busy(cs2[d]) <=> Busy(cs[d])
             /\ Claiming(cs2[d]) <=> Claiming(cs[d])
             /\ Reading(cs2[d]) <=> Reading(cs[d])
             /\ Busy(cs[d]) => (Doomed(cs2[d]) <=> Doomed(cs[d]) \/ cmd # "ReadReq")
             /\ Busy(cs[d]) => (Lowered(cs2[d]) <=>
                 (Lowered(cs[d]) \/ (~Doomed(cs[d]) /\ cmd = "ReadReq")))
             /\ isValid(cs2[d]) <=> isValid(cs[d]) /\ (Busy(cs[d]) \/ cmd = "ReadReq")
             /\ cs2[d].writeback.pending <=> cs[d].writeback.pending /\ cmd = "ReadReq"
             /\ ~isWritable(cs2[d])
             /\ cs[d].status = {} => cs2[d].status = {}
             /\ Owns(cs2[d]) <=> Owns(cs[d]) /\ cmd = "ReadReq"
             /\ Meets(cs2[d].mshr, cs[d].mshr, cmd, r)
  <2>1. AfterOK(cs2[d], cs[d], r, cmd)
    BY DEF SendStep
  <2> QED BY <2>1 DEF AfterOK
<1>9. \A q : ~Promised(cs2, r, q) /\ ~Promised(cs, r, q)
  BY <1>3, <1>4 DEF Promised, SendStep, SentReg
<1>10. ASSUME NEW p \in Caches \ {r}, NEW q
       PROVE  Promised(cs2, p, q) <=>
                Promised(cs, p, q) \/ (q = r /\ Claiming(cs[p]) /\ ~Doomed(cs[p]))
  <2> DEFINE u == cs[p].mshr.targets.list
             u2 == cs2[p].mshr.targets.list
             t == Target(cmd, "FromSnoop", 0, r)
             n == Len(u) + 1
  <2>1. Meets(cs2[p].mshr, cs[p].mshr, cmd, r) /\ (Claiming(cs2[p]) <=> Claiming(cs[p]))
    BY <1>8
  <2>2. t.order = r /\ IsSnoop(t)
    BY <1>1 DEF Target, IsSnoop, IsRead, IsClaim, SnoopCmds
  <2>3. ASSUME Claiming(cs[p])
        PROVE  /\ \A k \in DOMAIN u : k \in DOMAIN u2 /\ u2[k] = u[k]
               /\ \A k \in DOMAIN u2 : k \in DOMAIN u \/ (u2[k] = t /\ ~Doomed(cs[p]))
               /\ ~Doomed(cs[p]) => n \in DOMAIN u2 /\ u2[n] = t
    <3>1. cs[p].mshr.inService /\ cs[p].mshr.pendingDirty
      BY <2>3 DEF Claiming, Busy
    <3> QED BY <2>1, <3>1 DEF Meets, Doomed
  <2>4. Promised(cs, p, q) <=> Claiming(cs[p]) /\ \E k \in DOMAIN u : IsSnoop(u[k]) /\ u[k].order = q
    BY DEF Promised
  <2>5. Promised(cs2, p, q) <=>
          Claiming(cs[p]) /\ \E k \in DOMAIN u2 : IsSnoop(u2[k]) /\ u2[k].order = q
    BY <2>1 DEF Promised
  <2> HIDE DEF u, u2, t, n
  <2> QED BY <2>2, <2>3, <2>4, <2>5
<1>11. \A p \in Caches : ~Promised(cs, p, r)
  <2> SUFFICES ASSUME NEW p \in Caches, Promised(cs, p, r) PROVE FALSE
    OBVIOUS
  <2> DEFINE u == cs[p].mshr.targets.list
  <2>1. PICK k \in DOMAIN u : IsSnoop(u[k]) /\ u[k].order = r
    BY DEF Promised
  <2>2. OwedOK(cs, qs, p, u[k])
    BY <1>1, <2>1 DEF Owed, Promised
  <2>3. Reading(cs[r]) \/ Claiming(cs[r])
    BY <2>1, <2>2 DEF OwedOK, IsSnoop
  <2> QED BY <1>3, <2>3
<1>12. /\ ~Real(qs, r)
       /\ \A q : q # r => (Real(qs2, q) <=> Real(qs, q))
       /\ Real(qs2, r) <=> sent /\ \E o \in Ports : Gives(cs, r, o)
  BY GivenReal
<1>13. \A d \in Caches :
          /\ Busy(cs2[d]) <=> Busy(cs[d]) \/ (d = r /\ sent)
          /\ Claiming(cs2[d]) <=> Claiming(cs[d]) \/ (d = r /\ sent /\ cmd # "ReadReq")
          /\ Reading(cs2[d]) <=> Reading(cs[d]) \/ (d = r /\ sent /\ cmd = "ReadReq")
          /\ Busy(cs[d]) => (Doomed(cs2[d]) <=> Doomed(cs[d]) \/ cmd # "ReadReq")
          /\ Busy(cs[d]) => (Lowered(cs2[d]) <=>
                 (Lowered(cs[d]) \/ (~Doomed(cs[d]) /\ cmd = "ReadReq")))
  BY <1>3, <1>4, <1>8
<1>14. \A p \in Caches : \A q : Promised(cs2, p, q) <=>
          Promised(cs, p, q) \/ (q = r /\ Claiming(cs[p]) /\ ~Doomed(cs[p]))
  BY <1>3, <1>9, <1>10
<1> QED BY <1>1, <1>2, <1>3, <1>4, <1>5, <1>6, <1>7, <1>8, <1>9, <1>11, <1>12, <1>13, <1>14
        DEF SentFacts

(* The promises: the claiming cache that supplies the block saves the      *)
(* request.                                                                *)
LEMMA SendOwed ==
    ASSUME NEW cs2, NEW cs, NEW qs2, NEW qs, NEW mm, NEW lat, NEW r, NEW cmd, NEW ans,
           NEW sent, SendStep(cs2, cs, qs2, qs, mm, lat, r, cmd, ans, sent)
    PROVE  Owed(cs2, qs2)
<1>1. SentFacts(cs2, cs, qs2, qs, r, cmd, sent)
  BY SendFacts
<1>2. /\ (\E o \in Ports : Gives(cs, r, o)) => \A p \in Caches : ~Claiming(cs[p])
      /\ isValid(cs[r]) => \A p \in Caches : ~Claiming(cs[p])
  BY WhoGives
<1>3. \A p \in Caches : Claiming(cs[p]) => sent /\ ~Real(qs2, r) /\ cmd # "UpgradeReq"
  <2>1. ~sent => \E o \in Ports : Gives(cs, r, o)
    BY PortFacts DEF SendStep
  <2> QED BY <1>1, <1>2, <2>1 DEF SentFacts
<1>4. Owed(cs, qs)
  BY DEF SendStep, Protocol
<1> SUFFICES ASSUME NEW p \in Caches, Claiming(cs2[p])
             PROVE  /\ SavedOK(cs2[p].mshr)
                    /\ \A k \in DOMAIN cs2[p].mshr.targets.list :
                         IsSnoop(cs2[p].mshr.targets.list[k]) =>
                            OwedOK(cs2, qs2, p, cs2[p].mshr.targets.list[k])
  BY DEF Owed
<1>5. CASE p = r
  <2>1. sent
    BY <1>1, <1>5 DEF SentFacts
  <2>2. \A k \in DOMAIN cs2[p].mshr.targets.list : ~IsSnoop(cs2[p].mshr.targets.list[k])
    BY <1>5, <2>1 DEF SendStep, SentReg
  <2> QED BY <2>2 DEF SavedOK
<1>6. CASE p # r
  <2> DEFINE u == cs[p].mshr.targets.list
             u2 == cs2[p].mshr.targets.list
             t == Target(cmd, "FromSnoop", 0, r)
  <2>1. Claiming(cs[p]) /\ Busy(cs[p])
    BY <1>1, <1>6 DEF SentFacts
  <2>2. Meets(cs2[p].mshr, cs[p].mshr, cmd, r)
    BY <1>6 DEF SendStep, AfterOK
  <2>3. /\ \A k \in DOMAIN u : k \in DOMAIN u2 /\ u2[k] = u[k]
        /\ \A k \in DOMAIN u2 : \/ k \in DOMAIN u
                                \/ k = Len(u) + 1 /\ u2[k] = t /\ ~Doomed(cs[p])
    BY <2>2 DEF Meets, Doomed
  <2>4. /\ SavedOK(cs[p].mshr)
        /\ \A k \in DOMAIN u : IsSnoop(u[k]) => OwedOK(cs, qs, p, u[k])
    BY <1>4, <2>1 DEF Owed
  <2>5. /\ \A k \in DOMAIN u : IsSnoop(u[k]) =>
              u[k].order \in Caches /\ (IsClaim(u[k]) => u[k].cmd = "ReadExReq")
        /\ \A j, k \in DOMAIN u :
              IsSnoop(u[j]) /\ IsSnoop(u[k]) /\ u[j].order = u[k].order => j = k
    BY <2>4 DEF SavedOK
  <2>6. t.order = r /\ t.cmd = cmd /\ IsSnoop(t) /\ (IsRead(t) <=> cmd = "ReadReq")
        /\ (IsClaim(t) <=> cmd # "ReadReq")
    BY <1>1 DEF Target, IsSnoop, IsRead, IsClaim, SnoopCmds, SentFacts
  <2>7. \A k \in DOMAIN u : IsSnoop(u[k]) => u[k].order # r
    <3>1. \A k \in DOMAIN u : IsSnoop(u[k]) => Reading(cs[u[k].order]) \/ Claiming(cs[u[k].order])
      BY <2>4 DEF OwedOK, IsSnoop
    <3> QED BY <1>1, <3>1 DEF SentFacts
  <2>8. SavedOK(cs2[p].mshr)
    <3>1. r \in Caches /\ cmd # "UpgradeReq" /\ cmd \in SnoopCmds
      BY <1>1, <1>3, <2>1 DEF SentFacts
    <3>2. IsClaim(t) => t.cmd = "ReadExReq"
      BY <2>6, <3>1 DEF SnoopCmds
    <3> HIDE DEF u, u2, t
    <3>3. \A k \in DOMAIN u2 : IsSnoop(u2[k]) =>
              u2[k].order \in Caches /\ (IsClaim(u2[k]) => u2[k].cmd = "ReadExReq")
      BY <2>3, <2>5, <2>6, <3>1, <3>2
    <3>4. \A j, k \in DOMAIN u2 :
              IsSnoop(u2[j]) /\ IsSnoop(u2[k]) /\ u2[j].order = u2[k].order => j = k
      BY <2>3, <2>5, <2>6, <2>7
    <3> QED BY <3>3, <3>4 DEF SavedOK, u2
  <2>9. ASSUME NEW k \in DOMAIN u, IsSnoop(u[k]) PROVE OwedOK(cs2, qs2, p, u[k])
    <3> DEFINE q == u[k].order
    <3>1. OwedOK(cs, qs, p, u[k]) /\ q # r
      BY <2>4, <2>7, <2>9
    <3> HIDE DEF u
    <3>2. q \in Caches \ {p} /\ ~Real(qs, q)
          /\ (IsRead(u[k]) => Reading(cs[q]) /\ (Doomed(cs[p]) => Doomed(cs[q])))
          /\ (IsClaim(u[k]) => Claiming(cs[q]))
      BY <3>1 DEF OwedOK
    <3> HIDE DEF q
    <3>3. ~Real(qs2, q)
      BY <1>1, <3>1, <3>2 DEF SentFacts
    <3>4. /\ IsRead(u[k]) => Reading(cs2[q]) /\ (Doomed(cs2[p]) => Doomed(cs2[q]))
          /\ IsClaim(u[k]) => Claiming(cs2[q])
      BY <1>1, <2>1, <3>2 DEF SentFacts
    <3> QED BY <3>2, <3>3, <3>4 DEF OwedOK, q
  <2>10. ~Doomed(cs[p]) => OwedOK(cs2, qs2, p, t)
    <3>1. sent /\ ~Real(qs2, r) /\ r \in Caches \ {p}
      BY <1>1, <1>3, <1>6, <2>1 DEF SentFacts
    <3> HIDE DEF t
    <3>2. ~Doomed(cs[p]) /\ cmd = "ReadReq" => ~Doomed(cs2[p])
      BY <1>1, <2>1 DEF SentFacts
    <3>3. /\ cmd = "ReadReq" => Reading(cs2[r])
          /\ cmd # "ReadReq" => Claiming(cs2[r])
      BY <1>1, <3>1 DEF SentFacts
    <3> QED BY <2>6, <3>1, <3>2, <3>3 DEF OwedOK
  <2> HIDE DEF u, u2, t
  <2>11. \A k \in DOMAIN u2 : IsSnoop(u2[k]) => OwedOK(cs2, qs2, p, u2[k])
    BY <2>3, <2>9, <2>10
  <2> QED BY <2>8, <2>11 DEF u2
<1> QED BY <1>5, <1>6

LEMMA SendPromises ==
    ASSUME NEW cs2, NEW cs, NEW qs2, NEW qs, NEW mm, NEW lat, NEW r, NEW cmd, NEW ans,
           NEW sent, SendStep(cs2, cs, qs2, qs, mm, lat, r, cmd, ans, sent)
    PROVE  OwedOnce(cs2) /\ Expected(cs2, qs2) /\ UpgradeReal(cs2, qs2)
<1>1. SentFacts(cs2, cs, qs2, qs, r, cmd, sent)
  BY SendFacts
<1>2. /\ isValid(cs[r]) => \A p \in Caches : ~Claiming(cs[p])
      /\ ~(\E o \in Ports : Gives(cs, r, o)) =>
            \E p \in Caches \ {r} : Claiming(cs[p]) /\ ~Doomed(cs[p])
      /\ \A p, q \in Caches : Supplies(cs[p]) /\ Supplies(cs[q]) => p = q
  BY WhoGives
<1>3. OwedOnce(cs) /\ Expected(cs, qs) /\ UpgradeReal(cs, qs)
  BY DEF SendStep, Protocol
<1>4. OwedOnce(cs2)
  <2>1. \A p, q \in Caches : Claiming(cs[p]) /\ ~Doomed(cs[p]) /\ Claiming(cs[q])
                             /\ ~Doomed(cs[q]) => p = q
    BY <1>2 DEF Supplies
  <2> QED BY <1>1, <1>3, <2>1 DEF OwedOnce, SentFacts
<1>5. Expected(cs2, qs2)
  BY <1>1, <1>2, <1>3 DEF Expected, SentFacts
<1>6. UpgradeReal(cs2, qs2)
  BY <1>1, <1>2, <1>3 DEF UpgradeReal, SentFacts
<1> QED BY <1>4, <1>5, <1>6

LEMMA SendAlone ==
    ASSUME NEW cs2, NEW cs, NEW qs2, NEW qs, NEW mm, NEW lat, NEW r, NEW cmd, NEW ans,
           NEW sent, SendStep(cs2, cs, qs2, qs, mm, lat, r, cmd, ans, sent)
    PROVE  /\ ClaimAlone(cs2) /\ ReadAlone(cs2, qs2) /\ WriteAlone(cs2) /\ OneOwner(cs2)
           /\ OneRealClaim(cs2, qs2) /\ LastClaim(cs2)
<1>1. SentFacts(cs2, cs, qs2, qs, r, cmd, sent)
  BY SendFacts
<1>2. /\ (\E o \in Ports : Gives(cs, r, o)) => \A p \in Caches : ~Claiming(cs[p])
      /\ isValid(cs[r]) => \A p \in Caches : ~Claiming(cs[p])
  BY WhoGives
<1>3. ~sent => \A p \in Caches : ~Claiming(cs[p])
  BY <1>2, PortFacts DEF SendStep
<1>4. /\ ClaimAlone(cs) /\ ReadAlone(cs, qs) /\ OneOwner(cs)
      /\ OneRealClaim(cs, qs) /\ LastClaim(cs)
  BY DEF SendStep, Protocol
<1>5. ClaimAlone(cs2)
  BY <1>1, <1>2, <1>4 DEF ClaimAlone, SentFacts
<1>6. \A p \in Caches : ~isWritable(cs2[p])
  BY <1>1 DEF SentFacts
<1>7. ReadAlone(cs2, qs2)
  BY <1>1, <1>2, <1>4, <1>6 DEF ReadAlone, SentFacts
<1>8. WriteAlone(cs2)
  BY <1>6 DEF WriteAlone
<1>9. OneOwner(cs2)
  BY <1>1, <1>4 DEF OneOwner, SentFacts
<1>10. OneRealClaim(cs2, qs2)
  BY <1>1, <1>2, <1>4 DEF OneRealClaim, SentFacts
<1>11. LastClaim(cs2)
  BY <1>1, <1>3, <1>4 DEF LastClaim, SentFacts
<1> QED BY <1>5, <1>7, <1>8, <1>9, <1>10, <1>11

LEMMA SendQueues ==
    ASSUME NEW cs2, NEW cs, NEW qs2, NEW qs, NEW mm, NEW lat, NEW r, NEW cmd, NEW ans,
           NEW sent, SendStep(cs2, cs, qs2, qs, mm, lat, r, cmd, ans, sent)
    PROVE  ClaimLast(cs2, qs2) /\ OwnersAnswer(cs2, qs2)
<1>1. SentFacts(cs2, cs, qs2, qs, r, cmd, sent)
  BY SendFacts
<1>2. /\ (\E o \in Ports : Gives(cs, r, o)) => \A p \in Caches : ~Claiming(cs[p])
      /\ Gives(cs, r, 0) => \A p \in Caches \ {r} : ~Owns(cs[p])
  BY WhoGives
<1>3. \A o \in Ports :
         /\ \A i \in DOMAIN qs[o] : i \in DOMAIN qs2[o] /\ qs2[o][i] = qs[o][i]
         /\ ~(sent /\ Gives(cs, r, o)) => qs2[o] = qs[o]
         /\ sent /\ Gives(cs, r, o) =>
              /\ Len(qs2[o]) = Len(qs[o]) + 1 /\ Len(qs[o]) + 1 \in DOMAIN qs2[o]
              /\ qs2[o][Len(qs[o]) + 1] = ans[o] /\ ans[o].to = r
              /\ \A i \in DOMAIN qs2[o] : i \in DOMAIN qs[o] \/ i = Len(qs[o]) + 1
         /\ \A i \in DOMAIN qs[o] : qs[o][i].to \in Caches \ {r}
  BY GivenQueues
<1>4. ClaimLast(cs, qs) /\ OwnersAnswer(cs, qs) /\ qs[r] = <<>>
  BY DEF SendStep, Protocol, Asked
<1>5. \A o \in Caches : Gives(cs, r, o) <=> o # r /\ Owns(cs[o])
  BY PortFacts DEF Gives
<1>6. ASSUME NEW o \in Caches, NEW i \in DOMAIN qs2[o], Claiming(cs2[qs2[o][i].to])
      PROVE  i = Len(qs2[o])
  <2>0. o \in Ports
    BY PortFacts
  <2>1. CASE i \in DOMAIN qs[o]
    <3>1. Claiming(cs[qs[o][i].to])
      BY <1>1, <1>3, <1>6, <2>0, <2>1 DEF SentFacts
    <3>2. ~Gives(cs, r, o)
      BY <1>2, <1>3, <2>0, <2>1, <3>1
    <3> QED BY <1>3, <1>4, <2>0, <2>1, <3>1, <3>2 DEF ClaimLast
  <2>2. CASE i \notin DOMAIN qs[o]
    BY <1>3, <2>0, <2>2
  <2> QED BY <2>1, <2>2
<1>7. ASSUME NEW o \in Caches, qs2[o] # <<>>
      PROVE  Owns(cs2[o]) \/ \E i \in DOMAIN qs2[o] : Claiming(cs2[qs2[o][i].to])
  <2>0. o \in Ports
    BY PortFacts
  <2>1. CASE o = r
    BY <1>3, <1>4, <1>5, <1>7, <2>0, <2>1
  <2>2. CASE o # r /\ sent /\ Owns(cs[o])
    <3>1. Gives(cs, r, o)
      BY <1>5, <2>2
    <3>2. Len(qs[o]) + 1 \in DOMAIN qs2[o] /\ qs2[o][Len(qs[o]) + 1].to = r
      BY <1>3, <2>0, <2>2, <3>1
    <3>3. cmd # "ReadReq" => Claiming(cs2[r])
      BY <1>1, <2>2 DEF SentFacts
    <3>4. cmd = "ReadReq" => Owns(cs2[o])
      BY <1>1, <2>2 DEF SentFacts
    <3> QED BY <3>2, <3>3, <3>4
  <2>3. CASE o # r /\ ~(sent /\ Owns(cs[o]))
    <3>1. qs2[o] = qs[o]
      BY <1>3, <1>5, <2>0, <2>3
    <3>2. ~sent => Gives(cs, r, 0)
      BY DEF SendStep
    <3>3. ~Owns(cs[o])
      BY <1>2, <2>3, <3>2
    <3>4. PICK i \in DOMAIN qs[o] : Claiming(cs[qs[o][i].to])
      BY <1>4, <1>7, <3>1, <3>3 DEF OwnersAnswer
    <3>5. Claiming(cs2[qs[o][i].to])
      BY <1>1, <1>3, <2>0, <3>4 DEF SentFacts
    <3> QED BY <3>1, <3>5
  <2> QED BY <2>1, <2>2, <2>3
<1> QED BY <1>6, <1>7 DEF ClaimLast, OwnersAnswer

LEMMA SendOnly ==
    ASSUME NEW cs2, NEW cs, NEW qs2, NEW qs, NEW mm, NEW lat, NEW r, NEW cmd, NEW ans,
           NEW sent, SendStep(cs2, cs, qs2, qs, mm, lat, r, cmd, ans, sent)
    PROVE  OnlyCopy(cs2, qs2)
<1>1. SentFacts(cs2, cs, qs2, qs, r, cmd, sent)
  BY SendFacts
<1>2. /\ (\E o \in Ports : Gives(cs, r, o)) => \A p \in Caches : ~Claiming(cs[p])
      /\ Gives(cs, r, 0) => \A p \in Caches \ {r} : ~Owns(cs[p])
  BY WhoGives
<1>3. \A o \in Ports :
         /\ Len(qs[o]) \in Nat /\ DOMAIN qs[o] = 1 .. Len(qs[o])
         /\ \A i \in DOMAIN qs[o] : i \in DOMAIN qs2[o] /\ qs2[o][i] = qs[o][i]
                                    /\ i \in Nat /\ i < Len(qs[o]) + 1
         /\ ~(sent /\ Gives(cs, r, o)) => qs2[o] = qs[o]
         /\ sent /\ Gives(cs, r, o) =>
              /\ qs2[o][Len(qs[o]) + 1] = ans[o] /\ ans[o].to = r
              /\ \A i \in DOMAIN qs2[o] : i \in DOMAIN qs[o] \/ i = Len(qs[o]) + 1
         /\ \A i \in DOMAIN qs[o] : qs[o][i].to \in Caches \ {r} /\ Busy(cs[qs[o][i].to])
  BY GivenQueues
<1>4. StateOK(cs, qs) /\ OnlyCopy(cs, qs) /\ OwnersAnswer(cs, qs) /\ qs[r] = <<>>
  BY DEF SendStep, Protocol, Asked
<1>5. \A o \in Caches : Gives(cs, r, o) <=> o # r /\ Owns(cs[o])
  BY PortFacts DEF Gives
<1>6. \A p \in Caches : p \in Ports
  BY PortFacts
<1>7. /\ DOMAIN qs[0] = 1 .. Len(qs[0]) /\ Len(qs[0]) \in Nat
      /\ \A i \in DOMAIN qs2[0] :
           \/ i \in DOMAIN qs[0] /\ qs2[0][i] = qs[0][i]
           \/ sent /\ Gives(cs, r, 0) /\ i = Len(qs[0]) + 1 /\ qs2[0][i] = ans[0]
              /\ ans[0].to = r
      /\ \A i \in DOMAIN qs[0] : /\ qs2[0][i] = qs[0][i] /\ qs[0][i].to \in Caches \ {r}
                                 /\ Busy(cs[qs[0][i].to])
  BY <1>3, PortFacts
<1>8. \A p \in Caches : /\ ~isValid(cs[p]) <=> cs[p].status = {}
                        /\ Reading(cs[p]) => ~isValid(cs[p])
                        /\ Owns(cs[p]) => isValid(cs[p]) \/ cs[p].writeback.pending
  BY <1>4, Kinds
<1> SUFFICES ASSUME NEW i \in DOMAIN qs2[0], Unshared(cs2, qs2, i)
             PROVE  /\ \A p \in Caches : /\ cs2[p].status = {} /\ ~cs2[p].writeback.pending
                                         /\ qs2[p] = <<>>
                    /\ \A j \in DOMAIN qs2[0] : j < i =>
                          Reading(cs2[qs2[0][j].to]) /\ Doomed(cs2[qs2[0][j].to])
                    /\ ~Doomed(cs2[qs2[0][i].to]) /\ ~Lowered(cs2[qs2[0][i].to]) =>
                          \A q \in Caches \ {qs2[0][i].to} :
                              Busy(cs2[q]) => Reading(cs2[q]) /\ Doomed(cs2[q])
  BY DEF OnlyCopy
<1>9. \A j \in DOMAIN qs2[0] : j < i => j \in DOMAIN qs[0] /\ qs2[0][j] = qs[0][j]
  <2> SUFFICES ASSUME NEW j \in DOMAIN qs2[0], j < i, j \notin DOMAIN qs[0] PROVE FALSE
    BY <1>7
  <2>1. j = Len(qs[0]) + 1
    BY <1>7
  <2>2. i \in Nat /\ i <= Len(qs[0]) + 1
    BY <1>7
  <2> QED BY <1>7, <2>1, <2>2
<1>10. CASE i \in DOMAIN qs[0] /\ qs2[0][i] = qs[0][i]
  <2> DEFINE d == qs[0][i].to
  <2>1. d \in Caches \ {r} /\ Busy(cs[d])
    BY <1>7, <1>10
  <2>2. Unshared(cs, qs, i)
    BY <1>1, <1>10, <2>1 DEF Unshared, SentFacts
  <2>3. /\ \A p \in Caches : cs[p].status = {} /\ ~cs[p].writeback.pending /\ qs[p] = <<>>
        /\ \A j \in DOMAIN qs[0] : j < i => Reading(cs[qs[0][j].to]) /\ Doomed(cs[qs[0][j].to])
    BY <1>4, <1>10, <2>2 DEF OnlyCopy
  <2>4. \A p \in Caches : ~Owns(cs[p])
    BY <1>8, <2>3
  <2>5. \A p \in Caches : cs2[p].status = {} /\ ~cs2[p].writeback.pending
    BY <1>1, <2>3 DEF SentFacts
  <2>6. \A p \in Caches : qs2[p] = <<>>
    BY <1>3, <1>5, <1>6, <2>3, <2>4
  <2>7. \A j \in DOMAIN qs2[0] : j < i =>
            Reading(cs2[qs2[0][j].to]) /\ Doomed(cs2[qs2[0][j].to])
    BY <1>1, <1>7, <1>9, <2>3 DEF SentFacts
  <2>8. Doomed(cs2[d]) \/ Lowered(cs2[d])
    BY <1>1, <2>1 DEF SentFacts
  <2> QED BY <1>10, <2>5, <2>6, <2>7, <2>8
<1>11. CASE /\ sent /\ Gives(cs, r, 0) /\ i = Len(qs[0]) + 1 /\ qs2[0][i] = ans[0]
            /\ ans[0].to = r
  <2>1. cmd = "ReadReq" /\ ~ans[0].shared /\ \A p \in Caches : ~Claiming(cs[p])
    BY <1>1, <1>2, <1>11, PortFacts DEF Unshared, SentFacts
  <2>2. GivenOK(ans[0], cs, r, cmd, 0, mm)
    BY <1>11, PortFacts DEF SendStep
  <2>3. \A d \in Caches \ {r} : ~Shares(cs[d])
    BY <2>1, <2>2 DEF GivenOK
  <2>4. \A d \in Caches \ {r} : /\ Busy(cs[d]) => Reading(cs[d]) /\ Doomed(cs[d])
                                /\ cs[d].status = {} /\ ~cs[d].writeback.pending
    <3> SUFFICES ASSUME NEW d \in Caches \ {r}
                 PROVE  /\ Busy(cs[d]) => Reading(cs[d]) /\ Doomed(cs[d])
                        /\ cs[d].status = {} /\ ~cs[d].writeback.pending
      OBVIOUS
    <3>1. CASE Busy(cs[d])
      <4>1. Reading(cs[d]) /\ Doomed(cs[d])
        BY <1>1, <2>1, <2>3, <3>1 DEF Shares, SentFacts
      <4>2. ~cs[d].writeback.pending
        BY <1>4, <3>1, Kinds
      <4> QED BY <1>8, <4>1, <4>2
    <3>2. CASE ~Busy(cs[d])
      BY <1>8, <2>3, <3>2 DEF Shares
    <3> QED BY <3>1, <3>2
  <2>5. cs2[r].status = {} /\ ~cs2[r].writeback.pending
    BY <1>1, <1>8, <2>1 DEF SentFacts
  <2>6. \A p \in Caches : cs2[p].status = {} /\ ~cs2[p].writeback.pending
    BY <1>1, <2>4, <2>5 DEF SentFacts
  <2>7. \A p \in Caches \ {r} : ~Owns(cs[p])
    BY <1>2, <1>11
  <2>8. \A p \in Caches : \A k \in DOMAIN qs[p] : ~Claiming(cs[qs[p][k].to])
    BY <1>3, <1>6, <2>1
  <2>9. \A p \in Caches : qs[p] = <<>>
    BY <1>4, <2>7, <2>8 DEF OwnersAnswer
  <2>10. \A p \in Caches : qs2[p] = <<>>
    BY <1>3, <1>5, <1>6, <2>7, <2>9
  <2>11. \A j \in DOMAIN qs2[0] : j < i =>
            Reading(cs2[qs2[0][j].to]) /\ Doomed(cs2[qs2[0][j].to])
    BY <1>1, <1>7, <1>9, <2>4 DEF SentFacts
  <2>12. \A q \in Caches \ {r} : Busy(cs2[q]) => Reading(cs2[q]) /\ Doomed(cs2[q])
    BY <1>1, <2>4 DEF SentFacts
  <2> QED BY <1>11, <2>6, <2>10, <2>11, <2>12
<1> QED BY <1>7, <1>10, <1>11

LEMMA SendData ==
    ASSUME NEW cs2, NEW cs, NEW qs2, NEW qs, NEW mm, NEW lat, NEW r, NEW cmd, NEW ans,
           NEW sent, SendStep(cs2, cs, qs2, qs, mm, lat, r, cmd, ans, sent)
    PROVE  Current(cs2, lat) /\ MemCurrent(cs2, mm, lat) /\ AllReady(cs2, lat)
<1>1. SentFacts(cs2, cs, qs2, qs, r, cmd, sent)
  BY SendFacts
<1>2. Gives(cs, r, 0) => \A p \in Caches : ~Claiming(cs[p]) /\ (p # r => ~Owns(cs[p]))
  BY WhoGives, PortFacts
<1>3. /\ Current(cs, lat) /\ MemCurrent(cs, mm, lat) /\ AllReady(cs, lat) /\ lat \in Nat
  BY DEF SendStep, Protocol
<1>4. \A d \in Caches \ {r} :
         /\ isValid(cs2[d]) => cs2[d].data = cs[d].data
         /\ cs2[d].writeback.pending => cs2[d].writeback.data = cs[d].writeback.data
         /\ Meets(cs2[d].mshr, cs[d].mshr, cmd, r)
  <2> SUFFICES ASSUME NEW d \in Caches \ {r}
               PROVE  /\ isValid(cs2[d]) => cs2[d].data = cs[d].data
                      /\ cs2[d].writeback.pending =>
                            cs2[d].writeback.data = cs[d].writeback.data
                      /\ Meets(cs2[d].mshr, cs[d].mshr, cmd, r)
    OBVIOUS
  <2>1. AfterOK(cs2[d], cs[d], r, cmd)
    BY DEF SendStep
  <2> QED BY <2>1 DEF AfterOK
<1>5. Current(cs2, lat)
  <2>1. ASSUME NEW d \in Caches \ {r}
        PROVE  /\ isValid(cs2[d]) /\ ~Busy(cs2[d]) => cs2[d].data = lat
               /\ cs2[d].writeback.pending => cs2[d].writeback.data = lat
    BY <1>1, <1>3, <1>4 DEF Current, SentFacts
  <2>2. isValid(cs2[r]) /\ ~Busy(cs2[r]) => cs2[r].data = lat
    BY <1>1, <1>3 DEF Current, SentFacts, SendStep
  <2>3. ~cs2[r].writeback.pending
    BY <1>1 DEF SentFacts
  <2> QED BY <2>1, <2>2, <2>3 DEF Current
<1>6. MemCurrent(cs2, mm, lat)
  <2> SUFFICES ASSUME \A p \in Caches : ~Owns(cs2[p]) /\ ~Claiming(cs2[p]) PROVE mm = lat
    BY <1>3 DEF MemCurrent
  <2>1. \A p \in Caches : ~Claiming(cs[p])
    BY <1>1 DEF SentFacts
  <2>2. \A p \in Caches : ~Owns(cs[p])
    <3>1. CASE cmd = "ReadReq"
      BY <1>1, <3>1 DEF SentFacts
    <3>2. CASE cmd # "ReadReq"
      <4>1. ~sent
        BY <1>1, <3>2 DEF SentFacts
      <4>2. Gives(cs, r, 0)
        BY <4>1 DEF SendStep
      <4> QED BY <1>1, <1>2, <4>1, <4>2 DEF SentFacts
    <3> QED BY <3>1, <3>2
  <2> QED BY <1>3, <2>1, <2>2 DEF MemCurrent
<1>7. AllReady(cs2, lat)
  <2>1. \A d \in Caches : ReadyOK(cs[d], lat)
    BY <1>3 DEF AllReady
  <2>2. ReadyOK(cs2[r], lat)
    <3>1. r \in Caches
      BY <1>1 DEF SentFacts
    <3> QED BY <2>1, <3>1 DEF SendStep, SentReg, ReadyOK
  <2>3. ASSUME NEW d \in Caches \ {r} PROVE ReadyOK(cs2[d], lat)
    <3> DEFINE u == cs[d].mshr.targets.list
               u2 == cs2[d].mshr.targets.list
               t == Target(cmd, "FromSnoop", 0, r)
    <3>1. /\ \A k \in DOMAIN u : k \in DOMAIN u2 /\ u2[k] = u[k]
          /\ \A k \in DOMAIN u2 : k \in DOMAIN u \/ u2[k] = t
          /\ cs2[d].mshr.deferredTargets = cs[d].mshr.deferredTargets
      BY <1>4 DEF Meets
    <3>2. t.readyTime <= lat
      BY <1>3 DEF Target
    <3>3. ReadyOK(cs[d], lat)
      BY <2>1
    <3>4. \A k \in DOMAIN u : u[k].readyTime <= lat
      BY <3>3 DEF ReadyOK
    <3> HIDE DEF u, u2, t
    <3>5. \A k \in DOMAIN u2 : u2[k].readyTime <= lat
      BY <3>1, <3>2, <3>4
    <3> QED BY <3>1, <3>3, <3>5 DEF ReadyOK, u2
  <2> QED BY <2>2, <2>3 DEF AllReady
<1> QED BY <1>5, <1>6, <1>7

LEMMA SendChain ==
    ASSUME NEW cs2, NEW cs, NEW qs2, NEW qs, NEW mm, NEW lat, NEW r, NEW cmd, NEW ans,
           NEW sent, SendStep(cs2, cs, qs2, qs, mm, lat, r, cmd, ans, sent)
    PROVE  Chained(cs2, qs2)
<1>1. SentFacts(cs2, cs, qs2, qs, r, cmd, sent)
  BY SendFacts
<1>2. (\E o \in Ports : Gives(cs, r, o)) => \A p \in Caches : ~Claiming(cs[p])
  BY WhoGives
<1>3. PICK n \in Nat : \E rank \in [Caches -> 0 .. n] : Chain(cs, qs, rank)
  BY DEF SendStep, Protocol, Chained
<1>4. PICK rank \in [Caches -> 0 .. n] : Chain(cs, qs, rank)
  BY <1>3
<1>5. \A p \in Caches : rank[p] \in Nat /\ rank[p] <= n
  BY <1>4
<1>6. \A p, q \in Caches : Claiming(cs[p]) /\ Claiming(cs[q]) /\ p # q =>
         Linked(cs, qs, rank, p, q)
  BY <1>4 DEF Chain
<1>7. CASE ~(sent /\ cmd # "ReadReq")
  <2>1. Chain(cs2, qs2, rank)
    BY <1>1, <1>6, <1>7 DEF Chain, Linked, SentFacts
  <2> QED BY <2>1 DEF Chained
<1>8. CASE sent /\ cmd # "ReadReq"
  <2> DEFINE rank2 == [rank EXCEPT ![r] = n + 1]
  <2>1. rank2 \in [Caches -> 0 .. n + 1]
    <3>1. rank \in [Caches -> 0 .. n + 1]
      BY <1>4
    <3>2. n + 1 \in 0 .. n + 1
      OBVIOUS
    <3> QED BY <3>1, <3>2
  <2>2. r \in Caches /\ rank2[r] = n + 1 /\ \A p \in Caches \ {r} : rank2[p] = rank[p]
    BY <1>1, <1>4 DEF SentFacts
  <2>3. \A p \in Caches \ {r} : rank[p] < n + 1 /\ ~(n + 1 < rank[p]) /\ rank[p] # n + 1
    BY <1>5
  <2> HIDE DEF rank2
  <2>4. ASSUME NEW p \in Caches \ {r}, NEW q \in Caches \ {r}, Claiming(cs2[p]), Claiming(cs2[q]),
               p # q
        PROVE  Linked(cs2, qs2, rank2, p, q)
    <3>1. Claiming(cs[p]) /\ Claiming(cs[q]) /\ Busy(cs[p])
      BY <1>1, <2>4 DEF SentFacts
    <3>2. Linked(cs, qs, rank, p, q)
      BY <1>6, <2>4, <3>1
    <3>3. /\ rank2[p] # rank2[q]
          /\ rank2[p] < rank2[q] => Doomed(cs2[p])
          /\ Real(qs2, p) => rank2[p] < rank2[q]
      BY <1>1, <2>2, <3>1, <3>2 DEF Linked, SentFacts
    <3>4. Promised(cs2, p, q) => Promised(cs, p, q)
      BY <1>1 DEF SentFacts
    <3>5. ASSUME Promised(cs, p, q)
          PROVE  /\ rank2[p] < rank2[q]
                 /\ ~\E x \in Caches : /\ Claiming(cs2[x]) /\ rank2[p] < rank2[x]
                                       /\ rank2[x] < rank2[q]
      <4>1. /\ rank[p] < rank[q]
            /\ ~\E x \in Caches : Claiming(cs[x]) /\ rank[p] < rank[x] /\ rank[x] < rank[q]
        BY <3>2, <3>5 DEF Linked
      <4>2. ASSUME NEW x \in Caches, Claiming(cs2[x]), rank2[p] < rank2[x], rank2[x] < rank2[q]
            PROVE  FALSE
        <5>1. x # r
          BY <2>2, <2>3, <4>2
        <5>2. Claiming(cs[x])
          BY <1>1, <4>2, <5>1 DEF SentFacts
        <5> QED BY <2>2, <4>1, <4>2, <5>1, <5>2
      <4> QED BY <2>2, <4>1, <4>2
    <3> QED BY <3>3, <3>4, <3>5 DEF Linked
  <2>5. ASSUME NEW p \in Caches \ {r}, Claiming(cs2[p])
        PROVE  Linked(cs2, qs2, rank2, p, r)
    <3>1. Claiming(cs[p]) /\ Busy(cs[p]) /\ Doomed(cs2[p])
      BY <1>1, <1>8, <2>5 DEF SentFacts
    <3>2. rank2[p] # rank2[r] /\ rank2[p] < rank2[r]
      BY <2>2, <2>3
    <3>3. ASSUME Promised(cs2, p, r), NEW x \in Caches, Claiming(cs2[x]),
                 rank2[p] < rank2[x], rank2[x] < rank2[r]
          PROVE  FALSE
      <4>1. ~Doomed(cs[p])
        BY <1>1, <3>3 DEF SentFacts
      <4>2. x # r /\ x # p
        BY <2>1, <2>2, <3>3
      <4>3. Claiming(cs[x])
        BY <1>1, <3>3, <4>2 DEF SentFacts
      <4>4. rank[p] < rank[x]
        BY <2>2, <3>3, <4>2
      <4>5. Linked(cs, qs, rank, p, x)
        BY <1>6, <3>1, <4>2, <4>3
      <4> QED BY <4>1, <4>4, <4>5 DEF Linked
    <3> QED BY <3>1, <3>2, <3>3 DEF Linked
  <2>6. ASSUME NEW q \in Caches \ {r}, Claiming(cs2[q])
        PROVE  Linked(cs2, qs2, rank2, r, q)
    <3>1. Claiming(cs[q])
      BY <1>1, <2>6 DEF SentFacts
    <3>2. ~Real(qs2, r) /\ ~Promised(cs2, r, q)
      BY <1>1, <1>2, <3>1 DEF SentFacts
    <3>3. rank2[r] # rank2[q] /\ ~(rank2[r] < rank2[q])
      BY <2>2, <2>3
    <3> QED BY <3>2, <3>3 DEF Linked
  <2>7. Chain(cs2, qs2, rank2)
    BY <2>4, <2>5, <2>6 DEF Chain
  <2>8. n + 1 \in Nat
    OBVIOUS
  <2> QED BY <2>1, <2>7, <2>8 DEF Chained
<1> QED BY <1>7, <1>8

(* A request keeps the protocol.                                           *)
LEMMA SendKeeps ==
    ASSUME NEW cs2, NEW cs, NEW qs2, NEW qs, NEW mm, NEW lat, NEW r, NEW cmd, NEW ans,
           NEW sent, SendStep(cs2, cs, qs2, qs, mm, lat, r, cmd, ans, sent),
           \A o \in Ports : o # 0 => qs2[o] = cs2[o].snoopRespQueue
    PROVE  Protocol(cs2, qs2, mm, lat)
<1>1. StateOK(cs2, qs2) /\ Routes(cs2, qs2, lat) /\ Owed(cs2, qs2)
  BY SendState, SendRoutes, SendOwed
<1>2. OwedOnce(cs2) /\ Expected(cs2, qs2) /\ UpgradeReal(cs2, qs2)
  BY SendPromises
<1>3. /\ ClaimAlone(cs2) /\ ReadAlone(cs2, qs2) /\ WriteAlone(cs2) /\ OneOwner(cs2)
      /\ OneRealClaim(cs2, qs2) /\ LastClaim(cs2)
  BY SendAlone
<1>4. ClaimLast(cs2, qs2) /\ OwnersAnswer(cs2, qs2)
  BY SendQueues
<1>5. OnlyCopy(cs2, qs2) /\ Chained(cs2, qs2)
  BY SendOnly, SendChain
<1>6. Current(cs2, lat) /\ MemCurrent(cs2, mm, lat) /\ AllReady(cs2, lat)
  BY SendData
<1>7. mm \in Nat /\ lat \in Nat
  BY DEF SendStep, Protocol
<1> QED BY <1>1, <1>2, <1>3, <1>4, <1>5, <1>6, <1>7 DEF Protocol

-----------------------------------------------------------------------------
(* Cache r receives the first answer a of port o.                          *)
FillStep(cs2, cs, qs2, qs, mm, lat, lat2, o, a, r) ==
    /\ Protocol(cs, qs, mm, lat)
    /\ o \in Ports /\ qs[o] # <<>> /\ a = Head(qs[o]) /\ r = a.to
    /\ cs2 \in [Caches -> CacheRecords] /\ qs2 \in [Ports -> Seq(Responses)]
    /\ FillOK(cs2[r], cs[r], a, lat, lat2)
    /\ \A d \in Caches \ {r} : /\ cs2[d].status = cs[d].status /\ cs2[d].data = cs[d].data
                               /\ cs2[d].mshr = cs[d].mshr
                               /\ cs2[d].writeback = cs[d].writeback
    /\ \A d \in Caches : qs2[d] = cs2[d].snoopRespQueue
    /\ qs2[o] = Tail(qs[o])
    /\ \A p \in Ports \ {o, r} : qs2[p] = qs[p]

(* Where the answers of the other ports were.                              *)
Before(o, p, i) == IF p = o THEN i + 1 ELSE i

FilledQueues(qs2, qs, o, a, r) ==
    /\ r \in Caches /\ r \in Ports /\ o # r /\ o \in Ports /\ a \in Responses
    /\ 1 \in DOMAIN qs[o] /\ qs[o][1] = a /\ a.to = r
    /\ \A p \in Ports \ {r} : \A i \in DOMAIN qs2[p] :
          /\ Before(o, p, i) \in DOMAIN qs[p] /\ qs2[p][i] = qs[p][Before(o, p, i)]
          /\ qs2[p][i].to \in Caches \ {r} /\ i \in Nat
    /\ \A p \in Ports : \A i \in DOMAIN qs[p] :
          /\ qs[p][i].to = r => p = o /\ i = 1
          /\ qs[p][i].to # r => /\ p # r
                                /\ \E j \in DOMAIN qs2[p] : i = Before(o, p, j)
    /\ \A p \in Ports \ {o, r} : qs2[p] = qs[p]
    /\ Len(qs[o]) \in Nat /\ Len(qs2[o]) = Len(qs[o]) - 1 /\ DOMAIN qs[o] = 1 .. Len(qs[o])

LEMMA FillQueues ==
    ASSUME NEW cs2, NEW cs, NEW qs2, NEW qs, NEW mm, NEW lat, NEW lat2, NEW o, NEW a, NEW r,
           FillStep(cs2, cs, qs2, qs, mm, lat, lat2, o, a, r)
    PROVE  FilledQueues(qs2, qs, o, a, r)
<1>1. /\ StateOK(cs, qs) /\ Routes(cs, qs, lat) /\ o \in Ports /\ qs[o] # <<>>
      /\ a = Head(qs[o]) /\ r = a.to /\ qs2[o] = Tail(qs[o])
      /\ \A p \in Ports \ {o, r} : qs2[p] = qs[p]
  BY DEF FillStep, Protocol
<1>2. \A p \in Ports : /\ qs[p] \in Seq(Responses) /\ Len(qs[p]) \in Nat
                       /\ DOMAIN qs[p] = 1 .. Len(qs[p])
                       /\ \A i \in DOMAIN qs[p] : qs[p][i] \in Responses /\ qs[p][i].to \in Caches
  BY <1>1, QueueTypes
<1>3. /\ a = qs[o][1] /\ 1 \in DOMAIN qs[o] /\ Len(qs2[o]) = Len(qs[o]) - 1
      /\ DOMAIN qs2[o] = 1 .. Len(qs[o]) - 1
      /\ \A i \in DOMAIN qs2[o] : i \in Nat /\ i + 1 \in DOMAIN qs[o] /\ qs2[o][i] = qs[o][i + 1]
                                  /\ i + 1 # 1
  <2> DEFINE q == qs[o]
             q2 == qs2[o]
  <2>1. q \in Seq(Responses) /\ q # <<>> /\ q2 = Tail(q) /\ a = Head(q)
    BY <1>1, <1>2
  <2> HIDE DEF q, q2
  <2>2. /\ a = q[1] /\ 1 \in DOMAIN q /\ Len(q2) = Len(q) - 1 /\ DOMAIN q2 = 1 .. Len(q) - 1
        /\ \A i \in DOMAIN q2 : i \in Nat /\ i + 1 \in DOMAIN q /\ q2[i] = q[i + 1]
                                /\ i + 1 # 1
    BY ONLY <2>1
  <2> QED BY <2>2 DEF q, q2
<1>4. r \in Caches /\ a \in Responses /\ r \in Ports
  BY <1>1, <1>2, <1>3, PortFacts
<1>5. \A p \in Ports : \A i \in DOMAIN qs[p] : qs[p][i].to = r => p = o /\ i = 1
  BY <1>1, <1>3 DEF Routes
<1>6. Busy(cs[r])
  BY <1>1, <1>3 DEF Routes, AnswerOK
<1>7. qs[r] = <<>>
  BY <1>1, <1>4, <1>6, Kinds
<1>8. o # r
  BY <1>1, <1>7
<1>9. ASSUME NEW p \in Ports \ {r}, NEW i \in DOMAIN qs2[p]
      PROVE  /\ Before(o, p, i) \in DOMAIN qs[p] /\ qs2[p][i] = qs[p][Before(o, p, i)]
             /\ qs2[p][i].to \in Caches \ {r} /\ i \in Nat
  <2>1. CASE p = o
    <3>1. i \in Nat /\ i + 1 \in DOMAIN qs[o] /\ qs2[o][i] = qs[o][i + 1] /\ i + 1 # 1
      BY <1>3, <1>9, <2>1
    <3>2. qs[o][i + 1].to \in Caches \ {r}
      BY <1>1, <1>2, <1>5, <3>1
    <3> QED BY <2>1, <3>1, <3>2 DEF Before
  <2>2. CASE p # o
    BY <1>1, <1>2, <1>5, <1>9, <2>2 DEF Before
  <2> QED BY <2>1, <2>2
<1>10. ASSUME NEW p \in Ports, NEW i \in DOMAIN qs[p], qs[p][i].to # r
       PROVE  /\ p # r /\ \E j \in DOMAIN qs2[p] : i = Before(o, p, j)
  <2>1. p # r
    BY <1>7, <1>10
  <2>2. CASE p = o
    <3>1. i # 1
      BY <1>1, <1>3, <1>10, <2>2
    <3>2. i - 1 \in DOMAIN qs2[o] /\ i = (i - 1) + 1
      BY <1>2, <1>3, <1>10, <2>2, <3>1
    <3> QED BY <2>1, <2>2, <3>2 DEF Before
  <2>3. CASE p # o
    BY <1>1, <1>10, <2>1, <2>3 DEF Before
  <2> QED BY <2>2, <2>3
<1>11. a.to = r /\ 1 \in DOMAIN qs[o] /\ qs[o][1] = a /\ o \in Ports
       /\ Len(qs[o]) \in Nat /\ Len(qs2[o]) = Len(qs[o]) - 1 /\ DOMAIN qs[o] = 1 .. Len(qs[o])
  BY <1>1, <1>2, <1>3
<1> QED BY <1>1, <1>4, <1>5, <1>8, <1>9, <1>10, <1>11 DEF FilledQueues

(* What a fill changes in the caches.                                      *)
FilledFacts(cs2, cs, qs2, qs, lat, lat2, o, a, r) ==
    /\ FilledQueues(qs2, qs, o, a, r)
    /\ \A d \in Caches \ {r} :
          /\ SameReg(cs2[d], cs[d])
          /\ isValid(cs2[d]) <=> isValid(cs[d])
          /\ isWritable(cs2[d]) <=> isWritable(cs[d])
          /\ Owns(cs2[d]) <=> Owns(cs[d])
          /\ cs2[d].status = cs[d].status /\ cs2[d].data = cs[d].data
          /\ cs2[d].mshr = cs[d].mshr /\ cs2[d].writeback = cs[d].writeback
    /\ Busy(cs[r]) /\ (Reading(cs[r]) <=> ~Claiming(cs[r])) /\ ~Owns(cs[r])
    /\ ~Busy(cs2[r]) /\ ~Claiming(cs2[r]) /\ ~Reading(cs2[r])
    /\ \A p \in Caches : \A q : Promised(cs2, p, q) <=> p # r /\ Promised(cs, p, q)
    /\ \A p \in Caches : ~Promised(cs, p, r)
    /\ Real(qs, r) /\ ~Real(qs2, r)
    /\ \A q : Promised(cs, r, q) <=> \E i \in DOMAIN qs2[r] : qs2[r][i].to = q
    /\ \A q : Real(qs2, q) <=> (q # r /\ Real(qs, q)) \/ Promised(cs, r, q)
    /\ Reading(cs[r]) => qs2[r] = <<>>
    /\ lat \in Nat /\ lat2 \in Nat /\ lat2 >= lat
    /\ lat2 > lat => \/ Claiming(cs[r])
                     \/ Reading(cs[r]) /\ ~Doomed(cs[r]) /\ ~Lowered(cs[r]) /\ ~a.shared
    /\ Claiming(cs[r]) => lat2 > lat
    /\ \A d \in Caches : /\ Claiming(cs[d]) => Busy(cs[d])
                         /\ Reading(cs[d]) <=> Busy(cs[d]) /\ ~Claiming(cs[d])

LEMMA FillChanges ==
    ASSUME NEW cs2, NEW cs, NEW qs2, NEW qs, NEW mm, NEW lat, NEW lat2, NEW o, NEW a, NEW r,
           FillStep(cs2, cs, qs2, qs, mm, lat, lat2, o, a, r)
    PROVE  FilledFacts(cs2, cs, qs2, qs, lat, lat2, o, a, r)
<1>1. FilledQueues(qs2, qs, o, a, r)
  BY FillQueues
<1>2. /\ StateOK(cs, qs) /\ Routes(cs, qs, lat) /\ Owed(cs, qs) /\ r \in Caches
      /\ lat \in Nat /\ FillOK(cs2[r], cs[r], a, lat, lat2)
      /\ \A d \in Caches : qs2[d] = cs2[d].snoopRespQueue
  BY <1>1 DEF FillStep, Protocol, FilledQueues
<1>3. ASSUME NEW d \in Caches \ {r}
      PROVE  /\ SameReg(cs2[d], cs[d])
             /\ isValid(cs2[d]) <=> isValid(cs[d])
             /\ isWritable(cs2[d]) <=> isWritable(cs[d])
             /\ Owns(cs2[d]) <=> Owns(cs[d])
             /\ cs2[d].status = cs[d].status /\ cs2[d].data = cs[d].data
             /\ cs2[d].mshr = cs[d].mshr /\ cs2[d].writeback = cs[d].writeback
  <2>1. /\ cs2[d].status = cs[d].status /\ cs2[d].data = cs[d].data
        /\ cs2[d].mshr = cs[d].mshr /\ cs2[d].writeback = cs[d].writeback
    BY DEF FillStep
  <2>2. SameReg(cs2[d], cs[d])
    BY <2>1, SameRegs
  <2> QED BY <2>1, <2>2 DEF isValid, isWritable, isDirty, Owns, SameReg
<1>4. Real(qs, r)
  BY <1>1 DEF Real, FilledQueues
<1>5. AnswerOK(o, a, cs[r], lat)
  BY <1>1, <1>2 DEF Routes, FilledQueues
<1>6. \A d \in Caches : /\ Claiming(cs[d]) => Busy(cs[d])
                        /\ Reading(cs[d]) <=> Busy(cs[d]) /\ ~Claiming(cs[d])
  BY <1>2, Kinds
<1>7. Busy(cs[r]) /\ (Reading(cs[r]) <=> ~Claiming(cs[r])) /\ ~Owns(cs[r])
  BY <1>2, <1>5, <1>6, Kinds DEF AnswerOK
<1>8. ~Busy(cs2[r]) /\ ~Claiming(cs2[r]) /\ ~Reading(cs2[r])
  BY <1>2 DEF FillOK, Claiming, Reading
<1>9. \A p \in Caches : \A q : Promised(cs2, p, q) <=> p # r /\ Promised(cs, p, q)
  <2>1. \A q : ~Promised(cs2, r, q)
    BY <1>8 DEF Promised
  <2>2. \A p \in Caches \ {r} : \A q : Promised(cs2, p, q) <=> Promised(cs, p, q)
    BY <1>3, SamePromises
  <2> QED BY <2>1, <2>2
<1>10. \A p \in Caches : \A q : Promised(cs, p, q) => q \in Caches \ {p} /\ ~Real(qs, q)
  <2> SUFFICES ASSUME NEW p \in Caches, NEW q, Promised(cs, p, q)
               PROVE  q \in Caches \ {p} /\ ~Real(qs, q)
    OBVIOUS
  <2> DEFINE u == cs[p].mshr.targets.list
  <2>1. PICK k \in DOMAIN u : IsSnoop(u[k]) /\ u[k].order = q
    BY DEF Promised
  <2>2. OwedOK(cs, qs, p, u[k])
    BY <1>2, <2>1 DEF Owed, Promised
  <2> QED BY <2>1, <2>2 DEF OwedOK
<1>11. \A p \in Caches : ~Promised(cs, p, r)
  BY <1>4, <1>10
<1>12. Reading(cs[r]) => qs2[r] = <<>>
  BY <1>2 DEF FillOK
<1>13. ASSUME NEW q PROVE Promised(cs, r, q) <=> \E i \in DOMAIN qs2[r] : qs2[r][i].to = q
  <2>1. CASE Reading(cs[r])
    BY <1>7, <1>12, <2>1 DEF Promised
  <2>2. CASE Claiming(cs[r])
    <3> DEFINE u == cs[r].mshr.targets.list
    <3>1. /\ u \in Seq(Targets) /\ Len(u) \in Nat /\ DOMAIN u = 1 .. Len(u)
      <4>1. cs[r] \in CacheRecords
        BY <1>2 DEF StateOK
      <4>2. cs[r].mshr \in Regs
        BY <4>1, CacheFields
      <4> QED BY <4>2, RegFields
    <3>2. Answered(qs2[r], u, Len(u), lat2, cs[r].mshr.postInvalidate) /\ SavedOK(cs[r].mshr)
      BY <1>2, <2>2 DEF FillOK, Owed
    <3>3. /\ \A i \in DOMAIN qs2[r] : \E k \in DOMAIN u : IsSnoop(u[k]) /\
                qs2[r][i] = Reply(u[k].order, u[k].cmd, lat2, cs[r].mshr.postInvalidate)
          /\ \A k \in DOMAIN u : IsSnoop(u[k]) => \E i \in DOMAIN qs2[r] : qs2[r][i].to = u[k].order
      BY <3>1, <3>2 DEF Answered
    <3>4. \A x, c, d, inval : Reply(x, c, d, inval).to = x
      BY DEF Reply, Response
    <3>5. Promised(cs, r, q) <=> \E k \in DOMAIN u : IsSnoop(u[k]) /\ u[k].order = q
      BY <2>2 DEF Promised
    <3> HIDE DEF u
    <3> QED BY <3>3, <3>4, <3>5
  <2> QED BY <1>7, <2>1, <2>2
<1>14. ASSUME NEW q PROVE Real(qs2, q) <=> (q # r /\ Real(qs, q)) \/ Promised(cs, r, q)
  <2>1. ASSUME NEW p \in Ports, NEW i \in DOMAIN qs2[p], qs2[p][i].to = q
        PROVE  (q # r /\ Real(qs, q)) \/ Promised(cs, r, q)
    <3>1. CASE p = r
      BY <1>13, <2>1, <3>1
    <3>2. CASE p # r
      <4>1. Before(o, p, i) \in DOMAIN qs[p] /\ qs[p][Before(o, p, i)].to = q /\ q # r
        BY <1>1, <2>1, <3>2 DEF FilledQueues
      <4> QED BY <4>1 DEF Real
    <3> QED BY <3>1, <3>2
  <2>2. ASSUME q # r, Real(qs, q) PROVE Real(qs2, q)
    <3>1. PICK p \in Ports : \E i \in DOMAIN qs[p] : qs[p][i].to = q
      BY <2>2 DEF Real
    <3>2. PICK i \in DOMAIN qs[p] : qs[p][i].to = q
      BY <3>1
    <3>3. p # r /\ \E j \in DOMAIN qs2[p] : i = Before(o, p, j)
      BY <1>1, <2>2, <3>2 DEF FilledQueues
    <3>4. PICK j \in DOMAIN qs2[p] : i = Before(o, p, j)
      BY <3>3
    <3>5. qs2[p][j].to = q
      BY <1>1, <3>2, <3>3, <3>4 DEF FilledQueues
    <3> QED BY <3>5 DEF Real
  <2>3. Promised(cs, r, q) => Real(qs2, q)
    BY <1>1, <1>13 DEF Real, FilledQueues
  <2> QED BY <2>1, <2>2, <2>3 DEF Real
<1>15. ~Real(qs2, r)
  BY <1>2, <1>11, <1>14
<1>16. /\ lat2 \in Nat /\ lat2 >= lat
       /\ lat2 > lat => \/ Claiming(cs[r])
                        \/ Reading(cs[r]) /\ ~Doomed(cs[r]) /\ ~Lowered(cs[r]) /\ ~a.shared
       /\ Claiming(cs[r]) => lat2 > lat
  <2>1. /\ lat2 \in Nat /\ lat2 >= lat
        /\ lat2 > lat <=> Claiming(cs[r]) \/ FillTakesDeferred(cs[r].mshr, a.shared)
    BY <1>2 DEF FillOK
  <2>2. FillTakesDeferred(cs[r].mshr, a.shared) => ~Doomed(cs[r]) /\ ~Lowered(cs[r]) /\ ~a.shared
    BY DEF FillTakesDeferred, Doomed, Lowered
  <2> QED BY <1>7, <2>1, <2>2
<1> QED BY <1>1, <1>2, <1>3, <1>4, <1>6, <1>7, <1>8, <1>9, <1>11, <1>12, <1>13, <1>14, <1>15, <1>16
        DEF FilledFacts

(* The requests that a claiming cache owes an answer: reads, and the claim *)
(* that dooms it.                                                          *)
LEMMA Debts ==
    ASSUME NEW cs, NEW qs, StateOK(cs, qs), Owed(cs, qs), NEW p \in Caches
    PROVE  /\ \A q : Promised(cs, p, q) =>
                /\ q \in Caches \ {p} /\ ~Real(qs, q)
                /\ \/ Reading(cs[q]) /\ (Doomed(cs[p]) => Doomed(cs[q]))
                   \/ Claiming(cs[q]) /\ Doomed(cs[p])
           /\ \A q, x : /\ Promised(cs, p, q) /\ Claiming(cs[q])
                        /\ Promised(cs, p, x) /\ Claiming(cs[x])
                        => q = x
           /\ Claiming(cs[p]) /\ Doomed(cs[p]) =>
                \E q \in Caches \ {p} : Promised(cs, p, q) /\ Claiming(cs[q])
<1> DEFINE u == cs[p].mshr.targets.list
<1>1. cs[p] \in CacheRecords /\ CacheOK(cs[p])
  BY DEF StateOK
<1>2. cs[p].mshr \in Regs /\ RegOK(cs[p].mshr)
  BY <1>1, CacheFields DEF CacheOK
<1>3. Len(u) \in Nat /\ DOMAIN u = 1 .. Len(u)
  BY <1>2, RegFields
<1>4. ASSUME NEW q, Promised(cs, p, q)
      PROVE  \E k \in DOMAIN u : /\ IsSnoop(u[k]) /\ u[k].order = q
                                 /\ q \in Caches \ {p} /\ ~Real(qs, q)
                                 /\ \/ Reading(cs[q]) /\ (Doomed(cs[p]) => Doomed(cs[q]))
                                    \/ /\ Claiming(cs[q]) /\ Doomed(cs[p])
                                       /\ k = Len(u)
  <2>1. PICK k \in DOMAIN u : IsSnoop(u[k]) /\ u[k].order = q
    BY <1>4 DEF Promised
  <2>2. OwedOK(cs, qs, p, u[k])
    BY <1>4, <2>1 DEF Owed, Promised
  <2>3. IsClaim(u[k]) => k = Len(u) /\ Doomed(cs[p])
    <3>1. TargetsOK(cs[p].mshr)
      BY <1>2 DEF RegOK
    <3>2. IsClaim(u[k]) => ~IsLoad(u[k]) /\ ~IsStore(u[k]) /\ ~IsRead(u[k])
      BY DEF IsClaim, IsLoad, IsStore, IsRead
    <3> QED BY <3>1, <3>2 DEF TargetsOK, Doomed
  <2> QED BY <2>1, <2>2, <2>3 DEF OwedOK, IsSnoop
<1>5. ASSUME NEW q, NEW x, Promised(cs, p, q), Claiming(cs[q]), Promised(cs, p, x),
             Claiming(cs[x])
      PROVE  q = x
  <2>1. PICK k \in DOMAIN u : u[k].order = q /\ (Reading(cs[q]) \/ k = Len(u))
    BY <1>4, <1>5
  <2>2. PICK j \in DOMAIN u : u[j].order = x /\ (Reading(cs[x]) \/ j = Len(u))
    BY <1>4, <1>5
  <2>3. ~Reading(cs[q]) /\ ~Reading(cs[x])
    BY <1>5 DEF Reading, Claiming
  <2> QED BY <2>1, <2>2, <2>3
<1>6. ASSUME Claiming(cs[p]), Doomed(cs[p])
      PROVE  \E q \in Caches \ {p} : Promised(cs, p, q) /\ Claiming(cs[q])
  <2>1. cs[p].mshr.inService /\ cs[p].mshr.postInvalidate
    BY <1>6 DEF Claiming, Busy, Doomed
  <2>2. u # <<>> /\ IsClaim(u[Len(u)])
    <3>1. cs[p].mshr # FreeMSHR
      BY <2>1, FreeReg
    <3> QED BY <1>2, <2>1, <3>1 DEF RegOK, FlagsOK
  <2>3. Len(u) \in DOMAIN u
    BY <1>2, <1>3, <2>2, RegFields
  <2>4. IsSnoop(u[Len(u)])
    BY <2>2 DEF IsSnoop
  <2>5. OwedOK(cs, qs, p, u[Len(u)])
    BY <1>6, <2>3, <2>4 DEF Owed
  <2>6. u[Len(u)].order \in Caches \ {p} /\ Claiming(cs[u[Len(u)].order])
    BY <2>2, <2>5 DEF OwedOK
  <2>7. Promised(cs, p, u[Len(u)].order)
    BY <1>6, <2>3, <2>4 DEF Promised
  <2> QED BY <2>6, <2>7
<1> HIDE DEF u
<1>7. \A q : Promised(cs, p, q) =>
         /\ q \in Caches \ {p} /\ ~Real(qs, q)
         /\ \/ Reading(cs[q]) /\ (Doomed(cs[p]) => Doomed(cs[q]))
            \/ Claiming(cs[q]) /\ Doomed(cs[p])
  BY <1>4
<1> QED BY <1>5, <1>6, <1>7

(* The other caches: a later claim dooms the fill, an exclusive answer to  *)
(* a read finds no other copy, and a fill that stores finds no owner.      *)
FilledAlone(cs2, cs, qs, lat, lat2, a, r) ==
    /\ (\E p \in Caches \ {r} : Claiming(cs[p])) => Doomed(cs[r])
    /\ Doomed(cs[r]) => /\ cs2[r].status = {} /\ ~cs2[r].writeback.pending
                        /\ ~isValid(cs2[r]) /\ ~isWritable(cs2[r]) /\ ~Owns(cs2[r])
    /\ Reading(cs[r]) /\ ~a.shared =>
         /\ \A q \in Caches \ {r} : ~isValid(cs[q]) /\ ~cs[q].writeback.pending
         /\ ~Doomed(cs[r]) /\ ~Lowered(cs[r]) =>
              \A q \in Caches \ {r} : Busy(cs[q]) => Reading(cs[q]) /\ Doomed(cs[q])
    /\ lat2 > lat => \A q \in Caches \ {r} :
         /\ ~cs[q].writeback.pending /\ (isValid(cs[q]) => Busy(cs[q])) /\ ~Owns(cs[q])
         /\ Busy(cs[q]) /\ Real(qs, q) => Reading(cs[q]) /\ Doomed(cs[q])
    /\ Owns(cs2[r]) <=> ~Doomed(cs[r]) /\ lat2 > lat
    /\ isWritable(cs2[r]) => ~Doomed(cs[r]) /\ ~Lowered(cs[r]) /\ ~a.shared
                             /\ \A q \in Caches : ~Promised(cs, r, q)

LEMMA FillAlone ==
    ASSUME NEW cs2, NEW cs, NEW qs2, NEW qs, NEW mm, NEW lat, NEW lat2, NEW o, NEW a, NEW r,
           FillStep(cs2, cs, qs2, qs, mm, lat, lat2, o, a, r)
    PROVE  FilledAlone(cs2, cs, qs, lat, lat2, a, r)
<1>1. FilledFacts(cs2, cs, qs2, qs, lat, lat2, o, a, r)
  BY FillChanges
<1>2. FilledQueues(qs2, qs, o, a, r) /\ r \in Caches
  BY <1>1 DEF FilledFacts, FilledQueues
<1>3. /\ StateOK(cs, qs) /\ Routes(cs, qs, lat) /\ ClaimAlone(cs) /\ ReadAlone(cs, qs)
      /\ OneRealClaim(cs, qs) /\ OnlyCopy(cs, qs) /\ Chained(cs, qs)
      /\ FillOK(cs2[r], cs[r], a, lat, lat2)
      /\ \A d \in Caches : qs2[d] = cs2[d].snoopRespQueue
  BY DEF FillStep, Protocol
<1>4. (\E p \in Caches \ {r} : Claiming(cs[p])) => Doomed(cs[r])
  <2> SUFFICES ASSUME NEW p \in Caches \ {r}, Claiming(cs[p]) PROVE Doomed(cs[r])
    OBVIOUS
  <2>1. CASE Reading(cs[r])
    BY <1>1, <1>2, <1>3, <2>1 DEF ReadAlone, FilledFacts
  <2>2. CASE Claiming(cs[r])
    <3>1. PICK n \in Nat : \E rank \in [Caches -> 0 .. n] : Chain(cs, qs, rank)
      BY <1>3 DEF Chained
    <3>2. PICK rank \in [Caches -> 0 .. n] : Chain(cs, qs, rank)
      BY <3>1
    <3>3. Linked(cs, qs, rank, r, p)
      BY <1>2, <2>2, <3>2 DEF Chain
    <3> QED BY <1>1, <3>3 DEF Linked, FilledFacts
  <2> QED BY <1>1, <2>1, <2>2 DEF FilledFacts
<1>5. cs2[r] \in CacheRecords /\ CacheOK(cs2[r])
  BY <1>3 DEF FillOK
<1>6. Doomed(cs[r]) => /\ cs2[r].status = {} /\ ~cs2[r].writeback.pending
                       /\ ~isValid(cs2[r]) /\ ~isWritable(cs2[r]) /\ ~Owns(cs2[r])
  <2> SUFFICES ASSUME Doomed(cs[r])
               PROVE  /\ cs2[r].status = {} /\ ~cs2[r].writeback.pending
                      /\ ~isValid(cs2[r]) /\ ~isWritable(cs2[r]) /\ ~Owns(cs2[r])
    OBVIOUS
  <2>1. cs2[r].status = {} /\ ~cs2[r].writeback.pending
    BY <1>3 DEF FillOK
  <2> QED BY <2>1 DEF isValid, isWritable, Owns, isDirty
<1>7. ASSUME Reading(cs[r]), ~a.shared
      PROVE  /\ \A q \in Caches \ {r} : ~isValid(cs[q]) /\ ~cs[q].writeback.pending
             /\ ~Doomed(cs[r]) /\ ~Lowered(cs[r]) =>
                  \A q \in Caches \ {r} : Busy(cs[q]) => Reading(cs[q]) /\ Doomed(cs[q])
  <2>1. AnswerOK(o, a, cs[r], lat) /\ 1 \in DOMAIN qs[o] /\ qs[o][1] = a /\ a.to = r
    BY <1>2, <1>3 DEF Routes, FilledQueues
  <2>2. o = 0
    BY <1>7, <2>1 DEF AnswerOK
  <2>3. Unshared(cs, qs, 1)
    BY <1>7, <2>1, <2>2 DEF Unshared
  <2>4. /\ \A p \in Caches : cs[p].status = {} /\ ~cs[p].writeback.pending
        /\ ~Doomed(cs[r]) /\ ~Lowered(cs[r]) =>
              \A q \in Caches \ {r} : Busy(cs[q]) => Reading(cs[q]) /\ Doomed(cs[q])
    BY <1>3, <2>1, <2>2, <2>3 DEF OnlyCopy
  <2>5. \A q \in Caches : ~isValid(cs[q])
    BY <2>4 DEF isValid
  <2> QED BY <2>4, <2>5
<1>8. ASSUME lat2 > lat, NEW q \in Caches \ {r}
      PROVE  /\ ~cs[q].writeback.pending /\ (isValid(cs[q]) => Busy(cs[q])) /\ ~Owns(cs[q])
             /\ Busy(cs[q]) /\ Real(qs, q) => Reading(cs[q]) /\ Doomed(cs[q])
  <2>1. /\ ~cs[q].writeback.pending /\ (isValid(cs[q]) => Busy(cs[q]))
        /\ Busy(cs[q]) /\ Real(qs, q) => Reading(cs[q]) /\ Doomed(cs[q])
    <3>1. CASE Claiming(cs[r])
      <4>1. ~cs[q].writeback.pending /\ (isValid(cs[q]) => Busy(cs[q]))
        BY <1>2, <1>3, <3>1 DEF ClaimAlone
      <4>2. Real(qs, q) => ~Claiming(cs[q])
        BY <1>1, <1>2, <1>3, <3>1 DEF OneRealClaim, FilledFacts
      <4>3. Reading(cs[q]) /\ Real(qs, q) => Doomed(cs[q])
        BY <1>2, <1>3, <3>1 DEF ReadAlone
      <4> QED BY <1>1, <4>1, <4>2, <4>3 DEF FilledFacts
    <3>2. CASE Reading(cs[r]) /\ ~Doomed(cs[r]) /\ ~Lowered(cs[r]) /\ ~a.shared
      BY <1>7, <3>2
    <3> QED BY <1>1, <1>8, <3>1, <3>2 DEF FilledFacts
  <2>2. Owns(cs[q]) => ~Busy(cs[q]) /\ (isValid(cs[q]) \/ cs[q].writeback.pending)
    BY <1>3, Kinds
  <2> QED BY <2>1, <2>2
<1>9. Owns(cs2[r]) <=> ~Doomed(cs[r]) /\ lat2 > lat
  BY <1>3 DEF FillOK
<1>10. isWritable(cs2[r]) => ~Doomed(cs[r]) /\ ~Lowered(cs[r]) /\ ~a.shared
                             /\ \A q \in Caches : ~Promised(cs, r, q)
  <2> SUFFICES ASSUME isWritable(cs2[r])
               PROVE  ~Doomed(cs[r]) /\ ~Lowered(cs[r]) /\ ~a.shared
                      /\ \A q \in Caches : ~Promised(cs, r, q)
    OBVIOUS
  <2>1. ~Doomed(cs[r]) /\ ~Lowered(cs[r]) /\ ~a.shared
    BY <1>3, <1>6 DEF FillOK
  <2>2. qs2[r] = <<>>
    BY <1>2, <1>3, <1>5 DEF CacheOK
  <2>3. \A q : ~Promised(cs, r, q)
    BY <1>1, <2>2 DEF FilledFacts
  <2> QED BY <2>1, <2>3
<1> QED BY <1>4, <1>6, <1>7, <1>8, <1>9, <1>10 DEF FilledAlone

LEMMA FillState ==
    ASSUME NEW cs2, NEW cs, NEW qs2, NEW qs, NEW mm, NEW lat, NEW lat2, NEW o, NEW a, NEW r,
           FillStep(cs2, cs, qs2, qs, mm, lat, lat2, o, a, r)
    PROVE  StateOK(cs2, qs2)
<1>1. FilledQueues(qs2, qs, o, a, r)
  BY FillQueues
<1>2. /\ StateOK(cs, qs) /\ cs2 \in [Caches -> CacheRecords] /\ qs2 \in [Ports -> Seq(Responses)]
      /\ \A d \in Caches : qs2[d] = cs2[d].snoopRespQueue
  BY DEF FillStep, Protocol
<1>3. CacheOK(cs2[r])
  BY DEF FillStep, FillOK
<1>4. ASSUME NEW d \in Caches \ {r} PROVE CacheOK(cs2[d])
  <2>1. /\ cs2[d].status = cs[d].status /\ cs2[d].mshr = cs[d].mshr
        /\ cs2[d].writeback = cs[d].writeback
    BY DEF FillStep
  <2>2. CacheOK(cs[d]) /\ qs[d] = cs[d].snoopRespQueue
    BY <1>2 DEF StateOK
  <2>3. cs[d].snoopRespQueue = <<>> => cs2[d].snoopRespQueue = <<>>
    <3>1. d \in Ports \ {r}
      BY PortFacts
    <3>2. d = o => qs[d] # <<>>
      BY <1>1, <3>1 DEF FilledQueues
    <3>3. d # o => qs2[d] = qs[d]
      BY <1>1, <3>1 DEF FilledQueues
    <3> QED BY <1>2, <2>2, <3>2, <3>3
  <2>4. RegOK(cs2[d].mshr)
    BY <2>1, <2>2 DEF CacheOK
  <2> QED BY <2>1, <2>2, <2>3, <2>4 DEF CacheOK, HasMSHR, isValid, Busy, isWritable
<1> QED BY <1>2, <1>3, <1>4 DEF StateOK

LEMMA FillPromises ==
    ASSUME NEW cs2, NEW cs, NEW qs2, NEW qs, NEW mm, NEW lat, NEW lat2, NEW o, NEW a, NEW r,
           FillStep(cs2, cs, qs2, qs, mm, lat, lat2, o, a, r)
    PROVE  Owed(cs2, qs2) /\ OwedOnce(cs2) /\ Expected(cs2, qs2) /\ UpgradeReal(cs2, qs2)
<1>1. FilledFacts(cs2, cs, qs2, qs, lat, lat2, o, a, r)
  BY FillChanges
<1>2. Owed(cs, qs) /\ OwedOnce(cs) /\ Expected(cs, qs) /\ UpgradeReal(cs, qs) /\ r \in Caches
  BY <1>1 DEF FillStep, Protocol, FilledFacts, FilledQueues
<1>3. Owed(cs2, qs2)
  <2> SUFFICES ASSUME NEW p \in Caches, Claiming(cs2[p])
               PROVE  /\ SavedOK(cs2[p].mshr)
                      /\ \A k \in DOMAIN cs2[p].mshr.targets.list :
                           IsSnoop(cs2[p].mshr.targets.list[k]) =>
                              OwedOK(cs2, qs2, p, cs2[p].mshr.targets.list[k])
    BY DEF Owed
  <2>1. p # r /\ cs2[p].mshr = cs[p].mshr /\ Claiming(cs[p]) /\ SameReg(cs2[p], cs[p])
    BY <1>1 DEF FilledFacts, SameReg
  <2> DEFINE u == cs[p].mshr.targets.list
  <2>2. SavedOK(cs[p].mshr) /\ \A k \in DOMAIN u : IsSnoop(u[k]) => OwedOK(cs, qs, p, u[k])
    BY <1>2, <2>1 DEF Owed
  <2>3. ASSUME NEW k \in DOMAIN u, IsSnoop(u[k]) PROVE OwedOK(cs2, qs2, p, u[k])
    <3> DEFINE q == u[k].order
    <3>1. OwedOK(cs, qs, p, u[k]) /\ Promised(cs, p, q)
      BY <2>1, <2>2, <2>3 DEF Promised
    <3>2. /\ q \in Caches \ {p} /\ ~Real(qs, q)
          /\ IsRead(u[k]) => Reading(cs[q]) /\ (Doomed(cs[p]) => Doomed(cs[q]))
          /\ IsClaim(u[k]) => Claiming(cs[q])
      BY <3>1 DEF OwedOK
    <3> HIDE DEF u, q
    <3>3. q # r /\ ~Promised(cs, r, q)
      BY <1>1, <1>2, <2>1, <3>1, <3>2 DEF FilledFacts, OwedOnce
    <3>4. ~Real(qs2, q)
      BY <1>1, <3>2, <3>3 DEF FilledFacts
    <3>5. SameReg(cs2[q], cs[q])
      BY <1>1, <3>2, <3>3 DEF FilledFacts
    <3> QED BY <2>1, <3>2, <3>4, <3>5 DEF OwedOK, SameReg, q
  <2> QED BY <2>1, <2>2, <2>3
<1>4. OwedOnce(cs2)
  BY <1>1, <1>2 DEF OwedOnce, FilledFacts
<1>5. Expected(cs2, qs2)
  <2> SUFFICES ASSUME NEW q \in Caches, Busy(cs2[q])
               PROVE  Real(qs2, q) \/ \E p \in Caches : Promised(cs2, p, q)
    BY DEF Expected
  <2>1. q # r /\ Busy(cs[q])
    BY <1>1 DEF FilledFacts, SameReg
  <2>2. Real(qs, q) \/ \E p \in Caches : Promised(cs, p, q)
    BY <1>2, <2>1 DEF Expected
  <2> QED BY <1>1, <2>1, <2>2 DEF FilledFacts
<1>6. UpgradeReal(cs2, qs2)
  BY <1>1, <1>2 DEF UpgradeReal, FilledFacts, SameReg
<1> QED BY <1>3, <1>4, <1>5, <1>6

LEMMA FillApart ==
    ASSUME NEW cs2, NEW cs, NEW qs2, NEW qs, NEW mm, NEW lat, NEW lat2, NEW o, NEW a, NEW r,
           FillStep(cs2, cs, qs2, qs, mm, lat, lat2, o, a, r)
    PROVE  /\ ClaimAlone(cs2) /\ ReadAlone(cs2, qs2) /\ WriteAlone(cs2) /\ OneOwner(cs2)
           /\ OneRealClaim(cs2, qs2) /\ LastClaim(cs2)
<1>1. FilledFacts(cs2, cs, qs2, qs, lat, lat2, o, a, r)
  BY FillChanges
<1>2. FilledAlone(cs2, cs, qs, lat, lat2, a, r)
  BY FillAlone
<1>3. /\ StateOK(cs, qs) /\ Owed(cs, qs) /\ Expected(cs, qs) /\ ClaimAlone(cs)
      /\ ReadAlone(cs, qs) /\ WriteAlone(cs) /\ OneOwner(cs) /\ OneRealClaim(cs, qs)
      /\ LastClaim(cs) /\ r \in Caches
  BY <1>1 DEF FillStep, Protocol, FilledFacts, FilledQueues
<1>4. /\ \A q : Promised(cs, r, q) =>
           /\ q \in Caches \ {r} /\ ~Real(qs, q)
           /\ \/ Reading(cs[q]) /\ (Doomed(cs[r]) => Doomed(cs[q]))
              \/ Claiming(cs[q]) /\ Doomed(cs[r])
      /\ \A q, x : /\ Promised(cs, r, q) /\ Claiming(cs[q])
                   /\ Promised(cs, r, x) /\ Claiming(cs[x])
                   => q = x
  BY <1>3, Debts
<1>5. ClaimAlone(cs2)
  <2> SUFFICES ASSUME NEW p \in Caches, Claiming(cs2[p]), NEW q \in Caches \ {p}
               PROVE  ~cs2[q].writeback.pending /\ (isValid(cs2[q]) => Busy(cs2[q]))
    BY DEF ClaimAlone
  <2>1. p # r /\ Claiming(cs[p])
    BY <1>1 DEF FilledFacts, SameReg
  <2>2. CASE q # r
    BY <1>1, <1>3, <2>1, <2>2 DEF FilledFacts, SameReg, ClaimAlone
  <2>3. CASE q = r
    BY <1>2, <2>1, <2>3 DEF FilledAlone
  <2> QED BY <2>2, <2>3
<1>6. ReadAlone(cs2, qs2)
  <2> SUFFICES ASSUME NEW q \in Caches, Reading(cs2[q]), ~Doomed(cs2[q]), Real(qs2, q),
                      NEW p \in Caches
               PROVE  ~Claiming(cs2[p]) /\ ~isWritable(cs2[p])
    BY DEF ReadAlone
  <2>1. q # r /\ Reading(cs[q]) /\ ~Doomed(cs[q]) /\ Busy(cs[q]) /\ ~Claiming(cs[q])
    BY <1>1 DEF FilledFacts, SameReg
  <2>2. CASE Real(qs, q)
    <3>1. \A x \in Caches : ~Claiming(cs[x]) /\ ~isWritable(cs[x])
      BY <1>3, <2>1, <2>2 DEF ReadAlone
    <3>2. CASE p # r
      BY <1>1, <3>1, <3>2 DEF FilledFacts, SameReg
    <3>3. CASE p = r
      <4>1. Reading(cs[r])
        BY <1>1, <1>3, <3>1 DEF FilledFacts
      <4>2. ~isWritable(cs2[r])
        BY <1>2, <2>1, <4>1 DEF FilledAlone
      <4> QED BY <1>1, <3>3, <4>2 DEF FilledFacts
    <3> QED BY <3>2, <3>3
  <2>3. CASE Promised(cs, r, q)
    <3>1. ~Doomed(cs[r])
      BY <1>4, <2>1, <2>3
    <3>2. Claiming(cs[r])
      BY <2>3 DEF Promised
    <3>3. CASE p = r
      BY <1>1, <1>2, <2>3, <3>3 DEF FilledFacts, FilledAlone
    <3>4. CASE p # r
      <4>1. ~Claiming(cs[p])
        BY <1>2, <3>1, <3>4 DEF FilledAlone
      <4>2. ~isWritable(cs[p])
        BY <1>1, <1>3, <3>2, <3>4 DEF WriteAlone, FilledFacts
      <4> QED BY <1>1, <3>4, <4>1, <4>2 DEF FilledFacts, SameReg
    <3> QED BY <3>3, <3>4
  <2> QED BY <1>1, <2>2, <2>3 DEF FilledFacts
<1>7. WriteAlone(cs2)
  <2> SUFFICES ASSUME NEW p \in Caches, isWritable(cs2[p]), NEW q \in Caches \ {p}
               PROVE  /\ ~isValid(cs2[q]) /\ ~cs2[q].writeback.pending
                      /\ Busy(cs2[q]) => Reading(cs2[q]) /\ Doomed(cs2[q])
    BY DEF WriteAlone
  <2>1. CASE p # r
    <3>1. /\ ~isValid(cs[q]) /\ ~cs[q].writeback.pending
          /\ Busy(cs[q]) => Reading(cs[q]) /\ Doomed(cs[q])
      BY <1>1, <1>3, <2>1 DEF FilledFacts, WriteAlone
    <3>2. CASE q # r
      BY <1>1, <3>1, <3>2 DEF FilledFacts, SameReg
    <3>3. CASE q = r
      BY <1>1, <1>2, <3>1, <3>3 DEF FilledFacts, FilledAlone
    <3> QED BY <3>2, <3>3
  <2>2. CASE p = r
    <3>1. /\ ~Doomed(cs[r]) /\ ~Lowered(cs[r]) /\ ~a.shared
          /\ \A x \in Caches : ~Promised(cs, r, x)
      BY <1>2, <2>2 DEF FilledAlone
    <3>2. /\ ~isValid(cs[q]) /\ ~cs[q].writeback.pending
          /\ Busy(cs[q]) => Reading(cs[q]) /\ Doomed(cs[q])
      <4>1. CASE Reading(cs[r])
        BY <1>2, <2>2, <3>1, <4>1 DEF FilledAlone
      <4>2. CASE Claiming(cs[r])
        <5>1. \A x \in Caches \ {r} : ~Claiming(cs[x])
          BY <1>2, <3>1 DEF FilledAlone
        <5>2. Busy(cs[q]) => Reading(cs[q])
          BY <1>1, <2>2, <5>1 DEF FilledFacts
        <5>3. Busy(cs[q]) => Real(qs, q)
          BY <1>3, <3>1, <5>1 DEF Expected, Promised
        <5>4. Busy(cs[q]) => Doomed(cs[q])
          BY <1>3, <4>2, <5>2, <5>3 DEF ReadAlone
        <5>5. Reading(cs[q]) => ~isValid(cs[q])
          BY <1>3, Kinds
        <5>6. ~cs[q].writeback.pending /\ (isValid(cs[q]) => Busy(cs[q]))
          BY <1>3, <2>2, <4>2 DEF ClaimAlone
        <5> QED BY <5>2, <5>4, <5>5, <5>6
      <4> QED BY <1>1, <4>1, <4>2 DEF FilledFacts
    <3> QED BY <1>1, <2>2, <3>2 DEF FilledFacts, SameReg
  <2> QED BY <2>1, <2>2
<1>8. OneOwner(cs2)
  BY <1>1, <1>2, <1>3 DEF OneOwner, FilledFacts, FilledAlone
<1>9. OneRealClaim(cs2, qs2)
  <2> SUFFICES ASSUME NEW p \in Caches, NEW q \in Caches, Claiming(cs2[p]), Claiming(cs2[q]),
                      Real(qs2, p), Real(qs2, q)
               PROVE  p = q
    BY DEF OneRealClaim
  <2>1. p # r /\ q # r /\ Claiming(cs[p]) /\ Claiming(cs[q])
    BY <1>1 DEF FilledFacts, SameReg
  <2>2. CASE Claiming(cs[r])
    <3>1. ~Real(qs, p) /\ ~Real(qs, q)
      BY <1>1, <1>3, <2>1, <2>2 DEF OneRealClaim, FilledFacts
    <3>2. Promised(cs, r, p) /\ Promised(cs, r, q)
      BY <1>1, <3>1 DEF FilledFacts
    <3> QED BY <1>4, <2>1, <3>2
  <2>3. CASE ~Claiming(cs[r])
    <3>1. Real(qs, p) /\ Real(qs, q)
      BY <1>1, <2>3 DEF FilledFacts, Promised
    <3> QED BY <1>3, <2>1, <3>1 DEF OneRealClaim
  <2> QED BY <2>2, <2>3
<1>10. LastClaim(cs2)
  <2> SUFFICES ASSUME NEW p \in Caches, Claiming(cs2[p])
               PROVE  \E q \in Caches : Claiming(cs2[q]) /\ ~Doomed(cs2[q])
    BY DEF LastClaim
  <2>1. p # r /\ Claiming(cs[p])
    BY <1>1 DEF FilledFacts, SameReg
  <2>2. PICK q \in Caches : Claiming(cs[q]) /\ ~Doomed(cs[q])
    BY <1>3, <2>1 DEF LastClaim
  <2>3. q # r
    BY <1>2, <2>1, <2>2 DEF FilledAlone
  <2> QED BY <1>1, <2>2, <2>3 DEF FilledFacts, SameReg
<1> QED BY <1>5, <1>6, <1>7, <1>8, <1>9, <1>10

(* The answers that the fill leaves: those of the other ports, and those   *)
(* of cache r to the requests it has saved.                                *)
LEMMA FillRoutes ==
    ASSUME NEW cs2, NEW cs, NEW qs2, NEW qs, NEW mm, NEW lat, NEW lat2, NEW o, NEW a, NEW r,
           FillStep(cs2, cs, qs2, qs, mm, lat, lat2, o, a, r)
    PROVE  Routes(cs2, qs2, lat2)
<1>1. FilledFacts(cs2, cs, qs2, qs, lat, lat2, o, a, r)
  BY FillChanges
<1>2. FilledAlone(cs2, cs, qs, lat, lat2, a, r)
  BY FillAlone
<1>3. FilledQueues(qs2, qs, o, a, r) /\ r \in Caches /\ r # 0
  BY <1>1, PortFacts DEF FilledFacts, FilledQueues
<1>4. /\ StateOK(cs, qs) /\ Routes(cs, qs, lat) /\ Owed(cs, qs) /\ UpgradeReal(cs, qs)
      /\ AllReady(cs, lat) /\ FillOK(cs2[r], cs[r], a, lat, lat2)
      /\ \A d \in Caches : qs2[d] = cs2[d].snoopRespQueue
  BY DEF FillStep, Protocol
<1>5. lat \in Nat /\ lat2 \in Nat /\ lat2 >= lat
  BY <1>1 DEF FilledFacts
<1> DEFINE u == cs[r].mshr.targets.list
           inval == cs[r].mshr.postInvalidate
<1>6. ASSUME NEW i \in DOMAIN qs2[r]
      PROVE  \E k \in DOMAIN u : /\ IsSnoop(u[k]) /\ Claiming(cs[r])
                                 /\ OwedOK(cs, qs, r, u[k])
                                 /\ IsClaim(u[k]) => u[k].cmd = "ReadExReq"
                                 /\ qs2[r][i] = Reply(u[k].order, u[k].cmd, lat2, inval)
  <2>1. Claiming(cs[r])
    BY <1>1, <1>6 DEF FilledFacts
  <2>2. Answered(qs2[r], u, Len(u), lat2, inval)
    BY <1>3, <1>4, <2>1 DEF FillOK
  <2>3. Len(u) \in Nat /\ DOMAIN u = 1 .. Len(u)
    <3>1. cs[r] \in CacheRecords
      BY <1>3, <1>4 DEF StateOK
    <3>2. cs[r].mshr \in Regs
      BY <3>1, CacheFields
    <3> QED BY <3>2, RegFields
  <2>4. PICK k \in DOMAIN u : IsSnoop(u[k]) /\ qs2[r][i] = Reply(u[k].order, u[k].cmd, lat2, inval)
    BY <1>6, <2>2, <2>3 DEF Answered
  <2>5. OwedOK(cs, qs, r, u[k]) /\ SavedOK(cs[r].mshr)
    BY <1>3, <1>4, <2>1, <2>4 DEF Owed
  <2>6. IsClaim(u[k]) => u[k].cmd = "ReadExReq"
    BY <2>4, <2>5 DEF SavedOK
  <2> QED BY <2>1, <2>4, <2>5, <2>6
<1>7. ASSUME NEW i \in DOMAIN qs2[r]
      PROVE  AnswerOK(r, qs2[r][i], cs2[qs2[r][i].to], lat2) /\ ~Real(qs, qs2[r][i].to)
  <2>1. PICK k \in DOMAIN u : /\ IsSnoop(u[k]) /\ Claiming(cs[r])
                              /\ OwedOK(cs, qs, r, u[k])
                              /\ IsClaim(u[k]) => u[k].cmd = "ReadExReq"
                              /\ qs2[r][i] = Reply(u[k].order, u[k].cmd, lat2, inval)
    BY <1>6, <1>7
  <2> DEFINE t == u[k]
             q == t.order
             x == qs2[r][i]
  <2>2. /\ q \in Caches \ {r} /\ ~Real(qs, q)
        /\ IsRead(t) => Reading(cs[q]) /\ (Doomed(cs[r]) => Doomed(cs[q]))
        /\ IsClaim(t) => Claiming(cs[q])
    BY <2>1 DEF OwedOK
  <2>3. t.cmd \in SnoopCmds /\ t.cmd # "UpgradeReq" /\ (IsRead(t) <=> t.cmd = "ReadReq")
        /\ (IsClaim(t) <=> t.cmd = "ReadExReq")
    BY <2>1 DEF IsSnoop, IsRead, IsClaim, SnoopCmds
  <2>4. x = Reply(q, t.cmd, lat2, inval)
    BY <2>1
  <2> HIDE DEF t, q, x
  <2>5. /\ x.to = q /\ x.memInhibit
        /\ x.shared <=> t.cmd = "ReadReq"
        /\ t.cmd = "ReadReq" => x.cmd = IF inval THEN "ReadRespWithInvalidate" ELSE "ReadResp"
        /\ t.cmd = "ReadExReq" => x.cmd = "ReadExResp"
        /\ x.data = lat2
    BY <1>5, <2>2, <2>3, <2>4, ReplyFacts
  <2>6. /\ SameReg(cs2[q], cs[q]) /\ cs2[q].mshr = cs[q].mshr
        /\ isValid(cs2[q]) <=> isValid(cs[q])
    BY <1>1, <2>2 DEF FilledFacts
  <2>7. lat2 <= lat2 /\ \A k2 \in DOMAIN cs2[q].mshr.targets.list :
             cs2[q].mshr.targets.list[k2].readyTime <= lat2
    <3>1. cs[q] \in CacheRecords /\ ReadyOK(cs[q], lat)
      BY <1>4, <2>2 DEF StateOK, AllReady
    <3>2. ReadyOK(cs[q], lat2)
      BY <1>5, <3>1, LaterReady
    <3> QED BY <1>5, <2>6, <3>2 DEF ReadyOK
  <2>8. CASE IsRead(t)
    <3>1. /\ Reading(cs2[q]) /\ Busy(cs2[q]) /\ ~Claiming(cs2[q])
          /\ inval => Doomed(cs2[q])
      BY <2>2, <2>6, <2>8 DEF SameReg, Reading, Claiming, Doomed
    <3>2. AnswerOK(r, x, cs2[q], lat2)
      BY <1>3, <2>3, <2>5, <2>7, <2>8, <3>1 DEF AnswerOK
    <3> QED BY <2>2, <2>5, <3>2 DEF x
  <2>9. CASE IsClaim(t)
    <3>1. Claiming(cs2[q]) /\ Busy(cs2[q]) /\ ~Reading(cs2[q]) /\ Busy(cs[q])
      BY <2>2, <2>6, <2>9 DEF SameReg, Reading, Claiming
    <3>2. ~isValid(cs2[q])
      BY <1>4, <2>2, <2>6, <3>1 DEF UpgradeReal
    <3>3. AnswerOK(r, x, cs2[q], lat2)
      BY <1>3, <2>3, <2>5, <2>9, <3>1, <3>2 DEF AnswerOK
    <3> QED BY <2>2, <2>5, <3>3 DEF x
  <2> QED BY <2>1, <2>8, <2>9 DEF t, IsSnoop
<1>8. ASSUME NEW p \in Ports \ {r}, NEW i \in DOMAIN qs2[p]
      PROVE  AnswerOK(p, qs2[p][i], cs2[qs2[p][i].to], lat2) /\ Real(qs, qs2[p][i].to)
  <2> DEFINE j == Before(o, p, i)
             q == qs2[p][i].to
             x == qs2[p][i]
  <2>1. j \in DOMAIN qs[p] /\ x = qs[p][j] /\ q \in Caches \ {r}
    BY <1>3, <1>8 DEF FilledQueues
  <2>2. Real(qs, q) /\ AnswerOK(p, x, cs[q], lat) /\ Busy(cs[q]) /\ x \in Responses
    <3>1. AnswerOK(p, x, cs[q], lat)
      BY <1>4, <2>1 DEF Routes
    <3>2. Real(qs, q)
      BY <2>1 DEF Real
    <3>3. qs[p][j] \in Responses
      BY <1>4, <2>1, QueueTypes
    <3> QED BY <2>1, <3>1, <3>2, <3>3 DEF AnswerOK
  <2> HIDE DEF j, q, x
  <2>3. /\ SameReg(cs2[q], cs[q]) /\ cs2[q].mshr = cs[q].mshr /\ cs2[q].data = cs[q].data
        /\ isValid(cs2[q]) <=> isValid(cs[q])
    BY <1>1, <2>1 DEF FilledFacts
  <2>4. \A l : AnswerOK(p, x, cs[q], l) => AnswerOK(p, x, cs2[q], l)
    BY <2>3 DEF AnswerOK, SameReg
  <2>5. AnswerOK(p, x, cs[q], lat2)
    <3>1. CASE lat2 = lat
      BY <2>2, <3>1
    <3>2. CASE lat2 > lat
      <4>1. Reading(cs[q]) /\ Doomed(cs[q])
        BY <1>2, <2>1, <2>2, <3>2 DEF FilledAlone
      <4>2. x.data \in Nat
        BY <2>2 DEF Responses
      <4> QED BY <1>5, <2>2, <4>1, <4>2, DoomedAnswer
    <3> QED BY <1>5, <3>1, <3>2
  <2> QED BY <2>2, <2>4, <2>5 DEF q, x
<1>9. ASSUME NEW p \in Ports, NEW d \in Ports, NEW i \in DOMAIN qs2[p], NEW j \in DOMAIN qs2[d],
             qs2[p][i].to = qs2[d][j].to
      PROVE  p = d /\ i = j
  <2>1. CASE p = r /\ d = r
    <3>1. Claiming(cs[r])
      BY <1>1, <1>9, <2>1 DEF FilledFacts
    <3>2. Answered(qs2[r], u, Len(u), lat2, inval)
      BY <1>3, <1>4, <3>1 DEF FillOK
    <3> QED BY <1>9, <2>1, <3>2 DEF Answered
  <2>2. CASE p # r /\ d # r
    <3>1. /\ Before(o, p, i) \in DOMAIN qs[p] /\ qs2[p][i] = qs[p][Before(o, p, i)] /\ i \in Nat
          /\ Before(o, d, j) \in DOMAIN qs[d] /\ qs2[d][j] = qs[d][Before(o, d, j)] /\ j \in Nat
      BY <1>3, <1>9, <2>2 DEF FilledQueues
    <3>2. p = d /\ Before(o, p, i) = Before(o, d, j)
      BY <1>4, <1>9, <3>1 DEF Routes
    <3> QED BY <3>1, <3>2 DEF Before
  <2>3. CASE ~(p = r <=> d = r)
    BY <1>7, <1>8, <1>9, <2>3
  <2> QED BY <2>1, <2>2, <2>3
<1>10. \A p \in Ports : \A i \in DOMAIN qs2[p] :
          AnswerOK(p, qs2[p][i], cs2[qs2[p][i].to], lat2)
  BY <1>7, <1>8
<1> QED BY <1>9, <1>10 DEF Routes

LEMMA FillOwners ==
    ASSUME NEW cs2, NEW cs, NEW qs2, NEW qs, NEW mm, NEW lat, NEW lat2, NEW o, NEW a, NEW r,
           FillStep(cs2, cs, qs2, qs, mm, lat, lat2, o, a, r)
    PROVE  ClaimLast(cs2, qs2) /\ OwnersAnswer(cs2, qs2)
<1>1. FilledFacts(cs2, cs, qs2, qs, lat, lat2, o, a, r)
  BY FillChanges
<1>2. FilledAlone(cs2, cs, qs, lat, lat2, a, r)
  BY FillAlone
<1>3. FilledQueues(qs2, qs, o, a, r) /\ r \in Caches /\ Caches \subseteq Ports
  BY <1>1, PortFacts DEF FilledFacts, FilledQueues
<1>4. /\ StateOK(cs, qs) /\ Owed(cs, qs) /\ ClaimLast(cs, qs) /\ OwnersAnswer(cs, qs)
      /\ FillOK(cs2[r], cs[r], a, lat, lat2)
      /\ \A d \in Caches : qs2[d] = cs2[d].snoopRespQueue
  BY DEF FillStep, Protocol
<1>5. \A d \in Caches : Claiming(cs2[d]) <=> d # r /\ Claiming(cs[d])
  BY <1>1 DEF FilledFacts, SameReg
<1>6. ASSUME NEW i \in DOMAIN qs2[r], Claiming(cs2[qs2[r][i].to])
      PROVE  i = Len(qs2[r])
  <2> DEFINE u == cs[r].mshr.targets.list
             inval == cs[r].mshr.postInvalidate
             q == qs2[r][i].to
  <2>1. Claiming(cs[r]) /\ Promised(cs, r, q)
    BY <1>1, <1>6 DEF FilledFacts
  <2>2. q \in Caches
    BY <1>3, <1>4, <2>1, Debts
  <2>3. Claiming(cs[q]) /\ ~Reading(cs[q])
    BY <1>5, <1>6, <2>2 DEF Claiming, Reading
  <2>4. Answered(qs2[r], u, Len(u), lat2, inval)
    BY <1>3, <1>4, <2>1 DEF FillOK
  <2>5. Len(u) \in Nat /\ DOMAIN u = 1 .. Len(u)
    <3>1. cs[r] \in CacheRecords
      BY <1>3, <1>4 DEF StateOK
    <3>2. cs[r].mshr \in Regs
      BY <3>1, CacheFields
    <3> QED BY <3>2, RegFields
  <2>6. PICK k \in DOMAIN u : IsSnoop(u[k]) /\ qs2[r][i] = Reply(u[k].order, u[k].cmd, lat2, inval)
    BY <1>6, <2>4, <2>5 DEF Answered
  <2>7. u[k].order = q
    BY <2>6 DEF Reply, Response
  <2>8. OwedOK(cs, qs, r, u[k]) /\ SavedOK(cs[r].mshr)
    BY <1>3, <1>4, <2>1, <2>6 DEF Owed
  <2>9. u[k].cmd = "ReadExReq"
    BY <2>3, <2>6, <2>7, <2>8 DEF OwedOK, SavedOK, IsSnoop
  <2>10. qs2[r][i].cmd = "ReadExResp"
    BY <2>6, <2>9 DEF Reply, Response
  <2> QED BY <1>6, <2>4, <2>10 DEF Answered
<1>7. ASSUME NEW p \in Caches, NEW i \in DOMAIN qs2[p], Claiming(cs2[qs2[p][i].to])
      PROVE  i = Len(qs2[p])
  <2>1. CASE p = r
    BY <1>6, <1>7, <2>1
  <2>2. CASE p # r
    <3>1. /\ Before(o, p, i) \in DOMAIN qs[p] /\ qs2[p][i] = qs[p][Before(o, p, i)]
          /\ qs2[p][i].to \in Caches /\ i \in Nat
      BY <1>3, <1>7, <2>2 DEF FilledQueues
    <3>2. Claiming(cs[qs[p][Before(o, p, i)].to])
      BY <1>5, <1>7, <3>1
    <3>3. Before(o, p, i) = Len(qs[p])
      BY <1>4, <3>1, <3>2 DEF ClaimLast
    <3>4. CASE p = o
      <4>1. Len(qs[o]) \in Nat /\ Len(qs2[o]) = Len(qs[o]) - 1
        BY <1>3 DEF FilledQueues
      <4>2. i + 1 = Len(qs[o])
        BY <3>3, <3>4 DEF Before
      <4> QED BY <3>1, <3>4, <4>1, <4>2
    <3>5. CASE p # o
      BY <1>3, <2>2, <3>3, <3>5 DEF FilledQueues, Before
    <3> QED BY <3>4, <3>5
  <2> QED BY <2>1, <2>2
<1>8. ASSUME NEW p \in Caches, qs2[p] # <<>>
      PROVE  Owns(cs2[p]) \/ \E i \in DOMAIN qs2[p] : Claiming(cs2[qs2[p][i].to])
  <2>1. CASE p = r
    <3>1. Claiming(cs[r]) /\ lat2 > lat
      BY <1>1, <1>8, <2>1 DEF FilledFacts
    <3>2. ~Doomed(cs[r]) => Owns(cs2[r])
      BY <1>2, <3>1 DEF FilledAlone
    <3>3. Doomed(cs[r]) => \E q \in Caches \ {r} : Promised(cs, r, q) /\ Claiming(cs[q])
      BY <1>3, <1>4, <3>1, Debts
    <3>4. \A q : Promised(cs, r, q) => \E i \in DOMAIN qs2[r] : qs2[r][i].to = q
      BY <1>1 DEF FilledFacts
    <3> QED BY <1>5, <2>1, <3>2, <3>3, <3>4
  <2>2. CASE p # r
    <3>1. qs[p] # <<>>
      BY <1>3, <1>8, <2>2 DEF FilledQueues
    <3>2. Owns(cs[p]) => Owns(cs2[p])
      BY <1>1, <2>2 DEF FilledFacts
    <3>3. ASSUME NEW i \in DOMAIN qs[p], Claiming(cs[qs[p][i].to])
          PROVE  \E j \in DOMAIN qs2[p] : Claiming(cs2[qs2[p][j].to])
      <4>1. CASE qs[p][i].to = r
        <5>1. p = o /\ i = 1
          BY <1>3, <3>3, <4>1 DEF FilledQueues
        <5>2. Len(qs[o]) = 1
          BY <1>4, <3>3, <5>1 DEF ClaimLast
        <5>3. Len(qs2[o]) = 0
          BY <1>3, <5>2 DEF FilledQueues
        <5>4. qs2[o] \in Seq(Responses)
          BY <1>3, <1>8, <5>1 DEF FillStep
        <5>5. qs2[o] = <<>>
          BY ONLY <5>3, <5>4
        <5> QED BY <1>8, <5>1, <5>5
      <4>2. CASE qs[p][i].to # r
        <5>1. PICK j \in DOMAIN qs2[p] : i = Before(o, p, j)
          BY <1>3, <3>3, <4>2 DEF FilledQueues
        <5>2. qs2[p][j] = qs[p][i] /\ qs2[p][j].to \in Caches
          BY <1>3, <2>2, <5>1 DEF FilledQueues
        <5> QED BY <1>5, <3>3, <4>2, <5>2
      <4> QED BY <4>1, <4>2
    <3> QED BY <1>4, <3>1, <3>2, <3>3 DEF OwnersAnswer
  <2> QED BY <2>1, <2>2
<1> QED BY <1>7, <1>8 DEF ClaimLast, OwnersAnswer

LEMMA FillOnly ==
    ASSUME NEW cs2, NEW cs, NEW qs2, NEW qs, NEW mm, NEW lat, NEW lat2, NEW o, NEW a, NEW r,
           FillStep(cs2, cs, qs2, qs, mm, lat, lat2, o, a, r)
    PROVE  OnlyCopy(cs2, qs2)
<1>1. FilledFacts(cs2, cs, qs2, qs, lat, lat2, o, a, r)
  BY FillChanges
<1>2. FilledAlone(cs2, cs, qs, lat, lat2, a, r)
  BY FillAlone
<1>3. FilledQueues(qs2, qs, o, a, r) /\ r \in Caches /\ 0 \in Ports \ {r}
  BY <1>1, PortFacts DEF FilledFacts, FilledQueues
<1>4. OnlyCopy(cs, qs)
  BY DEF FillStep, Protocol
<1>5. \A i \in DOMAIN qs2[0] :
         /\ Before(o, 0, i) \in DOMAIN qs[0] /\ qs2[0][i] = qs[0][Before(o, 0, i)]
         /\ qs2[0][i].to \in Caches \ {r} /\ i \in Nat
  BY <1>3 DEF FilledQueues
<1> SUFFICES ASSUME NEW i \in DOMAIN qs2[0], Unshared(cs2, qs2, i)
             PROVE  /\ \A p \in Caches : /\ cs2[p].status = {} /\ ~cs2[p].writeback.pending
                                         /\ qs2[p] = <<>>
                    /\ \A j \in DOMAIN qs2[0] : j < i =>
                          Reading(cs2[qs2[0][j].to]) /\ Doomed(cs2[qs2[0][j].to])
                    /\ ~Doomed(cs2[qs2[0][i].to]) /\ ~Lowered(cs2[qs2[0][i].to]) =>
                          \A q \in Caches \ {qs2[0][i].to} :
                              Busy(cs2[q]) => Reading(cs2[q]) /\ Doomed(cs2[q])
  BY DEF OnlyCopy
<1> DEFINE h == Before(o, 0, i)
           d == qs2[0][i].to
<1>6. h \in DOMAIN qs[0] /\ qs2[0][i] = qs[0][h] /\ d \in Caches \ {r} /\ d = qs[0][h].to
  BY <1>5
<1>7. SameReg(cs2[d], cs[d])
  BY <1>1, <1>6 DEF FilledFacts
<1>8. Unshared(cs, qs, h)
  BY <1>6, <1>7 DEF Unshared, SameReg
<1>9. /\ \A p \in Caches : cs[p].status = {} /\ ~cs[p].writeback.pending /\ qs[p] = <<>>
      /\ \A j \in DOMAIN qs[0] : j < h => Reading(cs[qs[0][j].to]) /\ Doomed(cs[qs[0][j].to])
      /\ ~Doomed(cs[d]) /\ ~Lowered(cs[d]) =>
            \A q \in Caches \ {d} : Busy(cs[q]) => Reading(cs[q]) /\ Doomed(cs[q])
  BY <1>4, <1>6, <1>8 DEF OnlyCopy
<1>10. o = 0
  <2>1. qs[o] # <<>>
    BY DEF FillStep
  <2> QED BY <1>3, <1>9, <2>1, PortFacts DEF FilledQueues
<1>11. h = i + 1 /\ \A j \in DOMAIN qs2[0] : Before(o, 0, j) = j + 1
  BY <1>10 DEF Before
<1>12. Reading(cs[r]) /\ Doomed(cs[r])
  <2>1. 1 \in DOMAIN qs[0] /\ qs[0][1].to = r
    BY <1>3, <1>10 DEF FilledQueues
  <2>2. i \in Nat /\ i # 0
    <3>1. i \in Nat
      BY <1>5
    <3>2. qs2[0] \in Seq(Responses)
      BY <1>3 DEF FillStep
    <3> QED BY <3>1, <3>2
  <2>3. 1 < h
    BY <1>11, <2>2
  <2> QED BY <1>9, <2>1, <2>3
<1> HIDE DEF h, d
<1>13. \A p \in Caches : cs2[p].status = {} /\ ~cs2[p].writeback.pending
  BY <1>1, <1>2, <1>9, <1>12 DEF FilledFacts, FilledAlone
<1>14. \A p \in Caches : qs2[p] = <<>>
  <2>1. qs2[r] = <<>>
    BY <1>1, <1>12 DEF FilledFacts
  <2>2. \A p \in Caches \ {r} : p \in Ports \ {o, r}
    BY <1>10, PortFacts
  <2>3. \A p \in Caches \ {r} : qs2[p] = qs[p]
    BY <1>3, <2>2 DEF FilledQueues
  <2> QED BY <1>9, <2>1, <2>3
<1>15. ASSUME NEW j \in DOMAIN qs2[0], j < i
       PROVE  Reading(cs2[qs2[0][j].to]) /\ Doomed(cs2[qs2[0][j].to])
  <2> DEFINE q == qs2[0][j].to
  <2>1. j + 1 \in DOMAIN qs[0] /\ qs2[0][j] = qs[0][j + 1] /\ q \in Caches \ {r} /\ j \in Nat
    BY <1>5, <1>11, <1>15
  <2>2. j + 1 < h
    BY <1>5, <1>11, <1>15, <2>1
  <2>3. Reading(cs[q]) /\ Doomed(cs[q])
    BY <1>9, <2>1, <2>2
  <2>4. SameReg(cs2[q], cs[q])
    BY <1>1, <2>1 DEF FilledFacts
  <2> QED BY <2>3, <2>4 DEF SameReg
<1>16. ~Doomed(cs2[d]) /\ ~Lowered(cs2[d]) =>
          \A q \in Caches \ {d} : Busy(cs2[q]) => Reading(cs2[q]) /\ Doomed(cs2[q])
  BY <1>1, <1>7, <1>9 DEF FilledFacts, SameReg
<1> QED BY <1>13, <1>14, <1>15, <1>16 DEF d

LEMMA FillData ==
    ASSUME NEW cs2, NEW cs, NEW qs2, NEW qs, NEW mm, NEW lat, NEW lat2, NEW o, NEW a, NEW r,
           FillStep(cs2, cs, qs2, qs, mm, lat, lat2, o, a, r)
    PROVE  Current(cs2, lat2) /\ MemCurrent(cs2, mm, lat2) /\ AllReady(cs2, lat2)
<1>1. FilledFacts(cs2, cs, qs2, qs, lat, lat2, o, a, r)
  BY FillChanges
<1>2. FilledAlone(cs2, cs, qs, lat, lat2, a, r)
  BY FillAlone
<1>3. /\ StateOK(cs, qs) /\ Owed(cs, qs) /\ Current(cs, lat) /\ MemCurrent(cs, mm, lat)
      /\ AllReady(cs, lat) /\ FillOK(cs2[r], cs[r], a, lat, lat2) /\ mm \in Nat
      /\ r \in Caches /\ cs2 \in [Caches -> CacheRecords]
  BY <1>1 DEF FillStep, Protocol, FilledFacts, FilledQueues
<1>4. lat \in Nat /\ lat2 \in Nat /\ (lat2 > lat \/ lat2 = lat)
  BY <1>1 DEF FilledFacts
<1>5. Current(cs2, lat2)
  <2>1. /\ isValid(cs2[r]) => cs2[r].data = lat2
        /\ cs2[r].writeback.pending => cs2[r].writeback.data = lat2
    BY <1>3 DEF FillOK
  <2>2. ASSUME NEW q \in Caches \ {r}
        PROVE  /\ isValid(cs2[q]) /\ ~Busy(cs2[q]) => cs2[q].data = lat2
               /\ cs2[q].writeback.pending => cs2[q].writeback.data = lat2
    <3>1. /\ Busy(cs2[q]) <=> Busy(cs[q])
          /\ isValid(cs2[q]) <=> isValid(cs[q])
          /\ cs2[q].data = cs[q].data /\ cs2[q].writeback = cs[q].writeback
      BY <1>1 DEF FilledFacts, SameReg
    <3>2. lat2 > lat => ~cs[q].writeback.pending /\ (isValid(cs[q]) => Busy(cs[q]))
      BY <1>2 DEF FilledAlone
    <3>3. /\ isValid(cs[q]) /\ ~Busy(cs[q]) => cs[q].data = lat
          /\ cs[q].writeback.pending => cs[q].writeback.data = lat
      BY <1>3 DEF Current
    <3> QED BY <1>4, <3>1, <3>2, <3>3
  <2> QED BY <2>1, <2>2 DEF Current
<1>6. MemCurrent(cs2, mm, lat2)
  <2>1. mm <= lat2
    BY <1>1, <1>3 DEF MemCurrent, FilledFacts
  <2>2. ASSUME \A q \in Caches : ~Owns(cs2[q]) /\ ~Claiming(cs2[q]) PROVE mm = lat2
    <3>1. \A q \in Caches \ {r} : ~Owns(cs[q]) /\ ~Claiming(cs[q])
      BY <1>1, <2>2 DEF FilledFacts, SameReg
    <3>2. ~Claiming(cs[r]) /\ lat2 = lat
      <4>1. Claiming(cs[r]) => ~Doomed(cs[r])
        BY <1>3, <3>1, Debts
      <4>2. ~(lat2 > lat)
        BY <1>1, <1>2, <1>3, <2>2, <4>1 DEF FilledFacts, FilledAlone
      <4> QED BY <1>1, <1>4, <4>2 DEF FilledFacts
    <3>3. \A q \in Caches : ~Owns(cs[q]) /\ ~Claiming(cs[q])
      BY <1>1, <3>1, <3>2 DEF FilledFacts
    <3> QED BY <1>3, <3>2, <3>3 DEF MemCurrent
  <2> QED BY <2>1, <2>2 DEF MemCurrent
<1>7. AllReady(cs2, lat2)
  <2>1. ReadyOK(cs2[r], lat2)
    BY <1>3 DEF FillOK
  <2>2. ASSUME NEW q \in Caches \ {r} PROVE ReadyOK(cs2[q], lat2)
    <3>1. cs2[q].mshr = cs[q].mshr /\ ReadyOK(cs[q], lat) /\ cs[q] \in CacheRecords
      BY <1>1, <1>3 DEF FilledFacts, AllReady, StateOK
    <3>2. lat2 >= lat
      BY <1>1 DEF FilledFacts
    <3>3. ReadyOK(cs[q], lat2)
      BY <1>4, <3>1, <3>2, LaterReady
    <3> QED BY <3>1, <3>3 DEF ReadyOK
  <2> QED BY <2>1, <2>2 DEF AllReady
<1> QED BY <1>5, <1>6, <1>7

LEMMA FillChain ==
    ASSUME NEW cs2, NEW cs, NEW qs2, NEW qs, NEW mm, NEW lat, NEW lat2, NEW o, NEW a, NEW r,
           FillStep(cs2, cs, qs2, qs, mm, lat, lat2, o, a, r)
    PROVE  Chained(cs2, qs2)
<1>1. FilledFacts(cs2, cs, qs2, qs, lat, lat2, o, a, r)
  BY FillChanges
<1>2. r \in Caches
  BY <1>1 DEF FilledFacts, FilledQueues
<1>3. PICK n \in Nat : \E rank \in [Caches -> 0 .. n] : Chain(cs, qs, rank)
  BY DEF FillStep, Protocol, Chained
<1>4. PICK rank \in [Caches -> 0 .. n] : Chain(cs, qs, rank)
  BY <1>3
<1>5. \A p \in Caches : rank[p] \in Nat
  BY <1>4
<1>6. \A p, q \in Caches : Claiming(cs[p]) /\ Claiming(cs[q]) /\ p # q =>
         Linked(cs, qs, rank, p, q)
  BY <1>4 DEF Chain
<1>7. \A d \in Caches : Claiming(cs2[d]) <=> d # r /\ Claiming(cs[d])
  BY <1>1 DEF FilledFacts, SameReg
<1>8. ASSUME NEW p \in Caches, NEW q \in Caches, Claiming(cs2[p]), Claiming(cs2[q]), p # q
      PROVE  Linked(cs2, qs2, rank, p, q)
  <2>1. p # r /\ q # r /\ Claiming(cs[p]) /\ Claiming(cs[q])
    BY <1>7, <1>8
  <2>2. Linked(cs, qs, rank, p, q)
    BY <1>6, <1>8, <2>1
  <2>3. rank[p] # rank[q] /\ (rank[p] < rank[q] => Doomed(cs2[p]))
    BY <1>1, <2>1, <2>2 DEF Linked, FilledFacts, SameReg
  <2>4. Real(qs2, p) => rank[p] < rank[q]
    <3>1. CASE Real(qs, p)
      BY <2>2, <3>1 DEF Linked
    <3>2. CASE Promised(cs, r, p)
      <4>1. Claiming(cs[r])
        BY <3>2 DEF Promised
      <4>2. Linked(cs, qs, rank, r, p) /\ Linked(cs, qs, rank, r, q)
        BY <1>2, <1>6, <2>1, <4>1
      <4>3. rank[r] < rank[q]
        BY <1>1, <4>2 DEF Linked, FilledFacts
      <4>4. ~(rank[q] < rank[p])
        BY <2>1, <3>2, <4>2, <4>3 DEF Linked
      <4> QED BY <1>5, <2>3, <4>4
    <3> QED BY <1>1, <3>1, <3>2 DEF FilledFacts
  <2>5. Promised(cs2, p, q) => /\ rank[p] < rank[q]
                               /\ ~\E x \in Caches : /\ Claiming(cs2[x]) /\ rank[p] < rank[x]
                                                     /\ rank[x] < rank[q]
    BY <1>1, <1>7, <2>2 DEF Linked, FilledFacts
  <2> QED BY <2>3, <2>4, <2>5 DEF Linked
<1>9. Chain(cs2, qs2, rank)
  BY <1>8 DEF Chain
<1> QED BY <1>9 DEF Chained

(* A fill keeps the protocol.                                              *)
LEMMA FillKeeps ==
    ASSUME NEW cs2, NEW cs, NEW qs2, NEW qs, NEW mm, NEW lat, NEW lat2, NEW o, NEW a, NEW r,
           FillStep(cs2, cs, qs2, qs, mm, lat, lat2, o, a, r)
    PROVE  Protocol(cs2, qs2, mm, lat2)
<1>1. StateOK(cs2, qs2) /\ Routes(cs2, qs2, lat2) /\ Chained(cs2, qs2)
  BY FillState, FillRoutes, FillChain
<1>2. Owed(cs2, qs2) /\ OwedOnce(cs2) /\ Expected(cs2, qs2) /\ UpgradeReal(cs2, qs2)
  BY FillPromises
<1>3. /\ ClaimAlone(cs2) /\ ReadAlone(cs2, qs2) /\ WriteAlone(cs2) /\ OneOwner(cs2)
      /\ OneRealClaim(cs2, qs2) /\ LastClaim(cs2)
  BY FillApart
<1>4. ClaimLast(cs2, qs2) /\ OwnersAnswer(cs2, qs2) /\ OnlyCopy(cs2, qs2)
  BY FillOwners, FillOnly
<1>5. Current(cs2, lat2) /\ MemCurrent(cs2, mm, lat2) /\ AllReady(cs2, lat2)
  BY FillData
<1>6. mm \in Nat /\ lat2 \in Nat
  BY DEF FillStep, Protocol, FillOK
<1> QED BY <1>1, <1>2, <1>3, <1>4, <1>5, <1>6 DEF Protocol

-----------------------------------------------------------------------------
(* The actions.  The queues of all ports, and of the next state.           *)
Queues == AllQueues(cache, packetQueue)

LEMMA QueueFacts ==
    ASSUME NEW cs, NEW pq, NEW qs, qs = AllQueues(cs, pq)
    PROVE  /\ qs[0] = pq /\ \A d \in Caches : qs[d] = cs[d].snoopRespQueue
           /\ cs \in [Caches -> CacheRecords] /\ pq \in Seq(Responses) =>
                qs \in [Ports -> Seq(Responses)]
<1>1. qs[0] = pq /\ \A d \in Caches : qs[d] = cs[d].snoopRespQueue
  BY PortFacts DEF AllQueues
<1>2. ASSUME cs \in [Caches -> CacheRecords], pq \in Seq(Responses)
      PROVE  qs \in [Ports -> Seq(Responses)]
  <2>1. \A d \in Caches : cs[d].snoopRespQueue \in Seq(Responses)
    BY <1>2, CacheFields
  <2> QED BY <1>2, <2>1, PortFacts DEF AllQueues
<1> QED BY <1>1, <1>2

LEMMA InitInv ==
    ASSUME Init
    PROVE  IInv
<1> DEFINE qs == Queues
<1>1. \A d \in Caches : /\ cache[d].status = {} /\ cache[d].data = 0 /\ cache[d].mshr = FreeMSHR
                        /\ cache[d].writeback = NoWriteback /\ cache[d].snoopRespQueue = <<>>
  BY DEF Init
<1>2. cache \in [Caches -> CacheRecords]
  <2>1. FreeMSHR \in Regs /\ <<>> \in Seq(Responses) /\ {} \in SUBSET Bits
        /\ NoWriteback \in [data : Nat, pending : BOOLEAN]
    BY FreeReg DEF NoWriteback
  <2>2. cache = [c \in Caches |-> [status |-> {}, data |-> 0, mshr |-> FreeMSHR,
                                   writeback |-> NoWriteback, snoopRespQueue |-> <<>>]]
    BY DEF Init
  <2> QED BY ONLY <2>1, <2>2 DEF CacheRecords
<1>3. \A d \in Caches : /\ ~Busy(cache[d]) /\ ~Claiming(cache[d]) /\ ~Reading(cache[d])
                        /\ ~isValid(cache[d]) /\ ~isWritable(cache[d])
                        /\ ~cache[d].writeback.pending /\ ~Owns(cache[d]) /\ ~HasMSHR(cache[d])
  BY <1>1, FreeReg DEF Busy, Claiming, Reading, isValid, isWritable, isDirty, Owns, NoWriteback,
                       HasMSHR
<1>4. qs = AllQueues(cache, packetQueue) /\ packetQueue = <<>> /\ packetQueue \in Seq(Responses)
  BY DEF Queues, Init
<1> HIDE DEF qs
<1>5. /\ qs[0] = <<>> /\ \A d \in Caches : qs[d] = cache[d].snoopRespQueue
      /\ qs \in [Ports -> Seq(Responses)]
  <2>1. qs = AllQueues(cache, packetQueue)
    BY <1>4
  <2>2. qs[0] = packetQueue /\ \A d \in Caches : qs[d] = cache[d].snoopRespQueue
    BY <2>1, QueueFacts
  <2>3. cache \in [Caches -> CacheRecords] /\ packetQueue \in Seq(Responses) =>
          qs \in [Ports -> Seq(Responses)]
    BY ONLY <2>1, QueueFacts
  <2> QED BY <1>2, <1>4, <2>2, <2>3
<1>6. \A o \in Ports : qs[o] = <<>>
  BY <1>1, <1>5, PortFacts
<1>7. StateOK(cache, qs)
  <2>1. \A d \in Caches : CacheOK(cache[d])
    BY <1>1, <1>3, FreeReg DEF CacheOK, Settled
  <2> QED BY <1>2, <1>5, <2>1 DEF StateOK
<1>8. Routes(cache, qs, latest) /\ UpgradeReal(cache, qs) /\ ClaimLast(cache, qs)
      /\ OwnersAnswer(cache, qs) /\ OnlyCopy(cache, qs)
  BY <1>3, <1>6, PortFacts DEF Routes, UpgradeReal, ClaimLast, OwnersAnswer, OnlyCopy
<1>9. Owed(cache, qs) /\ OwedOnce(cache) /\ Expected(cache, qs)
  BY <1>3 DEF Owed, OwedOnce, Expected, Promised
<1>10. ClaimAlone(cache) /\ ReadAlone(cache, qs) /\ WriteAlone(cache) /\ OneOwner(cache)
       /\ OneRealClaim(cache, qs) /\ LastClaim(cache)
  BY <1>3 DEF ClaimAlone, ReadAlone, WriteAlone, OneOwner, OneRealClaim, LastClaim
<1>11. Current(cache, latest) /\ MemCurrent(cache, mem, latest) /\ AllReady(cache, latest)
  <2>1. AllReady(cache, latest)
    BY <1>1, FreeReg DEF AllReady, ReadyOK
  <2> QED BY <1>3, <2>1 DEF Current, MemCurrent, Init
<1>12. Chained(cache, qs)
  <2> DEFINE rank == [d \in Caches |-> 0]
  <2>1. rank \in [Caches -> 0 .. 0]
    OBVIOUS
  <2>2. Chain(cache, qs, rank)
    BY <1>3 DEF Chain
  <2> HIDE DEF rank
  <2>3. \E n \in Nat : \E f \in [Caches -> 0 .. n] : Chain(cache, qs, f)
    BY <2>1, <2>2
  <2> QED BY <2>3 DEF Chained
<1>13. mem \in Nat /\ latest \in Nat /\ issued \in Nat /\ stale = FALSE /\ failed = FALSE
  BY DEF Init
<1>14. Protocol(cache, qs, mem, latest)
  BY <1>7, <1>8, <1>9, <1>10, <1>11, <1>12, <1>13 DEF Protocol
<1>15. Filter(cache, qs, snoopFilter)
  <2>1. snoopFilter = [requested |-> {}, holder |-> {}]
    BY DEF Init
  <2> QED BY <1>1, <1>3, <1>5, <2>1 DEF Filter
<1>16. Crossbar(cache, qs, routeTo, outstandingSnoop)
  BY <1>3 DEF Crossbar, Init
<1> QED BY <1>4, <1>13, <1>14, <1>15, <1>16 DEF IInv, qs, Queues

(* What the invariant says of one cache.                                   *)
LEMMA CacheFacts ==
    ASSUME IInv, NEW r \in Caches
    PROVE  /\ cache \in [Caches -> CacheRecords] /\ cache[r] \in CacheRecords
           /\ CacheOK(cache[r]) /\ StateOK(cache, Queues)
           /\ Protocol(cache, Queues, mem, latest) /\ Current(cache, latest)
           /\ Filter(cache, Queues, snoopFilter)
           /\ Crossbar(cache, Queues, routeTo, outstandingSnoop)
           /\ Queues[0] = packetQueue /\ Queues[r] = cache[r].snoopRespQueue
           /\ mem \in Nat /\ latest \in Nat /\ packetQueue \in Seq(Responses)
<1>1. Protocol(cache, Queues, mem, latest) /\ packetQueue \in Seq(Responses)
  BY DEF IInv, Queues
<1>2. StateOK(cache, Queues) /\ mem \in Nat /\ latest \in Nat /\ Current(cache, latest)
  BY <1>1 DEF Protocol
<1>3. Queues[0] = packetQueue /\ Queues[r] = cache[r].snoopRespQueue
  BY QueueFacts DEF Queues
<1> QED BY <1>1, <1>2, <1>3 DEF StateOK, IInv, Queues

LEMMA LoadInv ==
    ASSUME IInv, NEW r \in Caches, Load(r)
    PROVE  IInv'
<1>1. isReadable(cache[r])
  BY DEF Load, Hit, NeedsExclusive
<1>2. cache[r].data = latest /\ latest \in Nat
  <2>1. isValid(cache[r]) /\ ~HasMSHR(cache[r])
    BY <1>1, CacheFacts, Kinds
  <2>2. ~Busy(cache[r])
    BY <2>1, CacheFacts, Kinds
  <2> QED BY <2>1, <2>2, CacheFacts DEF Current
<1>3. stale' = FALSE
  <2>1. ~(cache[r].data < latest)
    BY <1>2
  <2> QED BY <2>1 DEF Load, IInv
<1>4. UNCHANGED <<cache, mem, packetQueue, routeTo, outstandingSnoop, snoopFilter,
                  issued, latest, failed>>
  BY DEF Load
<1> QED BY <1>3, <1>4 DEF IInv

(* Steps that leave the queues and the requests in service alone.          *)
LEMMA SameQueues ==
    ASSUME \A d \in Caches : cache'[d].snoopRespQueue = cache[d].snoopRespQueue,
           packetQueue' = packetQueue
    PROVE  Queues' = Queues
  BY PortFacts DEF Queues, AllQueues

LEMMA SameCrossbar ==
    ASSUME IInv, Queues' = Queues, UNCHANGED <<packetQueue, routeTo, outstandingSnoop, stale>>,
           \A d \in Caches : Busy(cache'[d]) <=> Busy(cache[d]),
           Protocol(cache', Queues, mem', latest'), Filter(cache', Queues, snoopFilter'),
           issued' \in Nat, failed' = FALSE
    PROVE  IInv'
<1>1. Crossbar(cache, Queues, routeTo, outstandingSnoop) /\ packetQueue \in Seq(Responses)
      /\ stale = FALSE
  BY DEF IInv, Queues
<1> DEFINE qs == Queues
<1>2. qs = Queues
  OBVIOUS
<1> HIDE DEF qs
<1>3. {d \in Caches : Busy(cache'[d])} = {d \in Caches : Busy(cache[d])}
  OBVIOUS
<1>4. {d \in Caches : Busy(cache'[d]) /\ ~\E i \in DOMAIN qs[0] : qs[0][i].to = d}
        = {d \in Caches : Busy(cache[d]) /\ ~\E i \in DOMAIN qs[0] : qs[0][i].to = d}
  OBVIOUS
<1>5. Crossbar(cache', qs, routeTo', outstandingSnoop')
  BY <1>1, <1>2, <1>3, <1>4 DEF Crossbar
<1>6. AllQueues(cache', packetQueue') = qs
  BY <1>2 DEF Queues
<1> QED BY <1>1, <1>2, <1>5, <1>6 DEF IInv

(* The filter still knows every copy when none appears.                    *)
LEMMA SameFilter ==
    ASSUME NEW cs2, NEW cs, NEW qs, NEW sf, Filter(cs, qs, sf),
           \A d \in Caches :
              /\ Busy(cs2[d]) <=> Busy(cs[d])
              /\ isValid(cs2[d]) \/ cs2[d].writeback.pending =>
                   isValid(cs[d]) \/ cs[d].writeback.pending
    PROVE  Filter(cs2, qs, sf)
<1>1. {d \in Caches : Busy(cs2[d])} = {d \in Caches : Busy(cs[d])}
  OBVIOUS
<1> QED BY <1>1 DEF Filter

(* One cache changes its block or its writeback: the rest of the state.    *)
LEMMA LocalFacts ==
    ASSUME IInv, NEW r \in Caches, NEW c2 \in CacheRecords, CacheOK(c2),
           ~Busy(cache[r]), c2.mshr = cache[r].mshr,
           c2.snoopRespQueue = cache[r].snoopRespQueue,
           cache' = [cache EXCEPT ![r] = c2], packetQueue' = packetQueue
    PROVE  /\ Local(cache', cache, Queues, r) /\ Queues' = Queues
           /\ \A d \in Caches : Busy(cache'[d]) <=> Busy(cache[d])
           /\ cache'[r] = c2 /\ \A d \in Caches \ {r} : cache'[d] = cache[d]
<1>1. cache \in [Caches -> CacheRecords]
  BY CacheFacts
<1>2. /\ cache'[r] = c2 /\ \A d \in Caches \ {r} : cache'[d] = cache[d]
      /\ cache' \in [Caches -> CacheRecords]
  BY <1>1
<1>3. Local(cache', cache, Queues, r)
  BY <1>2 DEF Local
<1>4. Queues' = Queues
  BY <1>2, SameQueues
<1>5. \A d \in Caches : Busy(cache'[d]) <=> Busy(cache[d])
  BY <1>2 DEF Busy
<1> QED BY <1>2, <1>3, <1>4, <1>5

LEMMA StoreInv ==
    ASSUME IInv, NEW r \in Caches, Store(r)
    PROVE  IInv'
<1> DEFINE c == cache[r]
           c2 == [c EXCEPT !.data = c.data + 1, !.status = c.status \cup {"Dirty"}]
<1>1. isWritable(c) /\ issued \in Nat
  BY DEF Store, Hit, NeedsExclusive, IInv
<1>2. c \in CacheRecords /\ CacheOK(c) /\ cache \in [Caches -> CacheRecords]
  BY CacheFacts
<1>3. isValid(c) /\ ~HasMSHR(c) /\ ~Busy(c) /\ c.snoopRespQueue = <<>> /\ c.data = latest
      /\ ~c.writeback.pending
  <2>1. isValid(c) /\ ~HasMSHR(c) /\ ~Busy(c) /\ ~c.writeback.pending
    BY <1>1, <1>2, CacheKinds
  <2>2. c.snoopRespQueue = <<>>
    BY <1>1, <1>2 DEF CacheOK
  <2> QED BY <2>1, <2>2, CacheFacts DEF Current
<1>4. /\ c2 \in CacheRecords /\ c2.data = c.data + 1 /\ c2.mshr = c.mshr
      /\ c2.writeback = c.writeback /\ c2.snoopRespQueue = c.snoopRespQueue
      /\ isValid(c2) <=> isValid(c)
      /\ isDirty(c2)
      /\ c2.status = c.status \cup {"Dirty"}
  BY <1>2, StoredCache
<1>5. cache' = [cache EXCEPT ![r] = c2]
  BY <1>2 DEF Store, CacheRecords
<1> HIDE DEF c2
<1>6. CacheOK(c2)
  <2>1. c.status \in Settled /\ "Writable" \in c.status
    BY <1>1, <1>2, <1>3 DEF CacheOK, isWritable
  <2>2. c2.status \in Settled
    BY <1>4, <2>1 DEF Settled
  <2> QED BY <1>2, <1>3, <1>4, <2>2 DEF CacheOK, HasMSHR, Busy
<1>7. /\ Local(cache', cache, Queues, r) /\ Queues' = Queues
      /\ \A d \in Caches : Busy(cache'[d]) <=> Busy(cache[d])
      /\ cache'[r] = c2 /\ \A d \in Caches \ {r} : cache'[d] = cache[d]
  <2>1. packetQueue' = packetQueue
    BY DEF Store
  <2> QED BY <1>3, <1>4, <1>5, <1>6, <2>1, LocalFacts
<1>8. Protocol(cache', Queues, mem, latest + 1)
  <2>1. Protocol(cache, Queues, mem, latest)
    BY CacheFacts
  <2>2. cache'[r].data = latest + 1 /\ isValid(cache'[r]) /\ isDirty(cache'[r])
        /\ cache'[r].writeback = cache[r].writeback
    BY <1>3, <1>4, <1>7
  <2> QED BY <1>1, <1>7, <2>1, <2>2, StoreStep
<1>9. Filter(cache', Queues, snoopFilter)
  <2>1. Filter(cache, Queues, snoopFilter)
    BY CacheFacts
  <2>2. \A d \in Caches : isValid(cache'[d]) \/ cache'[d].writeback.pending =>
                             isValid(cache[d]) \/ cache[d].writeback.pending
    BY <1>3, <1>7
  <2> QED BY <1>7, <2>1, <2>2, SameFilter
<1>10. /\ UNCHANGED <<mem, packetQueue, routeTo, outstandingSnoop, snoopFilter, stale, failed>>
       /\ latest' = latest + 1 /\ issued' = issued + 1 /\ failed = FALSE
  BY DEF Store, IInv
<1>11. issued' \in Nat /\ failed' = FALSE
  BY <1>1, <1>10
<1>12. Protocol(cache', Queues, mem', latest') /\ Filter(cache', Queues, snoopFilter')
  BY <1>8, <1>9, <1>10
<1> QED BY <1>7, <1>10, <1>11, <1>12, SameCrossbar

LEMMA EvictInv ==
    ASSUME IInv, NEW r \in Caches, Evict(r)
    PROVE  IInv'
<1> DEFINE c == cache[r]
           c2 == [invalidate(c) EXCEPT !.writeback = IF isDirty(c) THEN Writeback(c) ELSE @]
<1>1. isValid(c) /\ ~HasMSHR(c)
  BY DEF Evict
<1>2. c \in CacheRecords /\ CacheOK(c) /\ cache \in [Caches -> CacheRecords]
  BY CacheFacts
<1>3. ~Busy(c) /\ c.data = latest /\ ~c.writeback.pending /\ latest \in Nat
  <2>1. ~Busy(c) /\ ~c.writeback.pending
    BY <1>1, <1>2, CacheKinds
  <2> QED BY <1>1, <2>1, CacheFacts DEF Current
<1>4. /\ c2 \in CacheRecords /\ c2.mshr = c.mshr /\ c2.snoopRespQueue = c.snoopRespQueue
      /\ c2.status = {}
      /\ c2.writeback = IF isDirty(c) THEN Writeback(c) ELSE c.writeback
  <2>1. Writeback(c) \in [data : Nat, pending : BOOLEAN]
    BY <1>3 DEF Writeback
  <2> QED BY <1>2, <2>1 DEF CacheRecords, invalidate
<1>5. cache' = [cache EXCEPT ![r] = c2]
  BY DEF Evict
<1> HIDE DEF c2
<1>6. /\ c2.writeback.pending <=> isDirty(c)
      /\ c2.writeback.pending => c2.writeback.data = latest
      /\ ~isValid(c2) /\ ~isDirty(c2) /\ ~isWritable(c2)
  BY <1>3, <1>4 DEF Writeback, isValid, isDirty, isWritable
<1>7. CacheOK(c2)
  BY <1>1, <1>2, <1>3, <1>4, <1>6 DEF CacheOK, HasMSHR, Busy, Settled
<1>8. /\ Local(cache', cache, Queues, r) /\ Queues' = Queues
      /\ \A d \in Caches : Busy(cache'[d]) <=> Busy(cache[d])
      /\ cache'[r] = c2 /\ \A d \in Caches \ {r} : cache'[d] = cache[d]
  <2>1. packetQueue' = packetQueue
    BY DEF Evict
  <2> QED BY <1>3, <1>4, <1>5, <1>7, <2>1, LocalFacts
<1>9. Protocol(cache', Queues, mem, latest)
  <2>1. Protocol(cache, Queues, mem, latest) /\ mem \in Nat /\ mem <= latest
    BY CacheFacts DEF Protocol, MemCurrent
  <2>2. Owns(cache'[r]) <=> Owns(cache[r])
    BY <1>3, <1>4, <1>6, <1>8 DEF Owns, Busy
  <2>3. ~isValid(cache'[r])
        /\ (cache'[r].writeback.pending => cache'[r].writeback.data = latest)
    BY <1>6, <1>8
  <2> QED BY <1>1, <1>8, <2>1, <2>2, <2>3, DropStep
<1>10. Filter(cache', Queues, snoopFilter)
  <2>1. Filter(cache, Queues, snoopFilter)
    BY CacheFacts
  <2>2. \A d \in Caches : isValid(cache'[d]) \/ cache'[d].writeback.pending =>
                             isValid(cache[d]) \/ cache[d].writeback.pending
    BY <1>1, <1>8
  <2> QED BY <1>8, <2>1, <2>2, SameFilter
<1>11. /\ UNCHANGED <<mem, packetQueue, routeTo, outstandingSnoop, snoopFilter, stale,
                      issued, latest>>
       /\ failed' = FALSE /\ issued \in Nat
  BY <1>3 DEF Evict, IInv
<1>12. Protocol(cache', Queues, mem', latest') /\ Filter(cache', Queues, snoopFilter')
       /\ issued' \in Nat
  BY <1>9, <1>10, <1>11
<1> QED BY <1>8, <1>11, <1>12, SameCrossbar

LEMMA WritebackInv ==
    ASSUME IInv, NEW r \in Caches, SendWriteback(r)
    PROVE  IInv'
<1> DEFINE c == cache[r]
           c2 == [c EXCEPT !.writeback = NoWriteback]
<1>1. c.writeback.pending /\ c.snoopRespQueue = <<>>
  BY DEF SendWriteback, MaySend
<1>2. c \in CacheRecords /\ CacheOK(c) /\ cache \in [Caches -> CacheRecords]
  BY CacheFacts
<1>3. ~Busy(c) /\ ~isValid(c) /\ c.writeback.data = latest /\ latest \in Nat /\ Owns(c)
      /\ c.status = {}
  <2>1. ~Busy(c) /\ ~isValid(c) /\ Owns(c) /\ c.status = {}
    BY <1>1, <1>2, CacheKinds DEF Owns
  <2> QED BY <1>1, <2>1, CacheFacts DEF Current
<1>4. /\ c2 \in CacheRecords /\ c2.mshr = c.mshr /\ c2.snoopRespQueue = c.snoopRespQueue
      /\ c2.status = {} /\ ~c2.writeback.pending
  <2>1. NoWriteback \in [data : Nat, pending : BOOLEAN] /\ ~NoWriteback.pending
    BY DEF NoWriteback
  <2> QED BY <1>2, <1>3, <2>1 DEF CacheRecords
<1>5. cache' = [cache EXCEPT ![r] = c2]
  BY <1>2 DEF SendWriteback, CacheRecords
<1> HIDE DEF c2
<1>6. ~isValid(c2) /\ ~isDirty(c2) /\ ~isWritable(c2)
  BY <1>4 DEF isValid, isDirty, isWritable
<1>7. CacheOK(c2)
  BY <1>2, <1>3, <1>4, <1>6 DEF CacheOK, HasMSHR, Busy
<1>8. /\ Local(cache', cache, Queues, r) /\ Queues' = Queues
      /\ \A d \in Caches : Busy(cache'[d]) <=> Busy(cache[d])
      /\ cache'[r] = c2 /\ \A d \in Caches \ {r} : cache'[d] = cache[d]
  <2>1. packetQueue' = packetQueue
    BY DEF SendWriteback
  <2> QED BY <1>3, <1>4, <1>5, <1>7, <2>1, LocalFacts
<1>9. Queues[r] = <<>> /\ Filter(cache, Queues, snoopFilter)
  BY <1>1, CacheFacts
<1>10. Protocol(cache', Queues, latest, latest)
  <2>1. Protocol(cache, Queues, mem, latest)
    BY CacheFacts
  <2>2. ~Owns(cache'[r])
    BY <1>4, <1>6, <1>8 DEF Owns
  <2>3. ~isValid(cache'[r]) /\ ~cache'[r].writeback.pending
    BY <1>4, <1>6, <1>8
  <2> QED BY <1>1, <1>3, <1>8, <1>9, <2>1, <2>2, <2>3, DropStep
<1>11. /\ UNCHANGED <<packetQueue, routeTo, outstandingSnoop, stale, issued, latest>>
       /\ mem' = latest /\ issued \in Nat
       /\ snoopFilter' = [snoopFilter EXCEPT !.holder = @ \ {r}]
  BY <1>3 DEF SendWriteback, IInv
<1>12. failed' = FALSE
  <2>1. r \notin snoopFilter.requested /\ r \in snoopFilter.holder
    BY <1>1, <1>3, <1>9 DEF Filter
  <2> QED BY <2>1 DEF SendWriteback, IInv
<1>13. Filter(cache', Queues, snoopFilter')
  <2> DEFINE sf == snoopFilter'
  <2>1. snoopFilter = [requested |-> snoopFilter.requested, holder |-> snoopFilter.holder]
    BY <1>9 DEF Filter
  <2>2. sf = [requested |-> snoopFilter.requested, holder |-> snoopFilter.holder \ {r}]
    BY <1>11, <2>1
  <2> HIDE DEF sf
  <2>3. sf.requested = snoopFilter.requested /\ sf.holder = snoopFilter.holder \ {r}
        /\ sf = [requested |-> sf.requested, holder |-> sf.holder]
    BY <2>2
  <2>4. {d \in Caches : Busy(cache'[d])} = {d \in Caches : Busy(cache[d])}
    BY <1>8
  <2>5. sf.requested = {d \in Caches : Busy(cache'[d])} /\ sf.holder \subseteq Caches
    BY <1>9, <2>3, <2>4 DEF Filter
  <2>6. \A d \in Caches : isValid(cache'[d]) \/ cache'[d].writeback.pending \/ Queues[d] # <<>>
                          => d \in sf.holder
    BY <1>4, <1>6, <1>8, <1>9, <2>3 DEF Filter
  <2>7. Filter(cache', Queues, sf)
    BY <2>3, <2>5, <2>6 DEF Filter
  <2> QED BY <2>7 DEF sf
<1>14. Protocol(cache', Queues, mem', latest') /\ issued' \in Nat
  BY <1>10, <1>11
<1> QED BY <1>8, <1>11, <1>12, <1>13, <1>14, SameCrossbar

(* The register after a miss.                                              *)
Missed(m2, m, lat) ==
    /\ m2 \in Regs /\ RegOK(m2) /\ m2 # FreeMSHR
    /\ m2.inService = m.inService /\ m2.pendingDirty = m.pendingDirty
    /\ m2.postInvalidate = m.postInvalidate /\ m2.postDowngrade = m.postDowngrade
    /\ m.targets.needsExclusive => m2.targets.needsExclusive
    /\ \A k \in DOMAIN m.targets.list :
          k \in DOMAIN m2.targets.list /\ m2.targets.list[k] = m.targets.list[k]
    /\ \A k \in DOMAIN m2.targets.list :
          \/ k \in DOMAIN m.targets.list
          \/ /\ ~IsSnoop(m2.targets.list[k]) /\ m2.targets.list[k].readyTime <= lat
             /\ ~(m.inService /\ m.postInvalidate)
    /\ \A k \in DOMAIN m2.deferredTargets.list : m2.deferredTargets.list[k].readyTime <= lat

LEMMA MissJoins ==
    ASSUME NEW m \in Regs, RegOK(m), m # FreeMSHR, NEW lat \in Nat,
           \A k \in DOMAIN m.deferredTargets.list : m.deferredTargets.list[k].readyTime <= lat,
           NEW cmd \in {"ReadReq", "WriteReq"}, NEW when \in Nat, when <= lat,
           NEW m2, m2 = MSHR_allocateTarget(m, cmd, when, 0)
    PROVE  Missed(m2, m, lat)
<1> DEFINE t == Target(cmd, "FromCPU", when, 0)
<1>1. m2 \in Regs /\ RegOK(m2) /\ m2 # FreeMSHR /\ Joins(m2, m, t)
  BY RegJoin
<1>2. ~IsSnoop(t) /\ t.readyTime <= lat
  BY NewTargets
<1> HIDE DEF t
<1> QED BY <1>1, <1>2 DEF Joins, Missed

LEMMA MissAllocates ==
    ASSUME NEW lat \in Nat,
           NEW cmd \in {"ReadReq", "WriteReq"}, NEW when \in Nat, when <= lat,
           NEW m2, m2 = [MSHR_allocate("block", cmd, when, 0) EXCEPT !.readyTime = 0]
    PROVE  /\ Missed(m2, FreeMSHR, lat)
           /\ m2.targets.needsExclusive <=> cmd = "WriteReq"
<1> DEFINE t == Target(cmd, "FromCPU", when, 0)
<1>1. /\ m2 \in Regs /\ RegOK(m2) /\ m2 # FreeMSHR /\ ~m2.inService
      /\ DOMAIN m2.targets.list = {1} /\ m2.targets.list[1] = t
      /\ m2.deferredTargets.list = <<>>
      /\ m2.targets.needsExclusive <=> cmd = "WriteReq"
  BY RegAllocate
<1>2. ~IsSnoop(t) /\ t.readyTime <= lat
  BY NewTargets
<1>3. /\ m2.inService = FreeMSHR.inService /\ m2.pendingDirty = FreeMSHR.pendingDirty
      /\ m2.postInvalidate = FreeMSHR.postInvalidate
      /\ m2.postDowngrade = FreeMSHR.postDowngrade
  BY DEF MSHR_allocate, FreeMSHR
<1> HIDE DEF t
<1>4. \A k \in DOMAIN m2.targets.list :
         ~IsSnoop(m2.targets.list[k]) /\ m2.targets.list[k].readyTime <= lat
  BY <1>1, <1>2
<1> QED BY <1>1, <1>3, <1>4, FreeReg DEF Missed

LEMMA MissInv ==
    ASSUME IInv, NEW r \in Caches, NEW cmd \in {"ReadReq", "WriteReq"}, Miss(r, cmd)
    PROVE  IInv'
<1> DEFINE c == cache[r]
           issue == IF cmd = "ReadReq" THEN latest ELSE 0
           m == IF HasMSHR(c)
                THEN MSHR_allocateTarget(c.mshr, cmd, issue, 0)
                ELSE [MSHR_allocate("block", cmd, issue, 0) EXCEPT !.readyTime = 0]
           st == IF HasMSHR(c) THEN c.status ELSE c.status \ {"Readable"}
           c2 == [c EXCEPT !.mshr = m, !.status = st]
<1>1. c \in CacheRecords /\ CacheOK(c) /\ cache \in [Caches -> CacheRecords] /\ latest \in Nat
      /\ c.mshr \in Regs /\ RegOK(c.mshr) /\ issued \in Nat
  BY CacheFacts, CacheFields DEF CacheOK, IInv
<1>2. issue \in Nat /\ issue <= latest
  BY <1>1
<1>3. ReadyOK(c, latest)
  BY CacheFacts DEF Protocol, AllReady
<1>4. ~Hit(c, cmd)
  BY DEF Miss
<1>5. cache' = [cache EXCEPT ![r] = c2]
  BY <1>1 DEF Miss, CacheRecords
<1>6. UNCHANGED <<mem, packetQueue, routeTo, outstandingSnoop, snoopFilter, latest, stale>>
  BY DEF Miss
<1>7. issued' \in Nat
  BY <1>1 DEF Miss
<1> HIDE DEF issue
<1>8. Missed(m, c.mshr, latest) /\ (~HasMSHR(c) => (m.targets.needsExclusive <=> cmd = "WriteReq"))
  <2>1. CASE HasMSHR(c)
    <3>1. m = MSHR_allocateTarget(c.mshr, cmd, issue, 0)
      BY <2>1
    <3>2. c.mshr # FreeMSHR
      BY <2>1 DEF HasMSHR
    <3> HIDE DEF m
    <3>3. Missed(m, c.mshr, latest)
      BY <1>1, <1>2, <1>3, <3>1, <3>2, MissJoins DEF ReadyOK
    <3> QED BY <2>1, <3>3
  <2>2. CASE ~HasMSHR(c)
    <3>1. m = [MSHR_allocate("block", cmd, issue, 0) EXCEPT !.readyTime = 0]
      BY <2>2
    <3>2. c.mshr = FreeMSHR
      BY <2>2 DEF HasMSHR
    <3> HIDE DEF m
    <3>3. Missed(m, FreeMSHR, latest) /\ (m.targets.needsExclusive <=> cmd = "WriteReq")
      BY <1>1, <1>2, <3>1, MissAllocates
    <3> QED BY <3>2, <3>3
  <2> QED BY <2>1, <2>2
<1> HIDE DEF m
<1>9. m \in Regs /\ RegOK(m) /\ m # FreeMSHR /\ m.inService = c.mshr.inService
  BY <1>8 DEF Missed
<1>10. /\ c2 \in CacheRecords /\ c2.mshr = m /\ c2.snoopRespQueue = c.snoopRespQueue
       /\ c2.status = st /\ c2.writeback = c.writeback /\ c2.data = c.data
  <2>1. st \in SUBSET Bits
    BY <1>1, CacheFields
  <2> HIDE DEF st
  <2> QED BY <1>1, <1>9, <2>1 DEF CacheRecords
<1> HIDE DEF c2
<1>11. /\ isValid(c2) <=> isValid(c)
       /\ isDirty(c2) <=> isDirty(c)
       /\ isWritable(c2) <=> isWritable(c)
  BY <1>10 DEF isValid, isDirty, isWritable
<1>12. ~HasMSHR(c) /\ isValid(c) => cmd = "WriteReq" /\ ~isWritable(c)
  BY <1>1, <1>4, CacheKinds DEF Hit, NeedsExclusive
<1>13. failed' = FALSE
  <2>1. failed = FALSE
    BY DEF IInv
  <2>2. ~(~HasMSHR(c) /\ isValid(c) /\ (~NeedsExclusive(cmd) \/ isWritable(c)))
    BY <1>12 DEF NeedsExclusive
  <2> QED BY <2>1, <2>2 DEF Miss
<1>14. CacheOK(c2)
  <2>1. c2.status \in Pending /\ HasMSHR(c2)
    <3>1. CASE HasMSHR(c)
      BY <1>1, <1>9, <1>10, <3>1 DEF CacheOK, HasMSHR
    <3>2. CASE ~HasMSHR(c)
      <4>1. c.status \in Settled /\ "Writable" \notin c.status
        BY <1>1, <1>12, <3>2, CacheKinds DEF CacheOK, isWritable
      <4> QED BY <1>9, <1>10, <3>2, <4>1 DEF Settled, Pending, HasMSHR
    <3> QED BY <3>1, <3>2
  <2>2. isValid(c2) => c2.mshr.targets.needsExclusive
    <3>1. CASE HasMSHR(c)
      BY <1>1, <1>8, <1>10, <1>11, <3>1 DEF CacheOK, Missed
    <3>2. CASE ~HasMSHR(c)
      BY <1>8, <1>10, <1>11, <1>12, <3>2
    <3> QED BY <3>1, <3>2
  <2>3. Busy(c2) <=> Busy(c)
    BY <1>9, <1>10 DEF Busy
  <2> QED BY <1>1, <1>9, <1>10, <1>11, <2>1, <2>2, <2>3 DEF CacheOK
<1>15. /\ cache'[r] = c2 /\ \A d \in Caches \ {r} : cache'[d] = cache[d]
       /\ cache' \in [Caches -> CacheRecords]
  BY <1>1, <1>5, <1>10
<1>16. Queues' = Queues
  BY <1>6, <1>10, <1>15, SameQueues
<1>17. \A d \in Caches : Busy(cache'[d]) <=> Busy(cache[d])
  BY <1>9, <1>10, <1>15 DEF Busy
<1>18. SameReg(c2, c)
  BY <1>8, <1>10 DEF Missed, SameReg, Busy, Claiming, Reading, Doomed, Lowered
<1>19. JoinStep(cache', cache, r, latest)
  <2>1. /\ \A k \in DOMAIN c.mshr.targets.list :
              k \in DOMAIN c2.mshr.targets.list
              /\ c2.mshr.targets.list[k] = c.mshr.targets.list[k]
        /\ \A k \in DOMAIN c2.mshr.targets.list :
              \/ k \in DOMAIN c.mshr.targets.list
              \/ /\ ~IsSnoop(c2.mshr.targets.list[k])
                 /\ c2.mshr.targets.list[k].readyTime <= latest
                 /\ ~(Busy(c) /\ Doomed(c))
        /\ \A k \in DOMAIN c2.mshr.deferredTargets.list :
              c2.mshr.deferredTargets.list[k].readyTime <= latest
    BY <1>8, <1>10 DEF Missed, Busy, Doomed
  <2> QED BY <1>10, <1>11, <1>14, <1>15, <1>18, <2>1 DEF JoinStep
<1>20. Protocol(cache', Queues, mem, latest)
  <2>1. Protocol(cache, Queues, mem, latest)
    BY CacheFacts
  <2> QED BY <1>19, <2>1, MissStep
<1>21. Filter(cache', Queues, snoopFilter)
  <2>1. Filter(cache, Queues, snoopFilter)
    BY CacheFacts
  <2>2. \A d \in Caches : isValid(cache'[d]) \/ cache'[d].writeback.pending =>
                             isValid(cache[d]) \/ cache[d].writeback.pending
    BY <1>10, <1>11, <1>15
  <2> QED BY <1>17, <2>1, <2>2, SameFilter
<1>22. Protocol(cache', Queues, mem', latest') /\ Filter(cache', Queues, snoopFilter')
  BY <1>6, <1>20, <1>21
<1> QED BY <1>6, <1>7, <1>13, <1>16, <1>17, <1>22, SameCrossbar

(* The request that a cache sends, and the snoops s of it.                 *)
Sends(r, cmd, s) ==
    /\ cmd \in SnoopCmds /\ BusPacket(r) = Packet(r, cmd)
    /\ cmd = "ReadReq" <=> ~cache[r].mshr.targets.needsExclusive
    /\ Asked(cache, Queues, r, cmd) /\ SnoopsOK(s, cache, r, cmd) /\ MissAsserts(r, s)
    /\ Interested(r) \in SUBSET Caches /\ r \notin Interested(r)
    /\ \A d \in Caches \ {r} : d \notin Interested(r) => Idle(cache[d])
    /\ CachesOK /\ \A p, q \in Caches : Supplies(cache[p]) /\ Supplies(cache[q]) => p = q

LEMMA MissSends ==
    ASSUME IInv, NEW r \in Caches, MissReady(r)
    PROVE  \E cmd : Sends(r, cmd, Snooped(r))
<1> DEFINE c == cache[r]
           cmd == IF isValid(cache[r]) THEN "UpgradeReq"
                  ELSE IF cache[r].mshr.targets.needsExclusive THEN "ReadExReq" ELSE "ReadReq"
<1>1. BusPacket(r) = Packet(r, cmd)
  BY DEF BusPacket
<1>2. c \in CacheRecords /\ CacheOK(c) /\ StateOK(cache, Queues) /\ Queues[r] = c.snoopRespQueue
      /\ Filter(cache, Queues, snoopFilter)
      /\ Crossbar(cache, Queues, routeTo, outstandingSnoop)
  BY CacheFacts
<1>3. c.snoopRespQueue = <<>> /\ ~c.writeback.pending /\ HasMSHR(c) /\ ~Busy(c)
  BY DEF MissReady, MaySend, Busy
<1>4. isValid(c) => c.mshr.targets.needsExclusive /\ ~isWritable(c)
  BY <1>2, <1>3, CacheKinds DEF CacheOK
<1>5. /\ cmd \in SnoopCmds
      /\ isValid(c) <=> cmd = "UpgradeReq"
      /\ cmd = "ReadReq" <=> ~c.mshr.targets.needsExclusive
  BY <1>4 DEF SnoopCmds
<1> HIDE DEF cmd
<1>6. Asked(cache, Queues, r, cmd)
  BY <1>2, <1>3, <1>5 DEF Asked
<1>7. CachesOK
  BY <1>2 DEF StateOK, CachesOK
<1>8. \A p, q \in Caches : Supplies(cache[p]) /\ Supplies(cache[q]) => p = q
  <2>1. ClaimAlone(cache) /\ OneOwner(cache) /\ Chained(cache, Queues)
    BY CacheFacts DEF Protocol
  <2> QED BY <1>2, <2>1, OneSupplier
<1>9. Interested(r) \in SUBSET Caches /\ r \notin Interested(r)
  BY <1>2 DEF Interested, Filter
<1>10. ASSUME NEW d \in Caches \ {r}, d \notin Interested(r) PROVE Idle(cache[d])
  <2>1. d \notin snoopFilter.requested /\ d \notin snoopFilter.holder
    BY <1>10 DEF Interested
  <2> QED BY <1>2, <2>1 DEF Filter, Idle
<1>11. SnoopsOK(Snooped(r), cache, r, cmd)
  <2>1. SnoopsOK(forwardTiming(Packet(r, cmd), Interested(r)), cache, r, cmd)
    BY <1>5, <1>7, <1>8, <1>9, <1>10, SnoopAll
  <2> QED BY <1>1, <2>1 DEF Snooped
<1>12. MissAsserts(r, Snooped(r))
  <2>1. r \notin snoopFilter.requested /\ r \notin routeTo /\ r \notin outstandingSnoop
    BY <1>2, <1>3 DEF Filter, Crossbar
  <2>2. Snooped(r).ok
    BY <1>11 DEF SnoopsOK
  <2> QED BY <1>4, <2>1, <2>2 DEF MissAsserts
<1>13. Sends(r, cmd, Snooped(r))
  BY <1>1, <1>5, <1>6, <1>7, <1>8, <1>9, <1>10, <1>11, <1>12 DEF Sends
<1> QED BY <1>13

(* The memory's answer.                                                    *)
LEMMA MemReply ==
    ASSUME NEW pkt \in Packets, ~pkt.memInhibit, NEW data \in Nat
    PROVE  /\ AnswersTo(Response(pkt, data, FALSE), pkt.from, pkt.cmd, data)
           /\ ~Response(pkt, data, FALSE).memInhibit
           /\ Response(pkt, data, FALSE).shared <=> pkt.shared
<1>1. PICK no : no = FALSE
  OBVIOUS
<1>2. PICK a : a = Response(pkt, data, no)
  OBVIOUS
<1>3. AnswersTo(a, pkt.from, pkt.cmd, data) /\ ~a.memInhibit /\ (a.shared <=> pkt.shared)
  BY <1>1, <1>2 DEF AnswersTo, Packets, SnoopCmds, Response, Responses, RespCmds, IsUpgrade
<1> QED BY <1>1, <1>2, <1>3

(* The step of the protocol, whether the request is taken or not.          *)
Taken(s, sent, cs2, pq, r, cmd) ==
    /\ cs2 \in [Caches -> CacheRecords]
    /\ \A d \in Caches \ {r} : cs2[d] = s.cache[d]
    /\ sent => SentReg(cs2[r], cache[r], cmd)
    /\ ~sent => cs2[r] = cache[r] /\ ~s.pkt.memInhibit
    /\ pq = IF sent /\ ~s.pkt.memInhibit THEN Append(packetQueue, Response(s.pkt, mem, FALSE))
                                         ELSE packetQueue

LEMMA SendTaken ==
    ASSUME IInv, NEW r \in Caches, NEW cmd, NEW s, Sends(r, cmd, s), NEW sent,
           NEW cs2, NEW pq, Taken(s, sent, cs2, pq, r, cmd)
    PROVE  \E ans : SendStep(cs2, cache, AllQueues(cs2, pq), Queues, mem, latest, r, cmd,
                             ans, sent)
<1> DEFINE qs2 == AllQueues(cs2, pq)
           ans == [o \in Ports |-> IF o = 0 THEN Response(s.pkt, mem, FALSE)
                                   ELSE Reply(r, cmd, Supply(cache[o]), FALSE)]
<1>1. /\ ans[0] = Response(s.pkt, mem, FALSE)
      /\ \A o \in Caches : ans[o] = Reply(r, cmd, Supply(cache[o]), FALSE)
  BY PortFacts
<1>2. qs2 = AllQueues(cs2, pq)
  OBVIOUS
<1> HIDE DEF qs2, ans
<1>3. /\ Protocol(cache, Queues, mem, latest) /\ StateOK(cache, Queues)
      /\ mem \in Nat /\ latest \in Nat /\ Queues[0] = packetQueue
      /\ packetQueue \in Seq(Responses) /\ Asked(cache, Queues, r, cmd) /\ cmd \in SnoopCmds
      /\ cache \in [Caches -> CacheRecords]
  BY CacheFacts DEF Sends
<1>4. /\ s.pkt \in Packets /\ s.pkt.from = r /\ s.pkt.cmd = cmd
      /\ s.cache = [d \in Caches |-> IF d = r THEN cache[r] ELSE After(cache[d], r, cmd)]
      /\ s.pkt.shared <=> cmd = "ReadReq" /\ \E d \in Caches \ {r} : Shares(cache[d])
      /\ s.pkt.memInhibit <=> \E d \in Caches \ {r} : Supplies(cache[d])
  BY DEF Sends, SnoopsOK
<1>5. Gives(cache, r, 0) <=> ~s.pkt.memInhibit
  BY <1>4 DEF Gives
<1>6. \A d \in Caches \ {r} : AfterOK(cs2[d], cache[d], r, cmd)
  <2> SUFFICES ASSUME NEW d \in Caches \ {r} PROVE AfterOK(cs2[d], cache[d], r, cmd)
    OBVIOUS
  <2>1. cs2[d] = After(cache[d], r, cmd)
    BY <1>4 DEF Taken
  <2>2. cache[d] \in CacheRecords /\ CacheOK(cache[d])
    BY <1>3 DEF StateOK
  <2> QED BY <1>3, <2>1, <2>2, AfterFacts
<1>7. ASSUME NEW o \in Ports, Gives(cache, r, o) PROVE GivenOK(ans[o], cache, r, cmd, o, mem)
  <2>1. CASE o = 0
    <3>1. ~s.pkt.memInhibit
      BY <1>5, <1>7, <2>1
    <3>4. AnswersTo(ans[0], r, cmd, mem) /\ ~ans[0].memInhibit
          /\ (ans[0].shared <=> s.pkt.shared)
      <4>1. PICK pkt : pkt = s.pkt
        OBVIOUS
      <4>2. pkt \in Packets /\ ~pkt.memInhibit /\ pkt.from = r /\ pkt.cmd = cmd /\ mem \in Nat
        BY <1>3, <1>4, <3>1, <4>1
      <4>3. /\ AnswersTo(Response(pkt, mem, FALSE), pkt.from, pkt.cmd, mem)
            /\ ~Response(pkt, mem, FALSE).memInhibit
            /\ Response(pkt, mem, FALSE).shared <=> pkt.shared
        BY ONLY <4>2, MemReply
      <4>4. ans[0] = Response(pkt, mem, FALSE)
        BY <1>1, <4>1
      <4> QED BY ONLY <4>1, <4>2, <4>3, <4>4
    <3> QED BY <1>4, <2>1, <3>4 DEF GivenOK, AnswersTo
  <2>2. CASE o # 0
    <3>1. o \in Caches /\ cache[o] \in CacheRecords
      BY <1>3, <2>2, PortFacts
    <3>2. ans[o] = Reply(r, cmd, Supply(cache[o]), FALSE)
      BY <1>1, <3>1
    <3>3. AnswersTo(ans[o], r, cmd, Supply(cache[o])) /\ ans[o].memInhibit
          /\ (ans[o].shared <=> cmd = "ReadReq")
      BY <1>3, <3>1, <3>2, OwnerReply
    <3> QED BY <2>2, <3>3 DEF GivenOK, AnswersTo
  <2> QED BY <2>1, <2>2
<1>8. qs2[0] = pq /\ \A d \in Caches : qs2[d] = cs2[d].snoopRespQueue
  BY <1>2, QueueFacts
<1>9. ASSUME NEW o \in Ports
      PROVE  qs2[o] = IF sent /\ Gives(cache, r, o) THEN Append(Queues[o], ans[o]) ELSE Queues[o]
  <2>1. CASE o = 0
    BY <1>1, <1>3, <1>5, <1>8, <2>1 DEF Taken
  <2>2. CASE o = r
    <3>1. cs2[r].snoopRespQueue = cache[r].snoopRespQueue
      BY DEF Taken, SentReg
    <3>2. ~Gives(cache, r, o) /\ Queues[r] = cache[r].snoopRespQueue
      BY <2>2, PortFacts, CacheFacts DEF Gives
    <3> QED BY <1>8, <2>2, <3>1, <3>2
  <2>3. CASE o # 0 /\ o # r
    <3>1. o \in Caches \ {r}
      BY <2>3, PortFacts
    <3>2. Queues[o] = cache[o].snoopRespQueue /\ (Gives(cache, r, o) <=> Owns(cache[o]))
      BY <2>3, <3>1, CacheFacts DEF Gives
    <3>3. ~sent => ~Owns(cache[o])
      BY <1>4, <3>1 DEF Taken, Supplies
    <3>4. cs2[o].snoopRespQueue =
            IF Owns(cache[o]) THEN Append(cache[o].snoopRespQueue, ans[o])
            ELSE cache[o].snoopRespQueue
      BY <1>1, <1>6, <3>1 DEF AfterOK
    <3> QED BY <1>8, <3>1, <3>2, <3>3, <3>4
  <2> QED BY <2>1, <2>2, <2>3
<1>10. qs2 \in [Ports -> Seq(Responses)]
  <2>1. pq \in Seq(Responses)
    <3>1. CASE sent /\ ~s.pkt.memInhibit
      <4>1. ans[0] \in Responses
        BY <1>5, <1>7, <3>1, PortFacts DEF GivenOK
      <4>2. pq = Append(packetQueue, ans[0])
        BY <1>1, <3>1 DEF Taken
      <4> QED BY <1>3, <4>1, <4>2
    <3>2. CASE ~(sent /\ ~s.pkt.memInhibit)
      BY <1>3, <3>2 DEF Taken
    <3> QED BY <3>1, <3>2
  <2>2. cs2 \in [Caches -> CacheRecords]
    BY DEF Taken
  <2> QED BY ONLY <1>2, <2>1, <2>2, QueueFacts
<1>11. /\ cs2 \in [Caches -> CacheRecords]
       /\ sent => SentReg(cs2[r], cache[r], cmd)
       /\ ~sent => cs2[r] = cache[r] /\ Gives(cache, r, 0)
  BY <1>5 DEF Taken
<1>12. SendStep(cs2, cache, qs2, Queues, mem, latest, r, cmd, ans, sent)
  BY <1>3, <1>6, <1>7, <1>9, <1>10, <1>11 DEF SendStep
<1>13. \E a : SendStep(cs2, cache, qs2, Queues, mem, latest, r, cmd, a, sent)
  BY <1>12
<1> QED BY <1>2, <1>13

(* The snoop filter and the crossbar after the request.                    *)
SendRest(cs2, qs2, s, r, sent) ==
    /\ Protocol(cs2, qs2, mem, latest) /\ qs2[0] \in Seq(Responses)
    /\ sent => /\ Filter(cs2, qs2, [snoopFilter EXCEPT !.requested = @ \cup {r}])
               /\ Crossbar(cs2, qs2, routeTo \cup {r},
                           IF s.pkt.memInhibit THEN outstandingSnoop \cup {r}
                           ELSE outstandingSnoop)
    /\ ~sent => /\ Filter(cs2, qs2, snoopFilter)
                /\ Crossbar(cs2, qs2, routeTo, outstandingSnoop)

LEMMA SendRestHolds ==
    ASSUME IInv, NEW r \in Caches, NEW cmd, NEW s, Sends(r, cmd, s), NEW sent,
           NEW cs2, NEW pq, Taken(s, sent, cs2, pq, r, cmd),
           NEW qs2, qs2 = AllQueues(cs2, pq)
    PROVE  SendRest(cs2, qs2, s, r, sent)
<1> DEFINE cs == cache
           qs == Queues
           sf == [snoopFilter EXCEPT !.requested = @ \cup {r}]
<1>1. PICK ans : SendStep(cs2, cs, qs2, qs, mem, latest, r, cmd, ans, sent)
  <2>1. \E ans : SendStep(cs2, cs, AllQueues(cs2, pq), qs, mem, latest, r, cmd, ans, sent)
    BY SendTaken
  <2> QED BY <2>1
<1>2. qs2[0] = pq /\ \A d \in Caches : qs2[d] = cs2[d].snoopRespQueue
  BY QueueFacts
<1>3. \A o \in Ports : o # 0 => qs2[o] = cs2[o].snoopRespQueue
  BY <1>2, PortFacts
<1>4. Protocol(cs2, qs2, mem, latest)
  BY <1>1, <1>3, SendKeeps
<1>5. Filter(cs, qs, snoopFilter) /\ Crossbar(cs, qs, routeTo, outstandingSnoop)
      /\ StateOK(cs, qs)
  BY CacheFacts
<1>6. Gives(cs, r, 0) <=> ~s.pkt.memInhibit
  BY DEF Sends, SnoopsOK, Gives
<1> HIDE DEF cs, qs
<1>7. SentFacts(cs2, cs, qs2, qs, r, cmd, sent)
  BY <1>1, SendFacts
<1>8. qs2[0] \in Seq(Responses)
  BY <1>1, PortFacts DEF SendStep
<1>9. \A d \in Caches : Busy(cs2[d]) <=> Busy(cs[d]) \/ (d = r /\ sent)
  BY <1>7 DEF SentFacts
<1>10. ASSUME NEW d \in Caches, isValid(cs2[d]) \/ cs2[d].writeback.pending \/ qs2[d] # <<>>
       PROVE  d \in snoopFilter.holder
  <2>1. isValid(cs2[d]) \/ cs2[d].writeback.pending => isValid(cs[d]) \/ cs[d].writeback.pending
    BY <1>7 DEF SentFacts
  <2>2. qs2[d] # <<>> => qs[d] # <<>> \/ Owns(cs[d])
    <3>1. qs2[d] = IF sent /\ Gives(cs, r, d) THEN Append(qs[d], ans[d]) ELSE qs[d]
      BY <1>1, PortFacts DEF SendStep
    <3>2. Gives(cs, r, d) => Owns(cs[d])
      BY PortFacts DEF Gives
    <3> QED BY <3>1, <3>2
  <2>3. Owns(cs[d]) => isValid(cs[d]) \/ cs[d].writeback.pending
    BY <1>5, Kinds
  <2> QED BY <1>5, <1>10, <2>1, <2>2, <2>3 DEF Filter
<1>11. /\ snoopFilter = [requested |-> snoopFilter.requested, holder |-> snoopFilter.holder]
       /\ snoopFilter.requested = {d \in Caches : Busy(cs[d])}
       /\ snoopFilter.holder \subseteq Caches
  BY <1>5 DEF Filter
<1>12. sent => Filter(cs2, qs2, sf)
  <2> SUFFICES ASSUME sent PROVE Filter(cs2, qs2, sf)
    OBVIOUS
  <2>1. sf = [requested |-> snoopFilter.requested \cup {r}, holder |-> snoopFilter.holder]
    BY <1>11
  <2> HIDE DEF sf
  <2>2. sf.requested = snoopFilter.requested \cup {r} /\ sf.holder = snoopFilter.holder
        /\ sf = [requested |-> sf.requested, holder |-> sf.holder]
    BY <2>1
  <2>3. {d \in Caches : Busy(cs2[d])} = {d \in Caches : Busy(cs[d])} \cup {r}
    BY <1>9
  <2> QED BY <1>10, <1>11, <2>2, <2>3 DEF Filter
<1>13. ~sent => Filter(cs2, qs2, snoopFilter)
  <2>1. ~sent => {d \in Caches : Busy(cs2[d])} = {d \in Caches : Busy(cs[d])}
    BY <1>9
  <2> QED BY <1>10, <1>11, <2>1 DEF Filter
<1>14. /\ \A d \in Caches \ {r} : (\E i \in DOMAIN qs2[0] : qs2[0][i].to = d)
                                    <=> (\E i \in DOMAIN qs[0] : qs[0][i].to = d)
       /\ (\E i \in DOMAIN qs2[0] : qs2[0][i].to = r) <=> sent /\ ~s.pkt.memInhibit
       /\ ~\E i \in DOMAIN qs[0] : qs[0][i].to = r
  <2>1. /\ \A i \in DOMAIN qs[0] : i \in DOMAIN qs2[0] /\ qs2[0][i] = qs[0][i]
        /\ ~(sent /\ Gives(cs, r, 0)) => qs2[0] = qs[0]
        /\ sent /\ Gives(cs, r, 0) =>
             /\ Len(qs[0]) + 1 \in DOMAIN qs2[0] /\ qs2[0][Len(qs[0]) + 1] = ans[0]
             /\ ans[0].to = r
             /\ \A i \in DOMAIN qs2[0] : i \in DOMAIN qs[0] \/ i = Len(qs[0]) + 1
        /\ \A i \in DOMAIN qs[0] : qs[0][i].to \in Caches \ {r}
    <3>1. 0 \in Ports
      BY PortFacts
    <3> QED BY <1>1, <3>1, GivenQueues
  <2> QED BY <1>6, <2>1 DEF cs
<1>15. ~Busy(cs[r]) /\ routeTo = {d \in Caches : Busy(cs[d])}
       /\ outstandingSnoop
            = {d \in Caches : Busy(cs[d]) /\ ~\E i \in DOMAIN qs[0] : qs[0][i].to = d}
  BY <1>5, <1>7 DEF Crossbar, SentFacts
<1>16. sent => Crossbar(cs2, qs2, routeTo \cup {r},
                        IF s.pkt.memInhibit THEN outstandingSnoop \cup {r}
                        ELSE outstandingSnoop)
  <2> SUFFICES ASSUME sent
               PROVE  Crossbar(cs2, qs2, routeTo \cup {r},
                        IF s.pkt.memInhibit THEN outstandingSnoop \cup {r}
                        ELSE outstandingSnoop)
    OBVIOUS
  <2>1. routeTo \cup {r} = {d \in Caches : Busy(cs2[d])}
    BY <1>9, <1>15
  <2> DEFINE out == {d \in Caches : Busy(cs2[d]) /\ ~\E i \in DOMAIN qs2[0] : qs2[0][i].to = d}
  <2>2. \A d \in Caches \ {r} : d \in out <=> d \in outstandingSnoop
    BY <1>9, <1>14, <1>15
  <2>3. r \in out <=> s.pkt.memInhibit
    BY <1>9, <1>14
  <2>4. r \notin outstandingSnoop /\ outstandingSnoop \subseteq Caches /\ out \subseteq Caches
    BY <1>15
  <2> HIDE DEF out
  <2>5. out = IF s.pkt.memInhibit THEN outstandingSnoop \cup {r} ELSE outstandingSnoop
    BY <2>2, <2>3, <2>4
  <2> QED BY <2>1, <2>5 DEF Crossbar, out
<1>17. ~sent => Crossbar(cs2, qs2, routeTo, outstandingSnoop)
  <2> SUFFICES ASSUME ~sent PROVE Crossbar(cs2, qs2, routeTo, outstandingSnoop)
    OBVIOUS
  <2>1. routeTo = {d \in Caches : Busy(cs2[d])}
    BY <1>9, <1>15
  <2>2. outstandingSnoop
          = {d \in Caches : Busy(cs2[d]) /\ ~\E i \in DOMAIN qs2[0] : qs2[0][i].to = d}
    BY <1>9, <1>14, <1>15
  <2> QED BY <2>1, <2>2 DEF Crossbar
<1> QED BY <1>4, <1>8, <1>12, <1>13, <1>16, <1>17 DEF SendRest

(* The request is taken: its register is in service.                       *)
LEMMA SendMarks ==
    ASSUME IInv, NEW r \in Caches, NEW cmd, NEW s, Sends(r, cmd, s), NEW pd \in BOOLEAN,
           pd => ~s.pkt.shared /\ s.pkt.memInhibit,
           NEW c2, c2 = [cache[r] EXCEPT !.mshr = MSHR_markInService(cache[r].mshr, pd)]
    PROVE  c2 \in CacheRecords /\ SentReg(c2, cache[r], cmd)
<1> DEFINE c == cache[r]
           m == c.mshr
           m2 == MSHR_markInService(m, pd)
<1>1. c \in CacheRecords /\ CacheOK(c) /\ m \in Regs /\ RegOK(m) /\ Queues[r] = c.snoopRespQueue
  BY CacheFacts, CacheFields DEF CacheOK
<1>2. /\ ~Busy(c) /\ ~c.writeback.pending /\ Queues[r] = <<>> /\ HasMSHR(c)
      /\ cmd \in SnoopCmds
      /\ cmd = "ReadReq" <=> ~m.targets.needsExclusive
  BY DEF Sends, Asked
<1>3. m # FreeMSHR /\ ~m.inService
  BY <1>2 DEF HasMSHR, Busy
<1>4. pd => m.targets.needsExclusive
  <2> SUFFICES ASSUME pd, cmd = "ReadReq" PROVE FALSE
    BY <1>2
  <2>1. /\ s.pkt.shared <=> cmd = "ReadReq" /\ \E d \in Caches \ {r} : Shares(cache[d])
        /\ s.pkt.memInhibit <=> \E d \in Caches \ {r} : Supplies(cache[d])
    BY DEF Sends, SnoopsOK
  <2>2. PICK d \in Caches \ {r} : Supplies(cache[d])
    BY <2>1
  <2>3. Shares(cache[d])
    BY <2>2, CacheFacts, CacheKinds
  <2> QED BY <2>1, <2>3
<1>5. m2 = MSHR_markInService(m, pd)
  OBVIOUS
<1>6. c2 = [c EXCEPT !.mshr = m2]
  OBVIOUS
<1> HIDE DEF m2
<1>7. /\ m2 \in Regs /\ RegOK(m2) /\ m2 # FreeMSHR
      /\ m2.inService /\ ~m2.postInvalidate /\ ~m2.postDowngrade
      /\ m2.targets = m.targets /\ m2.deferredTargets = m.deferredTargets
      /\ m2.pendingDirty <=> m.targets.needsExclusive
      /\ \A k \in DOMAIN m.targets.list :
            IsLoad(m.targets.list[k]) \/ IsStore(m.targets.list[k])
  BY <1>1, <1>3, <1>4, <1>5, RegMark
<1>8. /\ c2 \in CacheRecords /\ c2.mshr = m2 /\ c2.status = c.status /\ c2.data = c.data
      /\ c2.writeback = c.writeback /\ c2.snoopRespQueue = c.snoopRespQueue
  BY ONLY <1>1, <1>6, <1>7 DEF CacheRecords
<1>9. /\ Busy(c2) /\ ~Doomed(c2) /\ ~Lowered(c2) /\ HasMSHR(c2)
      /\ Claiming(c2) <=> cmd # "ReadReq"
  BY <1>2, <1>7, <1>8 DEF Busy, Doomed, Lowered, HasMSHR, Claiming
<1>10. CacheOK(c2)
  <2>1. c2.status \in Pending
    BY <1>1, <1>2, <1>8 DEF CacheOK
  <2>2. /\ isValid(c2) <=> isValid(c)
        /\ isWritable(c2) <=> isWritable(c)
    BY <1>8 DEF isValid, isWritable
  <2>3. isValid(c2) => c2.mshr.targets.needsExclusive
    BY <1>1, <1>2, <1>7, <1>8, <2>2 DEF CacheOK
  <2>4. c2.snoopRespQueue = <<>> /\ ~c2.writeback.pending
    BY <1>1, <1>2, <1>8
  <2> QED BY <1>7, <1>8, <1>9, <2>1, <2>3, <2>4 DEF CacheOK
<1>11. \A k \in DOMAIN c2.mshr.targets.list : ~IsSnoop(c2.mshr.targets.list[k])
  BY <1>7, <1>8, TargetKinds
<1> QED BY <1>7, <1>8, <1>9, <1>10, <1>11 DEF SentReg

LEMMA SendMissInv ==
    ASSUME IInv, NEW r \in Caches, SendMiss(r)
    PROVE  IInv'
<1> DEFINE s == Snooped(r)
           pd == ~s.pkt.shared /\ s.pkt.memInhibit
           c2 == [cache[r] EXCEPT !.mshr = MSHR_markInService(cache[r].mshr, pd)]
<1>1. MissReady(r)
  BY DEF SendMiss
<1>2. PICK cmd : Sends(r, cmd, s)
  BY <1>1, MissSends
<1>3. s.cache = [d \in Caches |-> IF d = r THEN cache[r] ELSE After(cache[d], r, cmd)]
  BY <1>2 DEF Sends, SnoopsOK
<1>4. cache' = [s.cache EXCEPT ![r].mshr = MSHR_markInService(@, pd)]
  BY DEF SendMiss
<1>5. /\ packetQueue' = IF s.pkt.memInhibit THEN packetQueue
                        ELSE Append(packetQueue, Response(s.pkt, mem, FALSE))
      /\ routeTo' = routeTo \cup {r}
      /\ outstandingSnoop' = IF s.pkt.memInhibit THEN outstandingSnoop \cup {r}
                             ELSE outstandingSnoop
      /\ snoopFilter' = [snoopFilter EXCEPT !.requested = @ \cup {r}]
      /\ failed' = (failed \/ ~MissAsserts(r, s))
      /\ UNCHANGED <<mem, issued, latest, stale>>
  BY DEF SendMiss
<1> HIDE DEF s
<1>6. failed' = FALSE
  <2>1. MissAsserts(r, s) /\ failed = FALSE
    BY <1>2 DEF Sends, IInv
  <2> QED BY <1>5, <2>1
<1>7. pd \in BOOLEAN /\ (pd <=> ~s.pkt.shared /\ s.pkt.memInhibit)
  OBVIOUS
<1> HIDE DEF pd
<1>8. c2 \in CacheRecords /\ SentReg(c2, cache[r], cmd)
  BY <1>2, <1>7, SendMarks
<1>9. cache' = [s.cache EXCEPT ![r] = c2]
  BY <1>3, <1>4
<1> HIDE DEF c2
<1>10. /\ cache' = [d \in Caches |-> IF d = r THEN c2 ELSE After(cache[d], r, cmd)]
       /\ cache'[r] = c2 /\ \A d \in Caches \ {r} : cache'[d] = s.cache[d]
  BY <1>3, <1>9
<1>11. \A d \in Caches : After(cache[d], r, cmd) \in CacheRecords
  <2> SUFFICES ASSUME NEW d \in Caches PROVE After(cache[d], r, cmd) \in CacheRecords
    OBVIOUS
  <2>1. cache[d] \in CacheRecords /\ CacheOK(cache[d]) /\ cmd \in SnoopCmds
    BY <1>2, CacheFacts DEF Sends
  <2> QED BY <2>1, AfterFacts DEF AfterOK
<1>12. cache' \in [Caches -> CacheRecords]
  BY <1>8, <1>10, <1>11
<1>13. PICK sent : sent = TRUE
  OBVIOUS
<1>14. Taken(s, sent, cache', packetQueue', r, cmd)
  BY <1>5, <1>8, <1>10, <1>12, <1>13 DEF Taken
<1> DEFINE qs2 == AllQueues(cache', packetQueue')
<1>15. qs2 = AllQueues(cache', packetQueue') /\ qs2[0] = packetQueue'
  BY QueueFacts
<1> HIDE DEF qs2
<1>16. SendRest(cache', qs2, s, r, sent)
  BY <1>2, <1>14, <1>15, SendRestHolds
<1>17. /\ Protocol(cache', qs2, mem', latest') /\ packetQueue' \in Seq(Responses)
       /\ Filter(cache', qs2, snoopFilter')
       /\ Crossbar(cache', qs2, routeTo', outstandingSnoop')
  BY <1>5, <1>13, <1>15, <1>16 DEF SendRest
<1>18. issued' \in Nat /\ stale' = FALSE
  BY <1>5 DEF IInv
<1> QED BY <1>6, <1>15, <1>17, <1>18 DEF IInv

LEMMA MissRefusedInv ==
    ASSUME IInv, NEW r \in Caches, MissRefused(r)
    PROVE  IInv'
<1> DEFINE s == Snooped(r)
<1>1. MissReady(r)
  BY DEF MissRefused
<1>2. PICK cmd : Sends(r, cmd, s)
  BY <1>1, MissSends
<1>3. s.cache = [d \in Caches |-> IF d = r THEN cache[r] ELSE After(cache[d], r, cmd)]
  BY <1>2 DEF Sends, SnoopsOK
<1>4. /\ cache' = s.cache /\ ~s.pkt.memInhibit
      /\ failed' = (failed \/ ~MissAsserts(r, s))
      /\ UNCHANGED <<mem, packetQueue, routeTo, outstandingSnoop, snoopFilter,
                     issued, latest, stale>>
  BY DEF MissRefused
<1> HIDE DEF s
<1>5. failed' = FALSE
  <2>1. MissAsserts(r, s) /\ failed = FALSE
    BY <1>2 DEF Sends, IInv
  <2> QED BY <1>4, <2>1
<1>6. \A d \in Caches : After(cache[d], r, cmd) \in CacheRecords /\ cache[d] \in CacheRecords
  <2> SUFFICES ASSUME NEW d \in Caches
               PROVE  After(cache[d], r, cmd) \in CacheRecords /\ cache[d] \in CacheRecords
    OBVIOUS
  <2>1. cache[d] \in CacheRecords /\ CacheOK(cache[d]) /\ cmd \in SnoopCmds
    BY <1>2, CacheFacts DEF Sends
  <2> QED BY <2>1, AfterFacts DEF AfterOK
<1>7. cache' \in [Caches -> CacheRecords] /\ cache'[r] = cache[r]
  BY <1>3, <1>4, <1>6
<1>8. PICK sent : sent = FALSE
  OBVIOUS
<1>9. Taken(s, sent, cache', packetQueue', r, cmd)
  BY <1>4, <1>7, <1>8 DEF Taken
<1> DEFINE qs2 == AllQueues(cache', packetQueue')
<1>10. qs2 = AllQueues(cache', packetQueue') /\ qs2[0] = packetQueue'
  BY QueueFacts
<1> HIDE DEF qs2
<1>11. SendRest(cache', qs2, s, r, sent)
  BY <1>2, <1>9, <1>10, SendRestHolds
<1>12. /\ Protocol(cache', qs2, mem', latest') /\ packetQueue' \in Seq(Responses)
       /\ Filter(cache', qs2, snoopFilter')
       /\ Crossbar(cache', qs2, routeTo', outstandingSnoop')
  BY <1>4, <1>8, <1>10, <1>11 DEF SendRest
<1>13. issued' \in Nat /\ stale' = FALSE
  BY <1>4 DEF IInv
<1> QED BY <1>5, <1>10, <1>12, <1>13 DEF IInv

(* The first answer a of port o, to cache r.                               *)
First(o, a, r) ==
    /\ o \in Ports /\ Queues[o] # <<>> /\ a = Head(Queues[o]) /\ r = a.to
FirstFacts(o, a, r) ==
    /\ a \in Responses /\ r \in Caches /\ o # r /\ Busy(cache[r])
    /\ 1 \in DOMAIN Queues[o] /\ Queues[o][1] = a /\ Real(Queues, r)
    /\ FillStart(cache[r], o, a, latest)
    /\ a.memInhibit <=> o # 0
    /\ r \in routeTo /\ r \in snoopFilter.requested
    /\ r \in outstandingSnoop <=> o # 0
    /\ o # 0 => o \in snoopFilter.holder
    /\ \A p \in Ports : \A i \in DOMAIN Queues[p] : Queues[p][i].to = r => p = o /\ i = 1

LEMMA FirstAnswer ==
    ASSUME IInv, NEW o, NEW a, NEW r, First(o, a, r)
    PROVE  FirstFacts(o, a, r)
<1> DEFINE cs == cache
           qs == Queues
<1>1. /\ Protocol(cs, qs, mem, latest)
      /\ Filter(cs, qs, snoopFilter)
      /\ Crossbar(cs, qs, routeTo, outstandingSnoop)
  BY DEF IInv, Queues
<1>2. o \in Ports /\ qs[o] # <<>> /\ a = Head(qs[o]) /\ r = a.to
  BY DEF First
<1> HIDE DEF cs, qs
<1>3. StateOK(cs, qs) /\ Routes(cs, qs, latest) /\ Owed(cs, qs) /\ AllReady(cs, latest)
      /\ latest \in Nat
  BY <1>1 DEF Protocol
<1>4. qs[o] \in Seq(Responses)
  BY <1>2, <1>3, QueueTypes
<1>5. 1 \in DOMAIN qs[o] /\ qs[o][1] = a
  BY <1>2, <1>4
<1>6. a \in Responses /\ r \in Caches
  BY <1>2, <1>3, <1>5, QueueTypes
<1>7. AnswerOK(o, a, cs[r], latest)
  BY <1>2, <1>3, <1>5 DEF Routes
<1>8. Busy(cs[r]) /\ (a.memInhibit <=> o # 0)
  BY <1>7 DEF AnswerOK
<1>9. o # r
  BY <1>2, <1>3, <1>6, <1>8, Kinds
<1>10. Real(qs, r)
  BY <1>2, <1>5 DEF Real
<1>11. FillStart(cs[r], o, a, latest)
  <2>1. cs[r] \in CacheRecords /\ CacheOK(cs[r]) /\ ReadyOK(cs[r], latest)
    BY <1>3, <1>6 DEF StateOK, AllReady
  <2>2. Claiming(cs[r]) => SavedOK(cs[r].mshr)
    BY <1>3, <1>6 DEF Owed
  <2> QED BY <1>3, <1>6, <1>7, <2>1, <2>2 DEF FillStart
<1>12. \A p \in Ports : \A i \in DOMAIN qs[p] : qs[p][i].to = r => p = o /\ i = 1
  BY <1>2, <1>3, <1>5 DEF Routes
<1>13. r \in routeTo /\ r \in snoopFilter.requested
  BY <1>1, <1>6, <1>8 DEF Filter, Crossbar
<1>14. r \in outstandingSnoop <=> o # 0
  <2>1. r \in outstandingSnoop <=> ~\E i \in DOMAIN qs[0] : qs[0][i].to = r
    BY <1>1, <1>6, <1>8 DEF Crossbar
  <2>2. (\E i \in DOMAIN qs[0] : qs[0][i].to = r) <=> o = 0
    BY <1>2, <1>5, <1>12, PortFacts
  <2> QED BY <2>1, <2>2
<1>15. o # 0 => o \in snoopFilter.holder
  BY <1>1, <1>2, PortFacts DEF Filter
<1> QED BY <1>5, <1>6, <1>8, <1>9, <1>10, <1>11, <1>12, <1>13, <1>14, <1>15
        DEF FirstFacts, cs, qs

(* The caches cs once the answer has left its port, and the fill.          *)
Receives(cs, o, a, r, temp) ==
    /\ First(o, a, r) /\ temp \in BOOLEAN
    /\ cs \in [Caches -> CacheRecords]
    /\ \A d \in Caches :
          /\ cs[d].status = cache[d].status /\ cs[d].data = cache[d].data
          /\ cs[d].mshr = cache[d].mshr /\ cs[d].writeback = cache[d].writeback
          /\ d # o => cs[d] = cache[d]
    /\ o # 0 => cs[o].snoopRespQueue = Tail(Queues[o])
    /\ packetQueue' = IF o = 0 THEN Tail(Queues[0]) ELSE Queues[0]
    /\ recvTimingResp(cs, a, temp, TRUE)

LEMMA RecvFill ==
    ASSUME IInv, NEW cs, NEW o, NEW a, NEW r, NEW temp, Receives(cs, o, a, r, temp)
    PROVE  /\ FillStep(cache', cache, Queues', Queues, mem, latest, latest', o, a, r)
           /\ stale' = FALSE /\ failed' = FALSE
<1> DEFINE c == cache[r]
           g == Fill(c, a, latest, stale)
           c2 == FillCache(g, c, a, temp)
<1>1. FirstFacts(o, a, r) /\ First(o, a, r)
  BY FirstAnswer DEF Receives
<1>2. /\ a \in Responses /\ r \in Caches /\ o # r /\ r = a.to /\ o \in Ports
      /\ FillStart(c, o, a, latest)
  BY <1>1 DEF FirstFacts, First
<1>3. temp \in BOOLEAN /\ cs \in [Caches -> CacheRecords] /\ cs[r] = c
      /\ recvTimingResp(cs, a, temp, TRUE)
  BY <1>2 DEF Receives
<1>4. /\ cache' = [cs EXCEPT ![r] = c2] /\ latest' = g.latest /\ stale' = g.stale
  BY <1>2, <1>3 DEF recvTimingResp, Fill, FillCache, FillSettled
<1>5. failed' = \/ failed \/ ~g.ok
                \/ ~TRUE
                \/ FillTakesDeferred(c.mshr, a.shared) /\ c.mshr.targets.needsExclusive
                \/ ~isValid(c) /\ ~HasData(a)
                \/ temp /\ isValid(g.cache) /\ FillSettled(g, c, a).status = {}
                \/ (temp /\ isDirty(FillSettled(g, c, a))) /\ c.writeback.pending
  BY <1>2, <1>3 DEF recvTimingResp, Fill, FillCache, FillSettled
<1>6. stale \in BOOLEAN /\ ~stale /\ failed = FALSE
  BY DEF IInv
<1> HIDE DEF g, c2
<1>7. g = Fill(c, a, latest, stale) /\ c2 = FillCache(g, c, a, temp)
  BY DEF g, c2
<1>8. /\ FillOK(c2, c, a, latest, g.latest) /\ ~g.stale /\ g.ok
      /\ ~(FillTakesDeferred(c.mshr, a.shared) /\ c.mshr.targets.needsExclusive)
      /\ ~(~isValid(c) /\ ~HasData(a))
      /\ ~(isValid(g.cache) /\ FillSettled(g, c, a).status = {})
      /\ ~c.writeback.pending
  BY <1>2, <1>3, <1>6, <1>7, FillDone
<1>9. stale' = FALSE
  <2>1. g \in Fills
    BY <1>2, <1>6, <1>7, FillServed
  <2> QED BY <1>4, <1>8, <2>1 DEF Fills
<1>10. failed' = FALSE
  BY <1>5, <1>6, <1>8
<1>11. /\ cache'[r] = c2 /\ \A d \in Caches \ {r} : cache'[d] = cs[d]
       /\ cache' \in [Caches -> CacheRecords]
  <2>1. c2 \in CacheRecords
    BY <1>8 DEF FillOK
  <2> QED BY <1>2, <1>3, <1>4, <2>1
<1> DEFINE qs2 == Queues'
<1>12. qs2 = AllQueues(cache', packetQueue')
  BY DEF Queues
<1> HIDE DEF qs2
<1>13. qs2[0] = packetQueue' /\ \A d \in Caches : qs2[d] = cache'[d].snoopRespQueue
  BY <1>12, QueueFacts
<1>14. Protocol(cache, Queues, mem, latest) /\ StateOK(cache, Queues)
  BY <1>2, CacheFacts
<1>15. Queues[o] \in Seq(Responses) /\ Queues[0] \in Seq(Responses) /\ Queues[o] # <<>>
       /\ Tail(Queues[o]) \in Seq(Responses)
  BY <1>1, <1>2, <1>14, PortFacts, QueueTypes DEF First
<1>16. qs2 \in [Ports -> Seq(Responses)]
  <2>1. packetQueue' \in Seq(Responses)
    BY <1>15 DEF Receives
  <2> QED BY ONLY <1>11, <1>12, <2>1, QueueFacts
<1>17. qs2[o] = Tail(Queues[o])
  BY <1>2, <1>11, <1>13, PortFacts DEF Receives
<1>18. \A p \in Ports \ {o, r} : qs2[p] = Queues[p]
  <2> SUFFICES ASSUME NEW p \in Ports \ {o, r} PROVE qs2[p] = Queues[p]
    OBVIOUS
  <2>1. CASE p = 0
    BY <1>13, <2>1 DEF Receives
  <2>2. CASE p # 0
    <3>1. p \in Caches /\ cache'[p] = cache[p]
      BY <1>11, <2>2, PortFacts DEF Receives
    <3> QED BY <1>13, <3>1, CacheFacts
  <2> QED BY <2>1, <2>2
<1>19. \A d \in Caches \ {r} : /\ cache'[d].status = cache[d].status
                               /\ cache'[d].data = cache[d].data
                               /\ cache'[d].mshr = cache[d].mshr
                               /\ cache'[d].writeback = cache[d].writeback
  BY <1>11 DEF Receives
<1>20. FillStep(cache', cache, qs2, Queues, mem, latest, latest', o, a, r)
  BY <1>1, <1>4, <1>8, <1>11, <1>13, <1>14, <1>16, <1>17, <1>18, <1>19 DEF FillStep, First
<1> QED BY <1>9, <1>10, <1>20 DEF qs2

(* An exclusive answer finds no other cache with a copy, a writeback or    *)
(* another answer: updateResponse may forget them.                         *)
LEMMA FillForgets ==
    ASSUME NEW cs2, NEW cs, NEW qs2, NEW qs, NEW mm, NEW lat, NEW lat2, NEW o, NEW a, NEW r,
           FillStep(cs2, cs, qs2, qs, mm, lat, lat2, o, a, r),
           NeedsExclusiveResp(a) \/ ~a.shared, NEW d \in Caches \ {r}
    PROVE  ~isValid(cs[d]) /\ ~cs[d].writeback.pending /\ qs2[d] = <<>>
<1>1. FilledQueues(qs2, qs, o, a, r) /\ FilledFacts(cs2, cs, qs2, qs, lat, lat2, o, a, r)
  BY FillQueues, FillChanges
<1>2. /\ Protocol(cs, qs, mm, lat) /\ r \in Caches /\ o \in Ports /\ o # r
      /\ 1 \in DOMAIN qs[o] /\ qs[o][1] = a /\ a.to = r /\ Real(qs, r)
      /\ qs2[o] = Tail(qs[o]) /\ \A p \in Ports \ {o, r} : qs2[p] = qs[p]
      /\ \A p \in Ports : \A i \in DOMAIN qs[p] : qs[p][i].to = r => p = o /\ i = 1
      /\ (Reading(cs[r]) <=> ~Claiming(cs[r]))
  BY <1>1 DEF FillStep, FilledQueues, FilledFacts
<1>3. StateOK(cs, qs) /\ AnswerOK(o, a, cs[r], lat) /\ d \in Ports
  BY <1>2, PortFacts DEF Protocol, Routes
<1>4. CASE Claiming(cs[r])
  <2>1. \A q \in Caches : Claiming(cs[q]) /\ Real(qs, q) => q = r
    BY <1>2, <1>4 DEF Protocol, OneRealClaim
  <2>2. ~cs[d].writeback.pending /\ (isValid(cs[d]) => Busy(cs[d]))
    BY <1>2, <1>4 DEF Protocol, ClaimAlone
  <2>3. ~isValid(cs[d])
    <3>1. Busy(cs[d]) /\ isValid(cs[d]) => Real(qs, d) /\ Claiming(cs[d])
      BY <1>2, <1>3, Kinds DEF Protocol, UpgradeReal
    <3> QED BY <2>1, <2>2, <3>1
  <2>4. qs2[d] = <<>>
    <3>1. CASE d = o
      <4>1. Len(qs[o]) = 1
        BY <1>2, <1>4, <3>1 DEF Protocol, ClaimLast
      <4>2. qs[o] \in Seq(Responses)
        BY <1>2, <1>3, QueueTypes
      <4>3. Tail(qs[o]) = <<>>
        <5>1. PICK q : q = qs[o]
          OBVIOUS
        <5>2. q \in Seq(Responses) /\ Len(q) = 1 /\ q # <<>>
          BY <4>1, <4>2, <5>1
        <5>3. Tail(q) \in Seq(Responses) /\ Len(Tail(q)) = 0
          BY ONLY <5>2
        <5>4. Tail(q) = <<>>
          <6>1. PICK t : t = Tail(q)
            OBVIOUS
          <6>2. t \in Seq(Responses) /\ Len(t) = 0
            BY <5>3, <6>1
          <6>3. t = <<>>
            BY ONLY <6>2
          <6> QED BY <6>1, <6>3
        <5> QED BY <5>1, <5>4
      <4> QED BY <1>2, <3>1, <4>3
    <3>2. CASE d # o
      <4>1. qs2[d] = qs[d]
        BY <1>2, <1>3, <3>2
      <4> SUFFICES ASSUME qs[d] # <<>> PROVE FALSE
        BY <4>1
      <4>2. ~Owns(cs[d])
        BY <1>2, <1>3, <1>4, OwnerNoClaim DEF Protocol
      <4>3. PICK i \in DOMAIN qs[d] : Claiming(cs[qs[d][i].to])
        BY <1>2, <4>2 DEF Protocol, OwnersAnswer
      <4>4. qs[d][i].to \in Caches /\ Real(qs, qs[d][i].to)
        BY <1>3, <4>3, QueueTypes DEF Real
      <4>5. qs[d][i].to = r
        BY <2>1, <4>3, <4>4
      <4> QED BY <1>2, <1>3, <3>2, <4>3, <4>5
    <3> QED BY <3>1, <3>2
  <2> QED BY <2>2, <2>3, <2>4
<1>5. CASE Reading(cs[r])
  <2>1. ~a.shared /\ o = 0
    BY <1>3, <1>5 DEF AnswerOK, NeedsExclusiveResp
  <2>2. Unshared(cs, qs, 1)
    BY <1>2, <1>5, <2>1 DEF Unshared
  <2>3. cs[d].status = {} /\ ~cs[d].writeback.pending /\ qs[d] = <<>>
    BY <1>2, <2>1, <2>2 DEF Protocol, OnlyCopy
  <2>4. qs2[d] = qs[d]
    BY <1>2, <1>3, <2>1, PortFacts
  <2> QED BY <2>3, <2>4 DEF isValid
<1> QED BY <1>2, <1>4, <1>5

(* The snoop filter and the crossbar after the fill.                       *)
LEMMA FillFilter ==
    ASSUME IInv, NEW o, NEW a, NEW r,
           FillStep(cache', cache, Queues', Queues, mem, latest, latest', o, a, r)
    PROVE  Filter(cache', Queues', updateResponse(a))
<1> DEFINE cs == cache
           cs2 == cache'
           qs == Queues
           qs2 == Queues'
           sf == updateResponse(a)
<1>1. /\ FilledQueues(qs2, qs, o, a, r)
      /\ FilledFacts(cs2, cs, qs2, qs, latest, latest', o, a, r)
  BY FillQueues, FillChanges
<1>2. \A d \in Caches \ {r} : NeedsExclusiveResp(a) \/ ~a.shared =>
          ~isValid(cs[d]) /\ ~cs[d].writeback.pending /\ qs2[d] = <<>>
  BY FillForgets
<1>3. Filter(cs, qs, snoopFilter)
  BY DEF IInv, Queues
<1>4. qs[o] # <<>>
  BY DEF FillStep
<1> HIDE DEF cs, cs2, qs, qs2
<1>5. r \in Caches /\ a.to = r
  BY <1>1 DEF FilledQueues
<1>6. sf = [requested |-> snoopFilter.requested \ {r},
            holder |-> {r} \cup (IF NeedsExclusiveResp(a) \/ ~a.shared
                                 THEN {} ELSE snoopFilter.holder)]
  BY <1>5 DEF updateResponse
<1> HIDE DEF sf
<1>7. /\ sf.requested = snoopFilter.requested \ {r}
      /\ sf.holder = {r} \cup (IF NeedsExclusiveResp(a) \/ ~a.shared
                               THEN {} ELSE snoopFilter.holder)
      /\ sf = [requested |-> sf.requested, holder |-> sf.holder]
  BY <1>6
<1>8. \A d \in Caches : Busy(cs2[d]) <=> d # r /\ Busy(cs[d])
  BY <1>1 DEF FilledFacts, SameReg
<1>9. {d \in Caches : Busy(cs2[d])} = {d \in Caches : Busy(cs[d])} \ {r}
  BY <1>8
<1>10. sf.requested = {d \in Caches : Busy(cs2[d])} /\ sf.holder \subseteq Caches
  BY <1>3, <1>5, <1>7, <1>9 DEF Filter
<1>11. ASSUME NEW d \in Caches, isValid(cs2[d]) \/ cs2[d].writeback.pending \/ qs2[d] # <<>>
       PROVE  d \in sf.holder
  <2>1. CASE d = r
    BY <1>7, <2>1
  <2>2. CASE d # r
    <3>1. isValid(cs2[d]) <=> isValid(cs[d])
      BY <1>1, <2>2 DEF FilledFacts
    <3>2. cs2[d].writeback = cs[d].writeback
      BY <1>1, <2>2 DEF FilledFacts
    <3>3. qs2[d] # <<>> => qs[d] # <<>>
      BY <1>1, <1>4, <2>2, PortFacts DEF FilledQueues
    <3>4. isValid(cs[d]) \/ cs[d].writeback.pending \/ qs2[d] # <<>>
      BY <1>11, <3>1, <3>2
    <3>5. ~(NeedsExclusiveResp(a) \/ ~a.shared)
      BY <1>2, <2>2, <3>4
    <3>6. d \in snoopFilter.holder
      BY <1>3, <3>3, <3>4 DEF Filter
    <3> QED BY <1>7, <3>5, <3>6
  <2> QED BY <2>1, <2>2
<1>12. Filter(cs2, qs2, sf)
  BY <1>7, <1>10, <1>11 DEF Filter
<1> QED BY <1>12 DEF cs2, qs2, sf

LEMMA FillCrossbar ==
    ASSUME IInv, NEW o, NEW a, NEW r, First(o, a, r),
           FillStep(cache', cache, Queues', Queues, mem, latest, latest', o, a, r),
           NEW out, out = IF o = 0 THEN outstandingSnoop ELSE outstandingSnoop \ {r}
    PROVE  Crossbar(cache', Queues', routeTo \ {r}, out)
<1> DEFINE cs == cache
           cs2 == cache'
           qs == Queues
           qs2 == Queues'
<1>1. /\ FilledQueues(qs2, qs, o, a, r)
      /\ FilledFacts(cs2, cs, qs2, qs, latest, latest', o, a, r)
  BY FillQueues, FillChanges
<1>2. Crossbar(cs, qs, routeTo, outstandingSnoop)
  BY DEF IInv, Queues
<1>3. r \in outstandingSnoop <=> o # 0
  BY FirstAnswer DEF FirstFacts
<1> HIDE DEF cs, cs2, qs, qs2
<1>4. \A d \in Caches : Busy(cs2[d]) <=> d # r /\ Busy(cs[d])
  BY <1>1 DEF FilledFacts, SameReg
<1>5. routeTo \ {r} = {d \in Caches : Busy(cs2[d])}
  BY <1>2, <1>4 DEF Crossbar
<1>6. ASSUME NEW d \in Caches \ {r}
      PROVE  (\E i \in DOMAIN qs2[0] : qs2[0][i].to = d) <=> (\E i \in DOMAIN qs[0] : qs[0][i].to = d)
  <2>1. 0 \in Ports \ {r}
    BY <1>1, PortFacts DEF FilledQueues
  <2>2. \A i \in DOMAIN qs2[0] : /\ Before(o, 0, i) \in DOMAIN qs[0]
                                 /\ qs2[0][i] = qs[0][Before(o, 0, i)]
    BY <1>1, <2>1 DEF FilledQueues
  <2>3. \A i \in DOMAIN qs[0] : qs[0][i].to = d => \E j \in DOMAIN qs2[0] : i = Before(o, 0, j)
    BY <1>1, <2>1 DEF FilledQueues
  <2> QED BY <2>2, <2>3
<1> DEFINE rest == {d \in Caches : Busy(cs2[d]) /\ ~\E i \in DOMAIN qs2[0] : qs2[0][i].to = d}
<1>7. \A d \in Caches \ {r} : d \in rest <=> d \in outstandingSnoop
  BY <1>2, <1>4, <1>6 DEF Crossbar
<1>8. r \notin rest /\ rest \subseteq Caches /\ outstandingSnoop \subseteq Caches
  BY <1>2, <1>4 DEF Crossbar
<1> HIDE DEF rest
<1>9. rest = out
  BY <1>3, <1>7, <1>8
<1>10. Crossbar(cs2, qs2, routeTo \ {r}, out)
  BY <1>5, <1>9 DEF Crossbar, rest
<1> QED BY <1>10 DEF cs2, qs2

(* A fill keeps the invariant.                                             *)
LEMMA RecvInv ==
    ASSUME IInv, NEW cs, NEW o, NEW a, NEW r, NEW temp, Receives(cs, o, a, r, temp),
           outstandingSnoop' = IF o = 0 THEN outstandingSnoop ELSE outstandingSnoop \ {r},
           UNCHANGED <<mem, issued>>
    PROVE  IInv'
<1>1. /\ FillStep(cache', cache, Queues', Queues, mem, latest, latest', o, a, r)
      /\ stale' = FALSE /\ failed' = FALSE
  BY RecvFill
<1>2. Protocol(cache', Queues', mem, latest')
  BY <1>1, FillKeeps
<1>3. First(o, a, r) /\ r = a.to
  BY DEF Receives, First
<1>4. routeTo' = routeTo \ {r} /\ snoopFilter' = updateResponse(a)
  BY <1>3 DEF Receives, recvTimingResp
<1>5. Filter(cache', Queues', snoopFilter')
  BY <1>1, <1>4, FillFilter
<1>6. Crossbar(cache', Queues', routeTo', outstandingSnoop')
  BY <1>1, <1>3, <1>4, FillCrossbar
<1>7. packetQueue' \in Seq(Responses)
  <2>1. Queues'[0] \in Seq(Responses)
    BY <1>1, PortFacts DEF FillStep
  <2>2. Queues'[0] = packetQueue'
    BY QueueFacts DEF Queues
  <2> QED BY <2>1, <2>2
<1>8. Queues' = AllQueues(cache', packetQueue')
  BY DEF Queues
<1>9. issued' \in Nat /\ mem' = mem
  BY DEF IInv
<1> QED BY <1>1, <1>2, <1>5, <1>6, <1>7, <1>8, <1>9 DEF IInv

(* Both ways an answer arrives.                                            *)
Received(cs, o, a, r, temp) ==
    /\ Receives(cs, o, a, r, temp)
    /\ outstandingSnoop' = IF o = 0 THEN outstandingSnoop ELSE outstandingSnoop \ {r}
    /\ UNCHANGED <<mem, issued>>

LEMMA MemReceived ==
    ASSUME IInv, NEW temp \in BOOLEAN, RecvMemResp(temp)
    PROVE  \E cs, o, a, r : Received(cs, o, a, r, temp)
<1> DEFINE a == Head(packetQueue)
           r == a.to
<1>1. Queues[0] = packetQueue /\ cache \in [Caches -> CacheRecords]
  BY QueueFacts DEF Queues, IInv, Protocol, StateOK
<1>2. First(0, a, r)
  BY <1>1, PortFacts DEF RecvMemResp, First
<1>3. Routed(a)
  BY <1>2, FirstAnswer DEF FirstFacts, Routed
<1>4. /\ recvTimingResp(cache, a, temp, Routed(a)) /\ packetQueue' = Tail(packetQueue)
      /\ UNCHANGED <<mem, outstandingSnoop, issued>>
  BY DEF RecvMemResp
<1>5. recvTimingResp(cache, a, temp, TRUE)
  BY <1>3, <1>4 DEF recvTimingResp
<1> HIDE DEF a, r
<1>6. Receives(cache, 0, a, r, temp)
  BY <1>1, <1>2, <1>4, <1>5, PortFacts DEF Receives
<1>7. Received(cache, 0, a, r, temp)
  BY <1>4, <1>6 DEF Received
<1> QED BY <1>7

LEMMA SnoopReceived ==
    ASSUME IInv, NEW o \in Caches, NEW temp \in BOOLEAN, RecvSnoopResp(o, temp)
    PROVE  \E cs, p, a, r : Received(cs, p, a, r, temp)
<1> DEFINE a == Head(cache[o].snoopRespQueue)
           r == a.to
           cs == [cache EXCEPT ![o].snoopRespQueue = Tail(@)]
           routed == /\ Routed(a) /\ a.to # o
                     /\ a.to \in outstandingSnoop /\ a.memInhibit
                     /\ o \in snoopFilter.holder
<1>1. /\ Queues[o] = cache[o].snoopRespQueue /\ cache \in [Caches -> CacheRecords]
      /\ Queues[0] = packetQueue
  BY CacheFacts
<1>2. First(o, a, r) /\ o # 0
  BY <1>1, PortFacts DEF RecvSnoopResp, First
<1>3. routed
  BY <1>2, FirstAnswer DEF FirstFacts, Routed
<1>4. /\ recvTimingResp(cs, a, temp, routed) /\ packetQueue' = packetQueue
      /\ outstandingSnoop' = outstandingSnoop \ {r} /\ UNCHANGED <<mem, issued>>
      /\ cache[o].snoopRespQueue # <<>>
  BY DEF RecvSnoopResp
<1>5. recvTimingResp(cs, a, temp, TRUE)
  <2> HIDE DEF cs, a, r
  <2>1. routed = TRUE
    BY <1>3
  <2> HIDE DEF routed
  <2> QED BY <1>4, <2>1
<1>6. /\ cs \in [Caches -> CacheRecords] /\ cs[o].snoopRespQueue = Tail(Queues[o])
      /\ \A d \in Caches :
            /\ cs[d].status = cache[d].status /\ cs[d].data = cache[d].data
            /\ cs[d].mshr = cache[d].mshr /\ cs[d].writeback = cache[d].writeback
            /\ d # o => cs[d] = cache[d]
  <2>1. cache[o] \in CacheRecords /\ Tail(cache[o].snoopRespQueue) \in Seq(Responses)
    <3>1. cache[o] \in CacheRecords /\ cache[o].snoopRespQueue \in Seq(Responses)
          /\ cache[o].snoopRespQueue # <<>>
      BY <1>1, <1>4, CacheFields
    <3> QED BY ONLY <3>1
  <2> DEFINE t == Tail(cache[o].snoopRespQueue)
             c2 == [cache[o] EXCEPT !.snoopRespQueue = t]
  <2>2. cs = [cache EXCEPT ![o] = c2]
    BY <1>1 DEF CacheRecords
  <2> HIDE DEF t, cs
  <2>3. /\ c2 \in CacheRecords /\ c2.snoopRespQueue = t /\ c2.status = cache[o].status
        /\ c2.data = cache[o].data /\ c2.mshr = cache[o].mshr
        /\ c2.writeback = cache[o].writeback
    BY <2>1 DEF CacheRecords, t
  <2> HIDE DEF c2
  <2>4. cs \in [Caches -> CacheRecords] /\ cs[o] = c2 /\ \A d \in Caches \ {o} : cs[d] = cache[d]
    BY <1>1, <2>2, <2>3
  <2> QED BY <1>1, <2>3, <2>4 DEF t
<1> HIDE DEF a, r, cs
<1>7. Receives(cs, o, a, r, temp)
  BY <1>1, <1>2, <1>4, <1>5, <1>6, PortFacts DEF Receives
<1>8. Received(cs, o, a, r, temp)
  BY <1>2, <1>4, <1>7 DEF Received
<1> QED BY <1>8

LEMMA ReceivedInv ==
    ASSUME IInv, NEW cs, NEW o, NEW a, NEW r, NEW temp, Received(cs, o, a, r, temp)
    PROVE  IInv'
BY RecvInv DEF Received

-----------------------------------------------------------------------------
(* The theorems.                                                           *)

LEMMA StepInv ==
    ASSUME IInv, Next
    PROVE  IInv'
<1>1. ASSUME NEW r \in Caches,
             \/ Load(r) \/ Store(r)
             \/ \E cmd \in {"ReadReq", "WriteReq"} : Miss(r, cmd)
             \/ SendMiss(r) \/ MissRefused(r) \/ SendWriteback(r) \/ Evict(r)
      PROVE  IInv'
  BY <1>1, LoadInv, StoreInv, MissInv, SendMissInv, MissRefusedInv, WritebackInv, EvictInv
<1>2. ASSUME NEW temp \in BOOLEAN,
             RecvMemResp(temp) \/ \E o \in Caches : RecvSnoopResp(o, temp)
      PROVE  IInv'
  <2>1. PICK cs, o, a, r : Received(cs, o, a, r, temp)
    BY <1>2, MemReceived, SnoopReceived
  <2> QED BY <2>1, ReceivedInv
<1> QED BY <1>1, <1>2 DEF Next

(* The inductive invariant: the caches, the answers on their way, the      *)
(* answers promised, the snoop filter and the crossbar agree with each     *)
(* other in every state of the system.                                     *)
THEOREM Protocols == Spec => []IInv
<1>1. Init => IInv
  BY InitInv
<1>2. IInv /\ [Next]_vars => IInv'
  <2> SUFFICES ASSUME IInv, [Next]_vars PROVE IInv'
    OBVIOUS
  <2>1. CASE Next
    BY <2>1, StepInv
  <2>2. CASE UNCHANGED vars
    <3>1. UNCHANGED <<cache, mem, packetQueue, routeTo, outstandingSnoop, snoopFilter,
                      issued, latest, stale, failed>>
      BY <2>2 DEF vars
    <3>2. AllQueues(cache', packetQueue') = AllQueues(cache, packetQueue)
      BY <3>1
    <3> QED BY <3>1, <3>2 DEF IInv
  <2> QED BY <2>1, <2>2
<1> QED BY <1>1, <1>2, PTL DEF Spec

LEMMA InvCoherence ==
    ASSUME IInv
    PROVE  Coherence
<1>1. StateOK(cache, Queues) /\ WriteAlone(cache) /\ Current(cache, latest) /\ ~stale
  BY DEF IInv, Queues, Protocol
<1>2. ASSUME NEW r \in Caches, isReadable(cache[r]) PROVE cache[r].data = latest
  <2>1. isValid(cache[r]) /\ ~Busy(cache[r])
    BY <1>1, <1>2, Kinds
  <2> QED BY <1>1, <2>1 DEF Current
<1>3. ASSUME NEW r \in Caches, isWritable(cache[r]), NEW d \in Caches \ {r}
      PROVE  ~isReadable(cache[d]) /\ ~isWritable(cache[d])
  <2>1. ~isValid(cache[d])
    BY <1>1, <1>3 DEF WriteAlone
  <2> QED BY <1>1, <2>1, Kinds
<1> QED BY <1>1, <1>2, <1>3 DEF Coherence

(* Coherence, for any number of caches, of targets per MSHR and of stores: *)
(* however snoops, fills and deferred snoops (recvTimingSnoopReq,          *)
(* recvTimingResp) interleave, a readable copy has absorbed every store,   *)
(* a writable one is alone, and no load returns a value older than its     *)
(* issue.                                                                  *)
THEOREM Coherent == Spec => []Coherence
<1>1. IInv => Coherence
  BY InvCoherence
<1> QED BY <1>1, Protocols, PTL

LEMMA InvAssertions ==
    ASSUME IInv
    PROVE  AssertionsHold
<1>1. StateOK(cache, Queues) /\ ~failed
  BY DEF IInv, Queues, Protocol
<1>2. ASSUME NEW r \in Caches, isValid(cache[r]), HasMSHR(cache[r])
      PROVE  ~isWritable(cache[r]) /\ cache[r].mshr.targets.needsExclusive
  <2>1. ~isWritable(cache[r])
    BY <1>1, <1>2, Kinds
  <2> QED BY <1>1, <1>2, <2>1 DEF StateOK, CacheOK
<1> QED BY <1>1, <1>2 DEF AssertionsHold

(* No assert or panic_if of the caches, the crossbar and the snoop filter  *)
(* that the model keeps (failed) can fail, and a block that waits for its  *)
(* upgrade would be a valid victim for allocateBlock.                      *)
THEOREM NoAssertFails == Spec => []AssertionsHold
<1>1. IInv => AssertionsHold
  BY InvAssertions
<1> QED BY <1>1, Protocols, PTL

LEMMA InvTransparent ==
    ASSUME IInv
    PROVE  FilterIsTransparent
<1> SUFFICES ASSUME NEW r \in Caches, MissReady(r)
             PROVE  Snooped(r) = forwardTiming(BusPacket(r), Caches \ {r})
  BY DEF FilterIsTransparent
<1>1. PICK cmd : Sends(r, cmd, Snooped(r))
  BY MissSends
<1>2. /\ cmd \in SnoopCmds /\ BusPacket(r) = Packet(r, cmd)
      /\ Interested(r) \in SUBSET Caches /\ r \notin Interested(r)
      /\ \A d \in Caches \ {r} : d \notin Interested(r) => Idle(cache[d])
      /\ CachesOK /\ \A p, q \in Caches : Supplies(cache[p]) /\ Supplies(cache[q]) => p = q
  BY <1>1 DEF Sends
<1>3. forwardTiming(Packet(r, cmd), Interested(r))
        = forwardTiming(Packet(r, cmd), Caches \ {r})
  BY <1>2, SnoopSame
<1> QED BY <1>2, <1>3 DEF Snooped

(* The snoop filter makes no difference: the snoops that lookupRequest     *)
(* selects for a request change the caches and the packet as the snoops of *)
(* all the other caches would, although it is told of no clean eviction    *)
(* and forgets the sharers when an exclusive answer passes.                *)
THEOREM Transparent == Spec => []FilterIsTransparent
<1>1. IInv => FilterIsTransparent
  BY InvTransparent
<1> QED BY <1>1, Protocols, PTL

(* The least number of a set.                                              *)
LEMMA Least ==
    ASSUME NEW S, S \subseteq Nat, S # {}
    PROVE  \E x \in S : \A y \in S : ~(y < x)
<1> DEFINE R == OpToRel(<, Nat)
<1>1. IsWellFoundedOn(R, Nat)
  BY NatLessThanWellFounded
<1>2. \A x, y \in Nat : y < x => <<y, x>> \in R
  BY DEF OpToRel
<1> HIDE DEF R
<1>3. PICK x \in S : \A y \in S : ~(<<y, x>> \in R)
  BY <1>1, WFMin
<1> QED BY <1>2, <1>3

(* While a request is in service an answer is on its way: the first claim  *)
(* of the chain is promised nothing.                                       *)
LEMMA SomeAnswer ==
    ASSUME NEW cs, NEW qs, NEW mm, NEW lat, Protocol(cs, qs, mm, lat),
           NEW r \in Caches, Busy(cs[r])
    PROVE  \E p \in Caches : Real(qs, p)
<1>1. StateOK(cs, qs) /\ Owed(cs, qs) /\ Expected(cs, qs) /\ Chained(cs, qs)
  BY DEF Protocol
<1> SUFFICES ASSUME ~Real(qs, r) PROVE \E p \in Caches : Real(qs, p)
  OBVIOUS
<1>2. PICK n \in Nat : \E f \in [Caches -> 0 .. n] : Chain(cs, qs, f)
  BY <1>1 DEF Chained
<1>3. PICK rank \in [Caches -> 0 .. n] : Chain(cs, qs, rank)
  BY <1>2
<1> DEFINE S == {rank[p] : p \in {d \in Caches : Claiming(cs[d])}}
<1>4. S \subseteq Nat
  BY <1>3
<1>5. S # {}
  <2>1. PICK p \in Caches : Promised(cs, p, r)
    BY <1>1 DEF Expected
  <2> QED BY <2>1 DEF Promised
<1> HIDE DEF S
<1>6. PICK x \in S : \A y \in S : ~(y < x)
  BY <1>4, <1>5, Least
<1>7. PICK p \in Caches : Claiming(cs[p]) /\ x = rank[p]
  BY DEF S
<1>8. \A q \in Caches : Claiming(cs[q]) => ~(rank[q] < rank[p])
  BY <1>6, <1>7 DEF S
<1>9. ASSUME NEW q \in Caches, Promised(cs, q, p) PROVE FALSE
  <2>1. Claiming(cs[q]) /\ q # p
    BY <1>1, <1>9, Debts DEF Promised
  <2>2. rank[q] < rank[p]
    BY <1>3, <1>7, <1>9, <2>1 DEF Chain, Linked
  <2> QED BY <1>8, <2>1, <2>2
<1>10. Busy(cs[p])
  BY <1>7 DEF Claiming
<1> QED BY <1>1, <1>9, <1>10 DEF Expected

(* The number of answers on their way to a cache, and promised to it.      *)
LEMMA AnswerCount ==
    ASSUME IInv, NEW r \in Caches
    PROVE  /\ Real(Queues, r) => Answers(r) = 1
           /\ ~Real(Queues, r) => Answers(r) = 0
<1> DEFINE qs == Queues
           A == {i \in DOMAIN packetQueue : packetQueue[i].to = r}
           B == UNION {{<<c, i>> : i \in {k \in DOMAIN cache[c].snoopRespQueue :
                                                 cache[c].snoopRespQueue[k].to = r}}
                           : c \in Caches}
<1>1. Answers(r) = Cardinality(A) + Cardinality(B)
  BY DEF Answers
<1>2. qs[0] = packetQueue /\ \A d \in Caches : qs[d] = cache[d].snoopRespQueue
  BY CacheFacts
<1>3. \A o, p \in Ports : \A i \in DOMAIN qs[o], j \in DOMAIN qs[p] :
          qs[o][i].to = r /\ qs[p][j].to = r => o = p /\ i = j
  BY CacheFacts DEF Protocol, Routes
<1> HIDE DEF qs
<1>4. A = {i \in DOMAIN qs[0] : qs[0][i].to = r}
  BY <1>2
<1>5. B = UNION {{<<c, i>> : i \in {k \in DOMAIN qs[c] : qs[c][k].to = r}} : c \in Caches}
  BY <1>2
<1>6. \A x : x \in B <=> \E c \in Caches : \E i \in DOMAIN qs[c] : qs[c][i].to = r /\ x = <<c, i>>
  BY <1>5
<1> HIDE DEF A, B
<1>7. Cardinality({}) = 0 /\ \A x : Cardinality({x}) = 1
  BY FS_EmptySet, FS_Singleton
<1>8. ASSUME ~Real(qs, r) PROVE Answers(r) = 0
  <2>1. \A o \in Ports : \A i \in DOMAIN qs[o] : qs[o][i].to # r
    BY <1>8 DEF Real
  <2>2. A = {}
    BY <1>4, <2>1, PortFacts
  <2>3. B = {}
    BY <1>6, <2>1, PortFacts
  <2> QED BY <1>1, <1>7, <2>2, <2>3
<1>9. ASSUME Real(qs, r) PROVE Answers(r) = 1
  <2>1. PICK o \in Ports : \E i \in DOMAIN qs[o] : qs[o][i].to = r
    BY <1>9 DEF Real
  <2>2. PICK i \in DOMAIN qs[o] : qs[o][i].to = r
    BY <2>1
  <2>3. \A p \in Ports : \A j \in DOMAIN qs[p] : qs[p][j].to = r => p = o /\ j = i
    BY <1>3, <2>2
  <2>4. CASE o = 0
    <3>1. A = {i}
      BY <1>4, <2>2, <2>3, <2>4, PortFacts
    <3>2. B = {}
      BY <1>6, <2>3, <2>4, PortFacts
    <3> QED BY <1>1, <1>7, <3>1, <3>2
  <2>5. CASE o # 0
    <3>1. A = {}
      BY <1>4, <2>3, <2>5, PortFacts
    <3>2. o \in Caches
      BY <2>5, PortFacts
    <3>3. <<o, i>> \in B
      BY <1>6, <2>2, <3>2
    <3>4. \A x \in B : x = <<o, i>>
      BY <1>6, <2>3, PortFacts
    <3>5. B = {<<o, i>>}
      BY <3>3, <3>4
    <3>6. Cardinality(B) = 1
      BY <3>5, FS_Singleton
    <3>7. Cardinality(A) = 0
      BY <1>7, <3>1
    <3> QED BY <1>1, <3>6, <3>7
  <2> QED BY <2>4, <2>5
<1> QED BY <1>8, <1>9 DEF qs

LEMMA PromiseSet ==
    ASSUME IInv, NEW r \in Caches
    PROVE  Promises(r) = {p \in Caches : Promised(cache, p, r)}
<1> SUFFICES ASSUME NEW p \in Caches, Claiming(cache[p])
             PROVE  (\E t \in ToSet(cache[p].mshr.targets.list) :
                        t.source = "FromSnoop" /\ t.order = r) <=> Promised(cache, p, r)
  BY DEF Promises, Promised, Claiming, Busy
<1> DEFINE l == cache[p].mshr.targets.list
<1>1. CacheOK(cache[p])
  BY CacheFacts
<1>2. \A k \in DOMAIN l : IsLoad(l[k]) \/ IsStore(l[k]) \/ IsRead(l[k]) \/ IsClaim(l[k])
  BY <1>1 DEF CacheOK, RegOK, TargetsOK
<1>3. \A k \in DOMAIN l : l[k].source = "FromSnoop" <=> IsSnoop(l[k])
  BY <1>2 DEF IsLoad, IsStore, IsRead, IsClaim, IsSnoop
<1>4. (\E t \in ToSet(l) : t.source = "FromSnoop" /\ t.order = r)
        <=> \E k \in DOMAIN l : l[k].source = "FromSnoop" /\ l[k].order = r
  BY DEF ToSet
<1> QED BY <1>3, <1>4 DEF Promised

LEMMA InvOneAnswer ==
    ASSUME IInv
    PROVE  OneAnswer
<1>1. /\ Protocol(cache, Queues, mem, latest) /\ StateOK(cache, Queues)
      /\ Routes(cache, Queues, latest) /\ Owed(cache, Queues) /\ OwedOnce(cache)
      /\ Expected(cache, Queues)
  BY DEF IInv, Queues, Protocol
<1>2. \A x : Cardinality({}) = 0 /\ Cardinality({x}) = 1
  BY FS_EmptySet, FS_Singleton
<1>3. ASSUME NEW r \in Caches
      PROVE  Answers(r) + Cardinality(Promises(r)) = IF cache[r].mshr.inService THEN 1 ELSE 0
  <2>1. Promises(r) = {p \in Caches : Promised(cache, p, r)}
    BY PromiseSet
  <2>2. \A p \in Caches : Promised(cache, p, r) => ~Real(Queues, r) /\ Busy(cache[r])
    <3> SUFFICES ASSUME NEW p \in Caches, Promised(cache, p, r)
                 PROVE  ~Real(Queues, r) /\ Busy(cache[r])
      OBVIOUS
    <3>1. ~Real(Queues, r) /\ (Reading(cache[r]) \/ Claiming(cache[r]))
      BY <1>1, Debts
    <3> QED BY <3>1 DEF Reading, Claiming
  <2>3. CASE Real(Queues, r)
    <3>1. Busy(cache[r])
      BY <1>1, <2>3 DEF Real, Routes, AnswerOK
    <3>2. Promises(r) = {}
      BY <2>1, <2>2, <2>3
    <3>3. Answers(r) = 1
      BY <2>3, AnswerCount
    <3> QED BY <1>2, <3>1, <3>2, <3>3 DEF Busy
  <2>4. CASE ~Real(Queues, r) /\ Busy(cache[r])
    <3>1. PICK p \in Caches : Promised(cache, p, r)
      BY <1>1, <2>4 DEF Expected
    <3>2. Promises(r) = {p}
      BY <1>1, <2>1, <3>1 DEF OwedOnce
    <3>3. Answers(r) = 0
      BY <2>4, AnswerCount
    <3>4. Cardinality(Promises(r)) = 1
      BY <3>2, FS_Singleton
    <3> QED BY <2>4, <3>3, <3>4 DEF Busy
  <2>5. CASE ~Real(Queues, r) /\ ~Busy(cache[r])
    <3>1. Promises(r) = {}
      BY <2>1, <2>2, <2>5
    <3>2. Answers(r) = 0
      BY <2>5, AnswerCount
    <3> QED BY <1>2, <2>5, <3>1, <3>2 DEF Busy
  <2> QED BY <2>3, <2>4, <2>5
<1>4. ASSUME NEW r \in Caches, cache[r].mshr.inService
      PROVE  \E p \in Caches : Answers(p) > 0
  <2>1. PICK p \in Caches : Real(Queues, p)
    BY <1>1, <1>4, SomeAnswer DEF Busy
  <2>2. Answers(p) = 1
    BY <2>1, AnswerCount
  <2> QED BY <2>2
<1> QED BY <1>3, <1>4 DEF OneAnswer

(* A request in service has exactly one answer on its way or promised, of  *)
(* memory or of a cache (memInhibit), and the promises that caches make    *)
(* while they wait themselves (handleSnoop of the MSHR) are never          *)
(* circular: some answer is always on its way.                             *)
THEOREM ExactlyOneAnswer == Spec => []OneAnswer
<1>1. IInv => OneAnswer
  BY InvOneAnswer
<1> QED BY <1>1, Protocols, PTL


-----------------------------------------------------------------------------
(* Every store is performed once.  Count is the number of stores among the *)
(* first n targets of a list.                                              *)
Count(l, n) == Cardinality({k \in 1 .. n : IsStore(l[k])})
Size(l) == Count(l, Len(l))

LEMMA CountType ==
    ASSUME NEW l, NEW n \in Nat
    PROVE  IsFiniteSet({k \in 1 .. n : IsStore(l[k])}) /\ Count(l, n) \in Nat
<1> DEFINE S == {k \in 1 .. n : IsStore(l[k])}
<1>1. IsFiniteSet(1 .. n)
  BY FS_Interval
<1>2. S \in SUBSET (1 .. n)
  OBVIOUS
<1> HIDE DEF S
<1>3. IsFiniteSet(S)
  BY <1>1, <1>2, FS_Subset
<1>4. Cardinality(S) \in Nat
  BY <1>3, FS_CardinalityType
<1> QED BY <1>3, <1>4 DEF Count, S

LEMMA CountNone ==
    ASSUME NEW l
    PROVE  Count(l, 0) = 0
<1>1. {k \in 1 .. 0 : IsStore(l[k])} = {}
  OBVIOUS
<1> QED BY <1>1, FS_EmptySet DEF Count

LEMMA CountStep ==
    ASSUME NEW l, NEW n \in Nat
    PROVE  /\ IsStore(l[n + 1]) => Count(l, n + 1) = Count(l, n) + 1
           /\ ~IsStore(l[n + 1]) => Count(l, n + 1) = Count(l, n)
<1> DEFINE S == {k \in 1 .. n : IsStore(l[k])}
           T == {k \in 1 .. n + 1 : IsStore(l[k])}
<1>1. IsFiniteSet(S)
  BY CountType
<1>2. \A k \in 1 .. n + 1 : k \in 1 .. n \/ k = n + 1
  OBVIOUS
<1>3. \A k \in 1 .. n : k \in 1 .. n + 1
  OBVIOUS
<1>4. n + 1 \in 1 .. n + 1 /\ n + 1 \notin 1 .. n
  OBVIOUS
<1>5. ASSUME IsStore(l[n + 1]) PROVE Count(l, n + 1) = Count(l, n) + 1
  <2>1. T = S \cup {n + 1}
    BY <1>2, <1>3, <1>4, <1>5
  <2>2. n + 1 \notin S
    BY <1>4
  <2> HIDE DEF S, T
  <2>3. Cardinality(S \cup {n + 1}) = Cardinality(S) + 1
    BY <1>1, <2>2, FS_AddElement
  <2> QED BY <2>1, <2>3 DEF Count, S, T
<1>6. ASSUME ~IsStore(l[n + 1]) PROVE Count(l, n + 1) = Count(l, n)
  <2>1. T = S
    BY <1>2, <1>3, <1>4, <1>6
  <2> QED BY <2>1 DEF Count
<1> QED BY <1>5, <1>6

LEMMA CountSame ==
    ASSUME NEW l, NEW u, NEW n \in Nat, \A k \in 1 .. n : IsStore(l[k]) <=> IsStore(u[k])
    PROVE  Count(l, n) = Count(u, n)
<1>1. {k \in 1 .. n : IsStore(l[k])} = {k \in 1 .. n : IsStore(u[k])}
  OBVIOUS
<1> QED BY <1>1 DEF Count

LEMMA SizeType ==
    ASSUME NEW l \in Seq(Targets)
    PROVE  Len(l) \in Nat /\ DOMAIN l = 1 .. Len(l) /\ Size(l) \in Nat
<1>1. Len(l) \in Nat /\ DOMAIN l = 1 .. Len(l)
  OBVIOUS
<1> QED BY <1>1, CountType DEF Size

LEMMA SizeNone == Size(<<>>) = 0
<1>1. Len(<<>>) = 0
  OBVIOUS
<1> QED BY <1>1, CountNone DEF Size

(* One more target.                                                        *)
LEMMA SizeAppend ==
    ASSUME NEW l \in Seq(Targets), NEW t \in Targets, NEW u, u = Append(l, t)
    PROVE  /\ IsStore(t) => Size(u) = Size(l) + 1
           /\ ~IsStore(t) => Size(u) = Size(l)
<1>1. /\ Len(l) \in Nat /\ Len(u) = Len(l) + 1 /\ u[Len(l) + 1] = t
      /\ \A k \in 1 .. Len(l) : u[k] = l[k]
  OBVIOUS
<1>2. Count(u, Len(l)) = Count(l, Len(l))
  BY <1>1, CountSame
<1> QED BY <1>1, <1>2, CountStep DEF Size

LEMMA SizeConcat ==
    ASSUME NEW u \in Seq(Targets), NEW v \in Seq(Targets)
    PROVE  Size(u \o v) = Size(u) + Size(v)
<1> DEFINE w == u \o v
<1>1. /\ Len(u) \in Nat /\ Len(v) \in Nat /\ Len(w) = Len(u) + Len(v)
      /\ \A k \in 1 .. Len(u) : w[k] = u[k]
      /\ \A k \in 1 .. Len(v) : w[Len(u) + k] = v[k]
  OBVIOUS
<1> HIDE DEF w
<1> DEFINE S == {n \in Nat : n <= Len(v) => Count(w, Len(u) + n) = Size(u) + Count(v, n)}
<1>2. 0 \in S
  <2>1. Count(w, Len(u)) = Count(u, Len(u))
    BY <1>1, CountSame
  <2>2. Count(u, Len(u)) \in Nat
    BY <1>1, CountType
  <2> QED BY <1>1, <2>1, <2>2, CountNone DEF Size
<1>3. ASSUME NEW n \in Nat, n \in S PROVE n + 1 \in S
  <2> SUFFICES ASSUME n + 1 <= Len(v)
               PROVE  Count(w, Len(u) + (n + 1)) = Size(u) + Count(v, n + 1)
    OBVIOUS
  <2>1. n + 1 \in 1 .. Len(v) /\ Len(u) + n \in Nat /\ Len(u) + (n + 1) = (Len(u) + n) + 1
    BY <1>1
  <2>2. w[(Len(u) + n) + 1] = v[n + 1]
    BY <1>1, <2>1
  <2>3. Count(w, Len(u) + n) = Size(u) + Count(v, n)
    BY <1>1, <1>3
  <2>4. Count(v, n) \in Nat /\ Size(u) \in Nat
    BY CountType, SizeType
  <2>5. CASE IsStore(v[n + 1])
    <3>1. Count(v, n + 1) = Count(v, n) + 1
      BY <2>5, CountStep
    <3>2. Count(w, (Len(u) + n) + 1) = Count(w, Len(u) + n) + 1
      BY <2>1, <2>2, <2>5, CountStep
    <3> QED BY <2>1, <2>3, <2>4, <3>1, <3>2
  <2>6. CASE ~IsStore(v[n + 1])
    <3>1. Count(v, n + 1) = Count(v, n)
      BY <2>6, CountStep
    <3>2. Count(w, (Len(u) + n) + 1) = Count(w, Len(u) + n)
      BY <2>1, <2>2, <2>6, CountStep
    <3> QED BY <2>1, <2>3, <2>4, <3>1, <3>2
  <2> QED BY <2>5, <2>6
<1> HIDE DEF S
<1>4. Nat \subseteq S
  BY <1>2, <1>3, Induction
<1>5. Count(w, Len(u) + Len(v)) = Size(u) + Count(v, Len(v))
  BY <1>1, <1>4 DEF S
<1> QED BY <1>1, <1>5 DEF Size, w

(* The stores that wait in the register of a cache.                        *)
Waiting(c) == Size(c.mshr.targets.list) + Size(c.mshr.deferredTargets.list)

LEMMA WaitingType ==
    ASSUME NEW c \in CacheRecords
    PROVE  /\ c.mshr.targets.list \in Seq(Targets) /\ c.mshr.deferredTargets.list \in Seq(Targets)
           /\ Size(c.mshr.targets.list) \in Nat /\ Size(c.mshr.deferredTargets.list) \in Nat
           /\ Waiting(c) \in Nat
<1>1. c.mshr.targets.list \in Seq(Targets) /\ c.mshr.deferredTargets.list \in Seq(Targets)
  BY CacheFields, RegFields
<1>2. Size(c.mshr.targets.list) \in Nat /\ Size(c.mshr.deferredTargets.list) \in Nat
  BY <1>1, SizeType
<1> QED BY <1>1, <1>2 DEF Waiting

(* The stores that wait in all the caches, as a running sum.               *)
Total(cs, n) ==
    \E sum \in [Ports -> Int] :
        /\ sum[0] = 0 /\ sum[NumCaches] = n
        /\ \A d \in Caches : sum[d] = sum[d - 1] + Waiting(cs[d])

LEMMA TotalOne ==
    ASSUME NEW cs, NEW cs2, NEW n \in Int, Total(cs, n), NEW r \in Caches, NEW e \in Int,
           \A d \in Caches : Waiting(cs[d]) \in Nat,
           \A d \in Caches \ {r} : Waiting(cs2[d]) = Waiting(cs[d]),
           Waiting(cs2[r]) = Waiting(cs[r]) + e
    PROVE  Total(cs2, n + e)
<1>1. PICK sum \in [Ports -> Int] :
          /\ sum[0] = 0 /\ sum[NumCaches] = n
          /\ \A d \in Caches : sum[d] = sum[d - 1] + Waiting(cs[d])
  BY DEF Total
<1>2. /\ NumCaches \in Nat /\ r \in Nat /\ r <= NumCaches /\ 0 < r
      /\ 0 \in Ports /\ NumCaches \in Ports
      /\ \A d \in Caches : d \in Ports /\ d - 1 \in Ports /\ d \in Nat /\ d - 1 \in Int
  BY CacheAssumption DEF Ports, Caches
<1> DEFINE new == [d \in Ports |-> IF d < r THEN sum[d] ELSE sum[d] + e]
<1>3. new \in [Ports -> Int]
  BY <1>1
<1>4. new[0] = 0 /\ new[NumCaches] = n + e
  BY <1>1, <1>2
<1>5. ASSUME NEW d \in Caches PROVE new[d] = new[d - 1] + Waiting(cs2[d])
  <2>1. /\ new[d] = IF d < r THEN sum[d] ELSE sum[d] + e
        /\ new[d - 1] = IF d - 1 < r THEN sum[d - 1] ELSE sum[d - 1] + e
    BY <1>2
  <2>2. sum[d] = sum[d - 1] + Waiting(cs[d]) /\ sum[d - 1] \in Int /\ Waiting(cs[d]) \in Nat
    BY <1>1, <1>2
  <2>3. d \in Nat /\ r \in Nat
    BY <1>2
  <2> HIDE DEF new
  <2>4. CASE d = r
    <3>1. new[d] = sum[d] + e /\ new[d - 1] = sum[d - 1] /\ Waiting(cs2[d]) = Waiting(cs[d]) + e
      BY <2>1, <2>3, <2>4
    <3> QED BY <2>2, <3>1
  <2>5. CASE d # r
    <3>1. Waiting(cs2[d]) = Waiting(cs[d])
      BY <2>5
    <3>2. d < r <=> d - 1 < r
      BY <2>3, <2>5
    <3> QED BY <2>1, <2>2, <3>1, <3>2
  <2> QED BY <2>4, <2>5
<1> HIDE DEF new
<1> QED BY <1>3, <1>4, <1>5 DEF Total

LEMMA TotalSame ==
    ASSUME NEW cs, NEW cs2, NEW n, Total(cs, n),
           \A d \in Caches : Waiting(cs2[d]) = Waiting(cs[d])
    PROVE  Total(cs2, n)
BY DEF Total

LEMMA TotalType ==
    ASSUME NEW cs, NEW n, Total(cs, n), \A d \in Caches : Waiting(cs[d]) \in Nat
    PROVE  n \in Nat
<1>1. PICK sum \in [Ports -> Int] :
          /\ sum[0] = 0 /\ sum[NumCaches] = n
          /\ \A d \in Caches : sum[d] = sum[d - 1] + Waiting(cs[d])
  BY DEF Total
<1> DEFINE S == {d \in Nat : d <= NumCaches => sum[d] \in Nat}
<1>2. 0 \in S
  BY <1>1
<1>3. ASSUME NEW d \in Nat, d \in S PROVE d + 1 \in S
  <2> SUFFICES ASSUME d + 1 <= NumCaches PROVE sum[d + 1] \in Nat
    OBVIOUS
  <2>1. d + 1 \in Caches /\ (d + 1) - 1 = d /\ d <= NumCaches
    BY CacheAssumption DEF Caches
  <2>2. sum[d + 1] = sum[d] + Waiting(cs[d + 1]) /\ sum[d] \in Nat /\ Waiting(cs[d + 1]) \in Nat
    BY <1>1, <1>3, <2>1
  <2> QED BY <2>2
<1> HIDE DEF S
<1>4. Nat \subseteq S
  BY <1>2, <1>3, Induction
<1> QED BY <1>1, <1>4, CacheAssumption DEF S

(* The loop over the targets performs each store among them once.          *)
LEMMA ServeLatest ==
    ASSUME NEW f \in Fills, NEW t, IsLoad(t) \/ IsStore(t) \/ IsSnoop(t), NEW resp, NEW inval,
           NEW g, g = ServeTarget(f, t, resp, inval)
    PROVE  g.latest = IF IsStore(t) THEN f.latest + 1 ELSE f.latest
<1>0. f \in [cache : CacheRecords, latest : Nat, stale : BOOLEAN, ok : BOOLEAN]
  BY DEF Fills
<1>1. CASE IsLoad(t)
  <2> DEFINE b1 == f.stale \/ f.cache.data < t.readyTime
             b2 == f.ok /\ isValid(f.cache)
  <2>1. t.source # "FromSnoop" /\ ~NeedsExclusive(t.cmd) /\ ~IsStore(t)
    BY <1>1 DEF IsLoad, IsStore, NeedsExclusive
  <2>2. g = [f EXCEPT !.stale = b1, !.ok = b2]
    BY <2>1 DEF ServeTarget
  <2> HIDE DEF b1, b2
  <2>3. g.latest = f.latest
    BY ONLY <1>0, <2>2
  <2> QED BY <2>1, <2>3
<1>2. CASE IsStore(t)
  <2> DEFINE b2 == f.ok /\ isValid(f.cache) /\ isWritable(f.cache)
  <2>1. t.source # "FromSnoop" /\ NeedsExclusive(t.cmd)
    BY <1>2 DEF IsStore, NeedsExclusive
  <2>2. g = [f EXCEPT !.cache.data = @ + 1, !.cache.status = @ \cup {"Dirty"},
                      !.latest = @ + 1, !.ok = b2]
    BY <2>1 DEF ServeTarget
  <2> HIDE DEF b2
  <2>3. g.latest = f.latest + 1
    BY ONLY <1>0, <2>2 DEF CacheRecords
  <2> QED BY <1>2, <2>3
<1>3. CASE IsSnoop(t)
  <2> DEFINE s == handleSnoop(f.cache, Packet(t.order, t.cmd), inval)
             b2 == f.ok /\ s.ok /\ (resp.cmd = "ReadRespWithInvalidate" => inval)
             e == s.cache
  <2>1. t.source = "FromSnoop" /\ ~IsStore(t)
    BY <1>3, TargetKinds
  <2>2. g = [f EXCEPT !.cache = e, !.ok = b2]
    BY <2>1 DEF ServeTarget
  <2> HIDE DEF b2, e
  <2>3. g.latest = f.latest
    BY ONLY <1>0, <2>2
  <2> QED BY <2>1, <2>3
<1> QED BY <1>1, <1>2, <1>3

LEMMA ServeCount ==
    ASSUME NEW c, NEW l, NEW lat, NEW resp, NEW inval, ServeStart(c, l, lat, resp, inval),
           NEW st \in BOOLEAN, ~st,
           NEW g, g = ServeTargets([cache |-> c, latest |-> lat, stale |-> st, ok |-> TRUE],
                                   l, resp, inval)
    PROVE  g.latest = lat + Size(l)
<1> DEFINE fl == [cache |-> c, latest |-> lat, stale |-> st, ok |-> TRUE]
<1>1. /\ c \in CacheRecords /\ l \in Seq(Targets) /\ lat \in Nat
      /\ Len(l) \in Nat /\ DOMAIN l = 1 .. Len(l)
      /\ \A k \in 1 .. Len(l) : IsLoad(l[k]) \/ IsStore(l[k]) \/ IsSnoop(l[k])
  BY DEF ServeStart, IsSnoop
<1>2. PICK f : /\ f[0] = fl
               /\ \A i \in 1 .. Len(l) : f[i] = ServeTarget(f[i - 1], l[i], resp, inval)
               /\ ServeTargets(fl, l, resp, inval) = f[Len(l)]
  <2>1. PICK f : ServeHistory(f, fl, l, resp, inval)
    BY <1>1, ServeRun
  <2> QED BY <2>1 DEF ServeHistory
<1> DEFINE S == {n \in Nat : n <= Len(l) => /\ Served(f[n], n, c, l, lat, inval)
                                            /\ f[n].latest = lat + Count(l, n)}
<1>3. 0 \in S
  <2>1. fl = f[0] /\ fl.latest = lat
    BY <1>2
  <2>2. fl.latest = lat + Count(l, 0)
    BY <1>1, <2>1, CountNone
  <2>3. Served(fl, 0, c, l, lat, inval)
    BY ServedNone
  <2> QED BY <2>1, <2>2, <2>3
<1>4. ASSUME NEW n \in Nat, n \in S PROVE n + 1 \in S
  <2> SUFFICES ASSUME n + 1 <= Len(l)
               PROVE  /\ Served(f[n + 1], n + 1, c, l, lat, inval)
                      /\ f[n + 1].latest = lat + Count(l, n + 1)
    OBVIOUS
  <2>1. n + 1 - 1 = n /\ n + 1 \in 1 .. Len(l) /\ n <= Len(l)
    BY <1>1
  <2>2. Served(f[n], n, c, l, lat, inval) /\ f[n].latest = lat + Count(l, n)
    BY <1>4, <2>1
  <2>3. f[n + 1] = ServeTarget(f[n], l[n + 1], resp, inval)
    BY <1>2, <2>1
  <2>4. Served(f[n + 1], n + 1, c, l, lat, inval)
    BY <1>1, <2>1, <2>2, <2>3, ServeStep
  <2>5. f[n + 1].latest = IF IsStore(l[n + 1]) THEN f[n].latest + 1 ELSE f[n].latest
    <3>1. f[n] \in Fills
      BY <2>2 DEF Served
    <3> QED BY <1>1, <2>1, <2>3, <3>1, ServeLatest
  <2>6. Count(l, n) \in Nat /\ lat \in Nat
    BY <1>1, CountType
  <2>7. Count(l, n + 1) = IF IsStore(l[n + 1]) THEN Count(l, n) + 1 ELSE Count(l, n)
    BY CountStep
  <2>8. f[n + 1].latest = lat + Count(l, n + 1)
    BY ONLY <2>2, <2>5, <2>6, <2>7
  <2> QED BY <2>4, <2>8
<1> HIDE DEF S, fl
<1>5. Nat \subseteq S
  BY <1>3, <1>4, Induction
<1>6. f[Len(l)].latest = lat + Count(l, Len(l))
  BY <1>1, <1>5 DEF S
<1> QED BY <1>2, <1>6 DEF fl, Size

(* A fill performs the stores it takes from the register.                  *)
LEMMA FillCount ==
    ASSUME NEW c, NEW o, NEW a, NEW lat, FillStart(c, o, a, lat), NEW st \in BOOLEAN, ~st,
           NEW g, g = Fill(c, a, lat, st), NEW temp \in BOOLEAN,
           NEW c2, c2 = FillCache(g, c, a, temp)
    PROVE  g.latest + Waiting(c2) = lat + Waiting(c)
<1>1. PICK m : m = MSHR_handleFill(c.mshr, a.shared)
  OBVIOUS
<1>2. PICK l : l = m.targets.list
  OBVIOUS
<1>3. PICK fc : fc = handleFill(c, a)
  OBVIOUS
<1>4. FillRegOK(m, l, c, a, lat)
  BY <1>1, <1>2, FillReg
<1>5. ServeStart(fc, l, lat, a, m.postInvalidate)
  BY <1>1, <1>2, <1>3, FillServes
<1>6. g = ServeTargets([cache |-> fc, latest |-> lat, stale |-> st, ok |-> TRUE],
                       l, a, m.postInvalidate)
  BY <1>1, <1>2, <1>3 DEF Fill
<1>7. g.latest = lat + Size(l)
  BY <1>5, <1>6, ServeCount
<1>8. c2.mshr = Resumes(m)
  <2>1. g \in Fills
    BY FillServed
  <2>2. PICK e : e = g.cache
    OBVIOUS
  <2>3. e \in CacheRecords
    BY <2>1, <2>2 DEF Fills
  <2>4. PICK s : s = FillSettled(g, c, a)
    OBVIOUS
  <2>5. s.mshr = Resumes(m) /\ DOMAIN s = {"status", "data", "mshr", "writeback", "snoopRespQueue"}
    BY <1>1, <2>2, <2>3, <2>4 DEF FillSettled, Settle, Resumes, CacheRecords
  <2>6. c2 = IF temp THEN [invalidate(s) EXCEPT !.writeback =
                             IF temp /\ isDirty(s) THEN Writeback(s) ELSE @]
             ELSE s
    BY <2>4 DEF FillCache
  <2> QED BY <2>5, <2>6 DEF invalidate
<1>9. /\ c \in CacheRecords /\ c.mshr \in Regs /\ RegOK(c.mshr) /\ c.mshr.inService /\ lat \in Nat
      /\ c.mshr.targets.list \in Seq(Targets) /\ c.mshr.deferredTargets.list \in Seq(Targets)
      /\ Size(c.mshr.targets.list) \in Nat /\ Size(c.mshr.deferredTargets.list) \in Nat
  <2>1. c \in CacheRecords /\ RegOK(c.mshr) /\ c.mshr.inService /\ lat \in Nat
    BY DEF FillStart, CacheOK, AnswerOK, Busy
  <2> QED BY <2>1, CacheFields, WaitingType
<1>10. Size(l) \in Nat
  BY <1>5, SizeType DEF ServeStart
<1>11. CASE FillTakesDeferred(c.mshr, a.shared)
  <2>1. l = c.mshr.targets.list \o c.mshr.deferredTargets.list
    <3> DEFINE n == c.mshr
               w == n.targets.list \o n.deferredTargets.list
    <3>1. /\ n \in Registers({"none", "block"}) /\ w \in Seq(Targets)
          /\ n.targets \in TargetLists
          /\ m = [n EXCEPT !.targets.list = w, !.targets.needsExclusive = TRUE,
                           !.deferredTargets = EmptyTargets]
      BY <1>1, <1>9, <1>11, RegFields DEF MSHR_handleFill, Regs
    <3> HIDE DEF w, n
    <3>2. m.targets.list = w
      BY ONLY <3>1, FreeFacts DEF Registers, TargetLists
    <3> QED BY <1>2, <3>2 DEF n, w
  <2>2. m.deferredTargets.list = <<>>
    BY <1>4, <1>11 DEF FillRegOK
  <2>3. c2.mshr.targets.list = <<>> /\ c2.mshr.deferredTargets.list = <<>>
    BY <1>8, <2>2, FreeReg DEF Resumes
  <2>4. Waiting(c2) = 0
    BY <2>3, SizeNone DEF Waiting
  <2>5. Size(l) = Size(c.mshr.targets.list) + Size(c.mshr.deferredTargets.list)
    BY <1>9, <2>1, SizeConcat
  <2> QED BY <1>7, <1>9, <2>4, <2>5 DEF Waiting
<1>12. CASE ~FillTakesDeferred(c.mshr, a.shared)
  <2>1. m = c.mshr
    BY <1>4, <1>12 DEF FillRegOK
  <2>2. PICK m2 : m2 = Resumes(m)
    OBVIOUS
  <2>3. /\ m2.deferredTargets.list = <<>>
        /\ m2.targets.list = m.deferredTargets.list
    BY <1>9, <2>1, <2>2, RegResumes
  <2>4. Waiting(c2) = Size(c.mshr.deferredTargets.list)
    BY <1>8, <1>9, <2>1, <2>2, <2>3, SizeNone DEF Waiting
  <2>5. Size(l) = Size(c.mshr.targets.list)
    BY <1>2, <2>1
  <2> QED BY <1>7, <1>9, <2>4, <2>5 DEF Waiting
<1> QED BY <1>11, <1>12

-----------------------------------------------------------------------------
(* The stores issued are those performed and those that wait.              *)
Counted == Total(cache, issued - latest) /\ issued <= MaxStores

LEMMA CacheWaits ==
    ASSUME IInv
    PROVE  /\ issued \in Nat /\ latest \in Nat /\ issued - latest \in Int
           /\ cache \in [Caches -> CacheRecords]
           /\ \A d \in Caches : Waiting(cache[d]) \in Nat
<1>1. issued \in Nat /\ latest \in Nat /\ cache \in [Caches -> CacheRecords]
  BY DEF IInv, Protocol, StateOK
<1>2. \A d \in Caches : cache[d] \in CacheRecords
  BY <1>1
<1> QED BY <1>1, <1>2, WaitingType

(* A step that changes no register.                                        *)
LEMMA SameCount ==
    ASSUME IInv, Counted, \A d \in Caches : Waiting(cache'[d]) = Waiting(cache[d]),
           issued' - latest' = issued - latest, issued' <= MaxStores
    PROVE  Counted'
<1>1. Total(cache', issued - latest)
  BY TotalSame DEF Counted
<1> QED BY <1>1 DEF Counted

(* A step that changes the stores that wait in one register.               *)
LEMMA OneCount ==
    ASSUME IInv, Counted, NEW r \in Caches, NEW e \in Int,
           \A d \in Caches \ {r} : cache'[d].mshr = cache[d].mshr,
           Waiting(cache'[r]) = Waiting(cache[r]) + e,
           issued' - latest' = (issued - latest) + e, issued' <= MaxStores
    PROVE  Counted'
<1>1. issued - latest \in Int /\ \A d \in Caches : Waiting(cache[d]) \in Nat
  BY CacheWaits
<1>2. \A d \in Caches \ {r} : Waiting(cache'[d]) = Waiting(cache[d])
  BY DEF Waiting
<1>3. Total(cache, issued - latest)
  BY DEF Counted
<1>4. Total(cache', (issued - latest) + e)
  BY ONLY <1>1, <1>2, <1>3, TotalOne, r \in Caches, e \in Int,
          Waiting(cache'[r]) = Waiting(cache[r]) + e
<1> QED BY <1>4 DEF Counted

(* A request that joins a register waits in exactly one of its lists.      *)
LEMMA JoinCount ==
    ASSUME NEW m \in Regs, NEW cmd \in {"ReadReq", "WriteReq"}, NEW when \in Nat,
           NEW m2, m2 = MSHR_allocateTarget(m, cmd, when, 0)
    PROVE  Size(m2.targets.list) + Size(m2.deferredTargets.list)
             = Size(m.targets.list) + Size(m.deferredTargets.list)
                 + (IF cmd = "WriteReq" THEN 1 ELSE 0)
<1> DEFINE t == Target(cmd, "FromCPU", when, 0)
           d == m.deferredTargets
           defer == /\ m.inService
                    /\ \/ d.list # <<>> \/ m.postInvalidate
                       \/ /\ NeedsExclusive(cmd)
                          /\ (~m.pendingDirty \/ m.postDowngrade \/ m.isForward)
<1>1. t \in Targets /\ (IsStore(t) <=> cmd = "WriteReq") /\ t.source = "FromCPU" /\ t.cmd = cmd
  BY NewTargets
<1>2. replaceUpgrade(t) = t
  BY <1>1 DEF replaceUpgrade
<1>3. m2 = IF defer THEN [m EXCEPT !.deferredTargets = TargetList_add(d, t)]
           ELSE [m EXCEPT !.targets = TargetList_add(m.targets, t)]
  BY <1>2 DEF MSHR_allocateTarget
<1>4. m.targets.list \in Seq(Targets) /\ d.list \in Seq(Targets)
  BY RegFields
<1>5. Size(m.targets.list) \in Nat /\ Size(d.list) \in Nat
  BY <1>4, SizeType
<1>6. CASE defer
  <2> DEFINE l == TargetList_add(d, t)
  <2>1. l.list = Append(d.list, t)
    BY DEF TargetList_add
  <2> HIDE DEF t, l
  <2>2. m2.targets = m.targets /\ m2.deferredTargets = l
    BY <1>3, <1>6 DEF Regs, Registers, l
  <2>3. Size(l.list) = Size(d.list) + (IF cmd = "WriteReq" THEN 1 ELSE 0)
    <3>1. PICK u, v : u = l.list /\ v = d.list
      OBVIOUS
    <3>2. v \in Seq(Targets) /\ t \in Targets /\ u = Append(v, t) /\ Size(v) \in Nat
      BY <1>1, <1>4, <1>5, <2>1, <3>1
    <3>3. /\ IsStore(t) => Size(u) = Size(v) + 1
          /\ ~IsStore(t) => Size(u) = Size(v)
      BY ONLY <3>2, SizeAppend
    <3> QED BY <1>1, <3>1, <3>2, <3>3
  <2> QED BY <1>5, <2>2, <2>3
<1>7. CASE ~defer
  <2> DEFINE l == TargetList_add(m.targets, t)
  <2>1. l.list = Append(m.targets.list, t)
    BY DEF TargetList_add
  <2> HIDE DEF t, l
  <2>2. m2.targets = l /\ m2.deferredTargets = d
    BY <1>3, <1>7 DEF Regs, Registers, l
  <2>3. Size(l.list) = Size(m.targets.list) + (IF cmd = "WriteReq" THEN 1 ELSE 0)
    <3>1. PICK u, v : u = l.list /\ v = m.targets.list
      OBVIOUS
    <3>2. v \in Seq(Targets) /\ t \in Targets /\ u = Append(v, t) /\ Size(v) \in Nat
      BY <1>1, <1>4, <1>5, <2>1, <3>1
    <3>3. /\ IsStore(t) => Size(u) = Size(v) + 1
          /\ ~IsStore(t) => Size(u) = Size(v)
      BY ONLY <3>2, SizeAppend
    <3> QED BY <1>1, <3>1, <3>2, <3>3
  <2> QED BY <1>5, <2>2, <2>3
<1> QED BY <1>6, <1>7

LEMMA AllocateCount ==
    ASSUME NEW cmd \in {"ReadReq", "WriteReq"}, NEW when \in Nat,
           NEW m, m = [MSHR_allocate("block", cmd, when, 0) EXCEPT !.readyTime = 0]
    PROVE  Size(m.targets.list) + Size(m.deferredTargets.list)
             = IF cmd = "WriteReq" THEN 1 ELSE 0
<1> DEFINE t == Target(cmd, "FromCPU", when, 0)
           l == m.targets.list
<1>1. /\ m \in Regs /\ DOMAIN l = {1} /\ l[1] = t /\ m.deferredTargets.list = <<>>
  BY RegAllocate
<1>2. l \in Seq(Targets)
  BY <1>1, RegFields
<1>3. IsStore(t) <=> cmd = "WriteReq"
  BY NewTargets
<1> HIDE DEF t, l
<1>4. Len(l) = 1
  <2>1. Len(l) \in Nat /\ DOMAIN l = 1 .. Len(l)
    BY ONLY <1>2
  <2>2. \A k \in 1 .. Len(l) : k = 1
    BY <1>1, <2>1
  <2>3. 1 \in 1 .. Len(l)
    BY <1>1, <2>1
  <2>4. Len(l) \in 1 .. Len(l)
    BY ONLY <2>1, <2>3
  <2> QED BY ONLY <2>2, <2>4
<1>5. 0 + 1 = 1
  OBVIOUS
<1>6. Count(l, 1) = Count(l, 0) + (IF cmd = "WriteReq" THEN 1 ELSE 0)
  <2>1. PICK n : n = 0
    OBVIOUS
  <2>2. /\ IsStore(l[n + 1]) => Count(l, n + 1) = Count(l, n) + 1
        /\ ~IsStore(l[n + 1]) => Count(l, n + 1) = Count(l, n)
    BY <2>1, CountStep
  <2>3. n + 1 = 1
    BY <2>1
  <2> QED BY <1>1, <1>3, <2>1, <2>2, <2>3, CountNone
<1>7. Size(l) = IF cmd = "WriteReq" THEN 1 ELSE 0
  BY <1>4, <1>6, CountNone DEF Size
<1> QED BY <1>1, <1>7, SizeNone DEF l

(* A snoop adds no store.                                                  *)
LEMMA SnoopCount ==
    ASSUME NEW c \in CacheRecords, CacheOK(c), NEW r \in Caches, NEW cmd \in SnoopCmds,
           NEW c2, c2 = After(c, r, cmd)
    PROVE  Waiting(c2) = Waiting(c)
<1> DEFINE u == c.mshr.targets.list
           u2 == c2.mshr.targets.list
<1>1. c2 \in CacheRecords /\ Meets(c2.mshr, c.mshr, cmd, r)
  BY AfterFacts DEF AfterOK
<1>2. u \in Seq(Targets) /\ u2 \in Seq(Targets)
  BY <1>1, WaitingType
<1>3. ~IsStore(Target(cmd, "FromSnoop", 0, r))
  BY NewTargets, PortFacts DEF SnoopCmds
<1>4. /\ \A k \in DOMAIN u : k \in DOMAIN u2 /\ u2[k] = u[k]
      /\ \A k \in DOMAIN u2 : k \in DOMAIN u \/ (k = Len(u) + 1 /\ ~IsStore(u2[k]))
      /\ c2.mshr.deferredTargets = c.mshr.deferredTargets
  BY <1>1, <1>3 DEF Meets
<1> HIDE DEF u, u2
<1>5. /\ Len(u) \in Nat /\ Len(u2) \in Nat /\ DOMAIN u = 1 .. Len(u) /\ DOMAIN u2 = 1 .. Len(u2)
  BY <1>2
<1>6. Len(u2) = Len(u) \/ Len(u2) = Len(u) + 1
  <2>1. Len(u) <= Len(u2)
    <3>1. CASE Len(u) = 0
      BY <1>5, <3>1
    <3>2. CASE Len(u) # 0
      <4>1. Len(u) \in DOMAIN u
        BY <1>5, <3>2
      <4> QED BY <1>4, <1>5, <4>1
    <3> QED BY <3>1, <3>2
  <2>2. Len(u2) <= Len(u) + 1
    <3>1. CASE Len(u2) = 0
      BY <1>5, <3>1
    <3>2. CASE Len(u2) # 0
      <4>1. Len(u2) \in DOMAIN u2
        BY <1>5, <3>2
      <4> QED BY <1>4, <1>5, <4>1
    <3> QED BY <3>1, <3>2
  <2>3. PICK a, b : a = Len(u) /\ b = Len(u2)
    OBVIOUS
  <2>4. a \in Nat /\ b \in Nat /\ a <= b /\ b <= a + 1
    BY <1>5, <2>1, <2>2, <2>3
  <2>5. b = a \/ b = a + 1
    BY ONLY <2>4
  <2> QED BY <2>3, <2>5
<1>7. Count(u2, Len(u)) = Count(u, Len(u))
  BY <1>4, <1>5, CountSame
<1>8. Size(u2) = Size(u)
  <2>1. CASE Len(u2) = Len(u)
    BY <1>7, <2>1 DEF Size
  <2>2. CASE Len(u2) = Len(u) + 1
    <3>1. ~IsStore(u2[Len(u) + 1])
      BY <1>4, <1>5, <2>2
    <3>2. Count(u2, Len(u) + 1) = Count(u2, Len(u))
      BY <1>5, <3>1, CountStep
    <3> QED BY <1>7, <2>2, <3>2 DEF Size
  <2> QED BY <1>6, <2>1, <2>2
<1> QED BY <1>4, <1>8 DEF Waiting, u, u2

(* The actions of one cache.                                               *)
LEMMA StoreCount ==
    ASSUME IInv, Counted, NEW r \in Caches, Store(r)
    PROVE  Counted'
<1>1. /\ issued \in Nat /\ latest \in Nat /\ cache \in [Caches -> CacheRecords]
      /\ MaxStores \in Nat
  BY CacheWaits, CacheAssumption
<1> DEFINE c2 == [cache[r] EXCEPT !.data = cache[r].data + 1,
                                  !.status = cache[r].status \cup {"Dirty"}]
<1>2. cache' = [cache EXCEPT ![r] = c2]
  BY <1>1 DEF Store, CacheRecords
<1>3. c2.mshr = cache[r].mshr
  BY <1>1 DEF CacheRecords
<1> HIDE DEF c2
<1>4. \A d \in Caches : cache'[d].mshr = cache[d].mshr
  BY <1>1, <1>2, <1>3
<1>5. \A d \in Caches : Waiting(cache'[d]) = Waiting(cache[d])
  BY <1>4 DEF Waiting
<1>6. issued' = issued + 1 /\ latest' = latest + 1 /\ issued < MaxStores
  BY DEF Store
<1>7. issued' - latest' = issued - latest /\ issued' <= MaxStores
  BY ONLY <1>1, <1>6
<1> QED BY <1>5, <1>7, SameCount

LEMMA LocalCount ==
    ASSUME IInv, Counted, NEW r \in Caches, Load(r) \/ SendWriteback(r) \/ Evict(r)
    PROVE  Counted'
<1>1. cache \in [Caches -> CacheRecords] /\ cache[r] \in CacheRecords
  BY CacheWaits
<1>2. UNCHANGED <<issued, latest>>
  BY DEF Load, SendWriteback, Evict
<1>3. \A d \in Caches : cache'[d].mshr = cache[d].mshr
  <2>1. CASE Load(r)
    BY <2>1 DEF Load
  <2>2. CASE SendWriteback(r)
    <3> DEFINE c2 == [cache[r] EXCEPT !.writeback = NoWriteback]
    <3>1. cache' = [cache EXCEPT ![r] = c2]
      BY <1>1, <2>2 DEF SendWriteback
    <3>2. c2.mshr = cache[r].mshr
      BY <1>1 DEF CacheRecords
    <3> HIDE DEF c2
    <3> QED BY <1>1, <3>1, <3>2
  <2>3. CASE Evict(r)
    <3> DEFINE c == cache[r]
               w == IF isDirty(c) THEN Writeback(c) ELSE c.writeback
               c2 == [c EXCEPT !.status = {}, !.data = 0, !.writeback = w]
    <3>1. cache' = [cache EXCEPT ![r] = c2]
      <4> DEFINE x == [invalidate(c) EXCEPT !.writeback = IF isDirty(c) THEN Writeback(c) ELSE @]
      <4>1. cache' = [cache EXCEPT ![r] = x]
        BY <2>3 DEF Evict
      <4>2. x = c2
        BY <1>1 DEF invalidate, CacheRecords
      <4> QED BY <4>1, <4>2
    <3> HIDE DEF w
    <3>2. c2.mshr = cache[r].mshr
      BY <1>1 DEF CacheRecords
    <3> HIDE DEF c2
    <3> QED BY <1>1, <3>1, <3>2
  <2> QED BY <2>1, <2>2, <2>3
<1>4. \A d \in Caches : Waiting(cache'[d]) = Waiting(cache[d])
  BY <1>3 DEF Waiting
<1>5. issued' - latest' = issued - latest /\ issued' <= MaxStores
  BY <1>2 DEF Counted
<1> QED BY <1>4, <1>5, SameCount

LEMMA MissCount ==
    ASSUME IInv, Counted, NEW r \in Caches, NEW cmd \in {"ReadReq", "WriteReq"}, Miss(r, cmd)
    PROVE  Counted'
<1> DEFINE c == cache[r]
           issue == IF cmd = "ReadReq" THEN latest ELSE 0
           m == IF HasMSHR(c)
                THEN MSHR_allocateTarget(c.mshr, cmd, issue, 0)
                ELSE [MSHR_allocate("block", cmd, issue, 0) EXCEPT !.readyTime = 0]
           st == IF HasMSHR(c) THEN c.status ELSE c.status \ {"Readable"}
           c2 == [c EXCEPT !.mshr = m, !.status = st]
<1>1. /\ c \in CacheRecords /\ cache \in [Caches -> CacheRecords] /\ latest \in Nat
      /\ c.mshr \in Regs /\ issued \in Nat /\ MaxStores \in Nat
  BY CacheWaits, CacheFields, CacheAssumption
<1>2. issue \in Nat
  BY <1>1
<1>3. cache' = [cache EXCEPT ![r] = c2]
  BY <1>1 DEF Miss, CacheRecords
<1>4. PICK e : e = IF cmd = "WriteReq" THEN 1 ELSE 0
  OBVIOUS
<1>5. issued' = issued + e /\ issued' <= MaxStores /\ latest' = latest
  <2>1. issued <= MaxStores
    BY DEF Counted
  <2> QED BY <1>1, <1>4, <2>1 DEF Miss
<1> HIDE DEF issue
<1>6. Size(m.targets.list) + Size(m.deferredTargets.list) = Waiting(c) + e
  <2>1. CASE HasMSHR(c)
    <3>1. m = MSHR_allocateTarget(c.mshr, cmd, issue, 0)
      BY <2>1
    <3> HIDE DEF m
    <3> QED BY <1>1, <1>2, <1>4, <3>1, JoinCount DEF Waiting
  <2>2. CASE ~HasMSHR(c)
    <3>1. m = [MSHR_allocate("block", cmd, issue, 0) EXCEPT !.readyTime = 0]
      BY <2>2
    <3>2. c.mshr = FreeMSHR
      BY <2>2 DEF HasMSHR
    <3>3. Waiting(c) = 0
      BY <3>2, FreeReg, SizeNone DEF Waiting
    <3> HIDE DEF m
    <3>4. Size(m.targets.list) + Size(m.deferredTargets.list) = e
      BY <1>2, <1>4, <3>1, AllocateCount
    <3> QED BY <1>4, <3>3, <3>4
  <2> QED BY <2>1, <2>2
<1> HIDE DEF m, st
<1>7. c2.mshr = m
  BY <1>1 DEF CacheRecords
<1> HIDE DEF c2
<1>8. cache'[r] = c2 /\ \A d \in Caches \ {r} : cache'[d].mshr = cache[d].mshr
  BY <1>1, <1>3
<1>9. Waiting(cache'[r]) = Waiting(cache[r]) + e
  BY <1>6, <1>7, <1>8 DEF Waiting
<1>10. e \in Int /\ issued' - latest' = (issued - latest) + e
  BY <1>1, <1>4, <1>5
<1> QED BY <1>5, <1>8, <1>9, <1>10, OneCount

(* A request on the bus.                                                   *)
LEMMA SendCount ==
    ASSUME IInv, Counted, NEW r \in Caches, SendMiss(r) \/ MissRefused(r)
    PROVE  Counted'
<1> DEFINE s == Snooped(r)
<1>1. MissReady(r) /\ UNCHANGED <<issued, latest>>
  BY DEF SendMiss, MissRefused
<1>2. PICK cmd : Sends(r, cmd, s)
  BY <1>1, MissSends
<1>3. cmd \in SnoopCmds
      /\ s.cache = [d \in Caches |-> IF d = r THEN cache[r] ELSE After(cache[d], r, cmd)]
  BY <1>2 DEF Sends, SnoopsOK
<1>4. cache[r] \in CacheRecords /\ cache[r].mshr \in Regs
  BY CacheFacts, CacheFields
<1> HIDE DEF s
<1>5. \A d \in Caches \ {r} : cache'[d] = After(cache[d], r, cmd)
  <2>1. CASE SendMiss(r)
    <3>1. cache' = [s.cache EXCEPT ![r].mshr =
                        MSHR_markInService(@, ~s.pkt.shared /\ s.pkt.memInhibit)]
      BY <2>1 DEF SendMiss, s
    <3> QED BY <1>3, <3>1
  <2>2. CASE MissRefused(r)
    BY <1>3, <2>2 DEF MissRefused, s
  <2> QED BY <2>1, <2>2
<1>6. Waiting(cache'[r]) = Waiting(cache[r])
  <2>1. CASE SendMiss(r)
    <3>1. PICK pd : pd = (~s.pkt.shared /\ s.pkt.memInhibit)
      OBVIOUS
    <3>2. cache' = [s.cache EXCEPT ![r].mshr = MSHR_markInService(@, pd)]
      BY <2>1, <3>1 DEF SendMiss, s
    <3>3. PICK n : n = MSHR_markInService(cache[r].mshr, pd)
      OBVIOUS
    <3>4. n.targets = cache[r].mshr.targets /\ n.deferredTargets = cache[r].mshr.deferredTargets
      BY <1>4, <3>3 DEF MSHR_markInService, Regs, Registers
    <3>5. PICK c2 : c2 = [cache[r] EXCEPT !.mshr = n]
      OBVIOUS
    <3>6. cache'[r] = c2
      BY <1>3, <3>2, <3>3, <3>5
    <3>7. c2.mshr = n
      BY <1>4, <3>5 DEF CacheRecords
    <3> QED BY <3>4, <3>6, <3>7 DEF Waiting
  <2>2. CASE MissRefused(r)
    BY <1>3, <2>2 DEF MissRefused, s
  <2> QED BY <2>1, <2>2
<1>7. ASSUME NEW d \in Caches PROVE Waiting(cache'[d]) = Waiting(cache[d])
  <2>1. CASE d = r
    BY <1>6, <2>1
  <2>2. CASE d # r
    <3>1. cache'[d] = After(cache[d], r, cmd) /\ cache[d] \in CacheRecords /\ CacheOK(cache[d])
      BY <1>5, <2>2, CacheFacts
    <3> QED BY <1>3, <3>1, SnoopCount
  <2> QED BY <2>1, <2>2
<1>8. issued' - latest' = issued - latest /\ issued' <= MaxStores
  BY <1>1 DEF Counted
<1> QED BY <1>7, <1>8, SameCount

(* An answer.                                                              *)
LEMMA ReceivedCount ==
    ASSUME IInv, Counted, NEW cs, NEW o, NEW a, NEW r, NEW temp, Received(cs, o, a, r, temp)
    PROVE  Counted'
<1> DEFINE c == cache[r]
           g == Fill(c, a, latest, stale)
           c2 == FillCache(g, c, a, temp)
<1>0. Receives(cs, o, a, r, temp) /\ issued' = issued
  BY DEF Received
<1>1. FirstFacts(o, a, r) /\ First(o, a, r)
  BY <1>0, FirstAnswer DEF Receives
<1>2. r \in Caches /\ o # r /\ r = a.to /\ FillStart(c, o, a, latest)
  BY <1>1 DEF FirstFacts, First
<1>3. /\ temp \in BOOLEAN /\ cs \in [Caches -> CacheRecords] /\ cs[r] = c
      /\ recvTimingResp(cs, a, temp, TRUE)
      /\ \A d \in Caches : cs[d].mshr = cache[d].mshr
  BY <1>0, <1>2 DEF Receives
<1>4. cache' = [cs EXCEPT ![r] = c2] /\ latest' = g.latest
  BY <1>2, <1>3 DEF recvTimingResp, Fill, FillCache, FillSettled
<1>5. stale \in BOOLEAN /\ ~stale
  BY DEF IInv
<1> HIDE DEF g, c2
<1>6. g = Fill(c, a, latest, stale) /\ c2 = FillCache(g, c, a, temp)
  BY DEF g, c2
<1>7. g.latest + Waiting(c2) = latest + Waiting(c)
  BY <1>2, <1>3, <1>5, <1>6, FillCount
<1>8. g.latest \in Nat
  <2>1. g \in Fills
    BY <1>2, <1>5, <1>6, FillServed
  <2> QED BY <2>1 DEF Fills
<1>9. c2 \in CacheRecords
  <2>1. FillOK(c2, c, a, latest, g.latest)
    BY <1>2, <1>3, <1>5, <1>6, FillDone
  <2> QED BY <2>1 DEF FillOK
<1>10. Waiting(c2) \in Nat /\ Waiting(c) \in Nat /\ issued \in Nat /\ latest \in Nat
  BY <1>2, <1>9, WaitingType, CacheWaits
<1>11. cache'[r] = c2 /\ \A d \in Caches \ {r} : cache'[d].mshr = cache[d].mshr
  BY <1>2, <1>3, <1>4
<1>12. PICK e : e = latest - g.latest
  OBVIOUS
<1>13. e \in Int /\ Waiting(c2) = Waiting(c) + e
  BY ONLY <1>7, <1>8, <1>10, <1>12
<1>14. issued' - latest' = (issued - latest) + e
  BY <1>0, <1>4, <1>8, <1>10, <1>12
<1>15. issued' <= MaxStores
  BY <1>0 DEF Counted
<1> QED BY <1>2, <1>11, <1>13, <1>14, <1>15, OneCount

LEMMA InitCount ==
    ASSUME Init
    PROVE  Counted
<1> DEFINE sum == [d \in Ports |-> 0]
<1>1. \A d \in Caches : cache[d].mshr = FreeMSHR
  BY DEF Init
<1>2. \A d \in Caches : Waiting(cache[d]) = 0
  BY <1>1, FreeReg, SizeNone DEF Waiting
<1>3. 0 \in Ports /\ NumCaches \in Ports /\ \A d \in Caches : d \in Ports /\ d - 1 \in Ports
  BY CacheAssumption DEF Ports, Caches
<1>4. sum \in [Ports -> Int] /\ \A d \in Ports : sum[d] = 0
  OBVIOUS
<1> HIDE DEF sum
<1>5. Total(cache, 0)
  BY <1>2, <1>3, <1>4 DEF Total
<1>6. issued - latest = 0 /\ issued <= MaxStores
  BY CacheAssumption DEF Init
<1> QED BY <1>5, <1>6 DEF Counted

(* Every store that a CPU issues is performed once or waits in one list of *)
(* one register, whatever MSHR_allocateTarget defers and MSHR_handleFill   *)
(* takes with the answer: none is lost or performed twice.                 *)
THEOREM StoresOnce == Spec => []Counted
<1>1. Init => Counted
  BY InitCount
<1>2. IInv /\ Counted /\ [Next]_vars => Counted'
  <2> SUFFICES ASSUME IInv, Counted, [Next]_vars PROVE Counted'
    OBVIOUS
  <2>1. ASSUME NEW r \in Caches,
               \/ Load(r) \/ Store(r)
               \/ \E cmd \in {"ReadReq", "WriteReq"} : Miss(r, cmd)
               \/ SendMiss(r) \/ MissRefused(r) \/ SendWriteback(r) \/ Evict(r)
        PROVE  Counted'
    BY <2>1, LocalCount, StoreCount, MissCount, SendCount
  <2>2. ASSUME NEW temp \in BOOLEAN,
               RecvMemResp(temp) \/ \E o \in Caches : RecvSnoopResp(o, temp)
        PROVE  Counted'
    <3>1. PICK cs, o, a, r : Received(cs, o, a, r, temp)
      BY <2>2, MemReceived, SnoopReceived
    <3> QED BY <3>1, ReceivedCount
  <2>3. CASE UNCHANGED vars
    <3>1. UNCHANGED <<cache, issued, latest>>
      BY <2>3 DEF vars
    <3> QED BY <3>1 DEF Counted
  <2> QED BY <2>1, <2>2, <2>3 DEF Next
<1> QED BY <1>1, <1>2, Protocols, PTL DEF Spec

LEMMA InvType ==
    ASSUME IInv, Counted
    PROVE  TypeOK
<1>1. /\ Protocol(cache, Queues, mem, latest) /\ StateOK(cache, Queues)
      /\ Filter(cache, Queues, snoopFilter) /\ Crossbar(cache, Queues, routeTo, outstandingSnoop)
  BY DEF IInv, Queues, Protocol
<1>2. ASSUME NEW r \in Caches
      PROVE  cache[r].status \ {"Dirty"} \in
               {{}, {"Valid"}, {"Valid", "Readable"}, {"Valid", "Readable", "Writable"}}
  <2>1. cache[r].status \in Pending \/ cache[r].status \in Settled
    BY <1>1 DEF StateOK, CacheOK
  <2> QED BY <2>1 DEF Pending, Settled
<1>3. mem \in 0 .. latest
  BY <1>1 DEF Protocol, MemCurrent
<1>4. latest \in 0 .. issued /\ issued \in 0 .. MaxStores
  <2>1. issued \in Nat /\ latest \in Nat /\ \A d \in Caches : Waiting(cache[d]) \in Nat
    BY CacheWaits
  <2>2. issued - latest \in Nat /\ issued <= MaxStores
    BY <2>1, TotalType DEF Counted
  <2> QED BY <2>1, <2>2, CacheAssumption
<1>5. /\ routeTo = {r \in Caches : cache[r].mshr.inService}
      /\ outstandingSnoop \subseteq routeTo
  BY <1>1 DEF Crossbar, Busy
<1>6. snoopFilter.requested = routeTo /\ snoopFilter.holder \subseteq Caches
  BY <1>1 DEF Crossbar, Filter
<1> QED BY <1>2, <1>3, <1>4, <1>5, <1>6 DEF TypeOK

(* The type of the state: the bits of a block form a chain, no more stores *)
(* are performed than were issued, and the crossbar and the snoop filter   *)
(* agree with the MSHRs on the requests in flight.                         *)
THEOREM TypeCorrect == Spec => []TypeOK
<1>1. IInv /\ Counted => TypeOK
  BY InvType
<1> QED BY <1>1, Protocols, StoresOnce, PTL
=============================================================================
