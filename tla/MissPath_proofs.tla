-------------------------- MODULE MissPath_proofs --------------------------
(***************************************************************************)
(* The safety of the miss path for every number of MSHRs, write buffers,   *)
(* targets, blocks and prefetches: requests (MissPathInv_proofs), the send *)
(* event, responses, snoops and the passing of time keep the invariant of  *)
(* MissPathInv_proofs, and every step is a step of the blocking protocol   *)
(* or leaves its view alone.                                               *)
(*                                                                         *)
(* The one hypothesis besides MissPathAssumption is AmpleReserve: the 1000 *)
(* entries the constructor of BaseCache adds to the write buffer are more  *)
(* than the MSHRs and the prefetch queue together.                         *)
(***************************************************************************)
EXTENDS MissPathInv_proofs

-----------------------------------------------------------------------------
(* Sending.  A prefetch is issued only when nothing else waits, so what is *)
(* sent next is the prefetch or another miss, never a writeback.           *)
LEMMA IssuedNext ==
    ASSUME NEW st, NextQueued(st) = None, PW!WriteInv(st.writeBuffer), NEW a,
           WB!findMatch(st.writeBuffer, a) = 0,
           NEW r, r.writeBuffer = st.writeBuffer,
           MQ!getNextMSHR(st.mshrQueue) = 0 /\ MQ!getNextMSHR(r.mshrQueue) # 0 =>
              r.mshrQueue.registers[MQ!getNextMSHR(r.mshrQueue)].blkAddr = a
    PROVE  NextQueued(r).queue # "WriteBuffer"
<1> DEFINE w == st.writeBuffer
           miss == MQ!getNextMSHR(r.mshrQueue)
           n == NextQueued(r)
<1>1. MQ!getNextMSHR(st.mshrQueue) = 0 /\ WB!getNextMSHR(w) = 0
  BY NextQueuedCases, EntryKinds
<1>2. WB!findPending(w, a) = 0
  <2>1. PW!Base(PW!WriteRegisters, w) /\ PW!Elements(w.readyList) = PW!Held(w)
    BY WriteFacts
  <2>2. PW!findMatch(w, a) = 0
    BY SameMatchWrites
  <2>3. /\ IF PW!findMatch(w, a) = 0
           THEN \A j \in PW!Elements(w.allocatedList) : w.registers[j].blkAddr # a
           ELSE /\ PW!findMatch(w, a) \in PW!Elements(w.allocatedList)
                /\ w.registers[PW!findMatch(w, a)].blkAddr = a
        /\ PW!findPending(w, a) # 0 => /\ PW!findPending(w, a) \in PW!Elements(w.readyList)
                                       /\ w.registers[PW!findPending(w, a)].blkAddr = a
    BY ONLY <2>1, Sizes, PW!FindOK
  <2>4. PW!findPending(w, a) = 0
    BY ONLY <2>1, <2>2, <2>3 DEF PW!Held
  <2> QED BY <2>4, SamePendingWrites
<1>3. WB!getNextMSHR(r.writeBuffer) = 0 /\ r.writeBuffer = w
  BY <1>1
<1>4. \/ n = None
      \/ \E i : n = MissEntry(i)
      \/ \E i : /\ n = WriteEntry(i) /\ i # 0
                /\ \/ i = 0
                   \/ /\ miss # 0
                      /\ i = WB!findPending(w, r.mshrQueue.registers[miss].blkAddr)
  BY <1>3, NextQueuedCases
<1>5. miss # 0 => WB!findPending(w, r.mshrQueue.registers[miss].blkAddr) = 0
  BY <1>1, <1>2
<1> HIDE DEF n, miss, w
<1>6. n = None \/ \E i : n = MissEntry(i)
  BY <1>4, <1>5
<1> QED BY <1>6, EntryKinds DEF n

(* The MSHRs once the prefetch at the head of the queue has been issued or *)
(* dropped.                                                                *)
IssuedQueue(st) ==
    LET a == Head(st.pfq).addr
    IN  IF /\ st.tags[a] = {} /\ MQ!findMatch(st.mshrQueue, a) = 0
           /\ WB!findMatch(st.writeBuffer, a) = 0
        THEN MQ!MSHRQueue_allocate(st.mshrQueue, a, "HardPFReq", 0, st.order)
        ELSE st.mshrQueue

LEMMA IssueOK ==
    ASSUME NEW st, Stored(st), NextQueued(st) = None, MQ!canPrefetch(st.mshrQueue),
           st.pfq # <<>>, NEW r, r = IssuePrefetch(st)
    PROVE  /\ Stored(r) /\ SameTiming(r, st)
           /\ \/ View(r) = View(st) /\ NextQueued(r) = None
              \/ /\ View(r) = Blocking!allocateBufferInternal(View(st), "MSHRs")
                 /\ NextQueued(r).queue # "WriteBuffer"
           /\ r.mshrQueue = IssuedQueue(st) /\ r.writeBuffer = st.writeBuffer
           /\ Tracked(st) => Tracked(r)
<1> DEFINE q == st.mshrQueue
           a == Head(st.pfq).addr
           k == Popped(st)
           fresh == /\ st.tags[a] = {} /\ MQ!findMatch(q, a) = 0
                    /\ WB!findMatch(st.writeBuffer, a) = 0
<1>1. /\ Sound(st) /\ P!Misses(q, st.order) /\ PW!WriteInv(st.writeBuffer)
      /\ st.order \in Nat /\ Prefetcher(st)
  BY DEF Stored, Sound
<1>2. /\ Sound(k) /\ SamePlace(k, st) /\ SameTiming(k, st) /\ View(k) = View(st)
      /\ Len(k.pfq) = Len(st.pfq) - 1
  BY <1>1, PoppedFacts
<1>3. a \in Addrs /\ Len(st.pfq) \in Nat
  <2>1. a \in Addrs
    BY <1>1, PrefetchTime
  <2>2. Len(st.pfq) \in Nat
    BY <1>1 DEF Prefetcher
  <2> QED BY <2>1, <2>2
<1>4. \/ ~fresh /\ r = k
      \/ fresh /\ r = Quiet(k, "MSHRs", a, "HardPFReq", 0)
  <2>1. a = Head(st.pfq).addr /\ r = IssuePrefetch(st) /\ k = Popped(st) /\ q = st.mshrQueue
    OBVIOUS
  <2> HIDE DEF a, k, q
  <2>2. \/ /\ ~(/\ st.tags[a] = {} /\ MQ!findMatch(st.mshrQueue, a) = 0
                /\ WB!findMatch(st.writeBuffer, a) = 0)
           /\ r = Popped(st)
        \/ /\ st.tags[a] = {} /\ MQ!findMatch(st.mshrQueue, a) = 0
           /\ WB!findMatch(st.writeBuffer, a) = 0
           /\ r = Quiet(Popped(st), "MSHRs", a, "HardPFReq", 0)
    BY <2>1 DEF IssuePrefetch, Popped, Quiet, Present
  <2> QED BY ONLY <2>1, <2>2
<1> HIDE DEF k, a
<1>5. /\ k.mshrQueue = q /\ k.writeBuffer = st.writeBuffer /\ k.order = st.order
      /\ k.noTargetMSHR = st.noTargetMSHR /\ k.tags = st.tags /\ SameBook(k, st)
  BY <1>2 DEF SamePlace, SameBlocking, SameBook
<1>6. CASE ~fresh /\ r = k
  <2>1. Emptier(r, st)
    BY <1>5, <1>6 DEF Emptier
  <2>2. Len(r.pfq) <= Len(st.pfq)
    BY <1>2, <1>3, <1>6
  <2>3. Stored(r)
    BY <1>2, <1>5, <1>6, <2>1, <2>2, StoredKept
  <2>4. NextQueued(r) = None
    BY <1>5, <1>6, NextQueuedSame
  <2>5. r.mshrQueue = IssuedQueue(st) /\ r.writeBuffer = st.writeBuffer
    BY <1>5, <1>6, Zenon DEF IssuedQueue, a
  <2>6. Tracked(st) => Tracked(r)
    BY <1>5, <1>6, TrackedSame DEF SameBook
  <2> QED BY <1>2, <1>6, <2>3, <2>4, <2>5, <2>6
<1>7. CASE /\ st.tags[a] = {} /\ MQ!findMatch(q, a) = 0
           /\ WB!findMatch(st.writeBuffer, a) = 0
           /\ r = Quiet(k, "MSHRs", a, "HardPFReq", 0)
  <2> DEFINE new == MQ!MSHRQueue_allocate(q, a, "HardPFReq", 0, st.order)
             n == "MSHRs"
  <2>1. q.allocated \in Nat /\ q.allocated < P!N /\ P!deferring(q) \in Nat /\ q.allocated < Mshrs
    BY <1>1, Sizes, MissFacts DEF P!N
  <2>2. /\ P!Misses(new, st.order + 1) /\ P!More1(q, new, 0) /\ P!deferring(new) <= P!deferring(q)
        /\ P!Prefetches(new) \subseteq P!Prefetches(q) \cup {a}
        /\ P!getNextMSHR(q) = 0 /\ P!getNextMSHR(new) # 0 =>
              new.registers[P!getNextMSHR(new)].blkAddr = a
    <3>1. new = P!MSHRQueue_allocate(q, a, "HardPFReq", 0, st.order) /\ P!findMatch(q, a) = 0
      BY <1>7, SameAllocate, SameMatch
    <3>2. 0 \in Nat /\ "HardPFReq" \in {"ReadReq", "WriteReq", "HardPFReq"}
      OBVIOUS
    <3> HIDE DEF q, new
    <3> QED BY ONLY <1>1, <1>3, <2>1, <3>1, <3>2, Sizes, P!MissesAllocate
  <2>3. /\ new.allocated = q.allocated + 1 /\ P!Held(q) \subseteq P!Held(new)
        /\ P!deferring(new) \in Nat /\ new.allocated \in Nat
        /\ MQ!isFull(new) <=> new.allocated >= Mshrs
    <3>1. P!Misses(new, st.order + 1) /\ P!More1(q, new, 0)
      BY <2>2
    <3> HIDE DEF new
    <3> QED BY <3>1, MissFacts DEF P!More1
  <2>4. Entered(r, k, n, new) /\ SameTiming(r, k)
    <3>1. n \in Kinds /\ Queue(k, n) = q /\ 0 \in Nat
      BY <1>5 DEF Kinds, Queue
    <3>2. /\ Queue(k, n).allocated \in Nat /\ new.allocated = Queue(k, n).allocated + 1
          /\ Queue(k, n).allocated < Blocking!numEntries(n)
          /\ MQ!isFull(new) <=> new.allocated >= Blocking!num_entries(n)
      <4>1. Blocking!num_entries(n) = Mshrs /\ Blocking!numEntries(n) = Mshrs + 3
        <5>1. View(k).allocated[n] \in Nat
          BY <2>1, <3>1, ViewCounts
        <5> QED BY <3>1, <5>1, FullSizes
      <4> HIDE DEF new, q, n
      <4> QED BY <2>1, <2>3, <3>1, <4>1, Sizes
    <3>3. new = MQ!MSHRQueue_allocate(Queue(k, n), a, "HardPFReq", 0, k.order)
      BY <1>5, <3>1
    <3>4. r = Quiet(k, n, a, "HardPFReq", 0)
      BY <1>7
    <3> HIDE DEF new, n, q
    <3>5. /\ Entered(Quiet(k, n, a, "HardPFReq", 0), k, n, new)
          /\ SameTiming(Quiet(k, n, a, "HardPFReq", 0), k)
      BY ONLY <1>2, <3>1, <3>2, <3>3, BufferFacts
    <3> QED BY <3>4, <3>5
  <2> HIDE DEF new
  <2>5. /\ Sound(r) /\ r.mshrQueue = new /\ r.writeBuffer = st.writeBuffer
        /\ r.order = st.order + 1 /\ r.noTargetMSHR = st.noTargetMSHR
        /\ r.tags = st.tags /\ r.pfq = k.pfq /\ SameTiming(r, st)
        /\ View(r) = Blocking!allocateBufferInternal(View(st), n)
        /\ SameBook(r, st)
    BY <1>2, <1>5, <2>4 DEF Entered, Placed, SameRest, Queue, Kinds, SameTiming, SameBook
  <2>6. Stored(r)
    <3>1. r.noTargetMSHR = 0 \/ r.noTargetMSHR \in P!Held(new)
      BY <2>3, <2>5 DEF Stored
    <3>2. \A b \in P!Prefetches(new) : r.tags[b] = {}
      BY <1>7, <2>2, <2>5 DEF Stored
    <3>3. Fits(r.writeBuffer.allocated, new.allocated, P!deferring(new), Len(r.pfq))
      <4> DEFINE w == st.writeBuffer.allocated
                 d == P!deferring(q)
                 e == P!deferring(new)
                 p == Len(st.pfq)
                 o == q.allocated
      <4>1. w \in Nat /\ d \in Nat /\ e \in Nat /\ p \in Nat /\ o \in Nat /\ e <= d
        BY <1>1, <1>3, <2>1, <2>2, <2>3, WriteFacts
      <4>2. Fits(w, o, d, p)
        BY DEF Stored
      <4>3. Len(r.pfq) = p - 1 /\ new.allocated = o + 1 /\ r.writeBuffer.allocated = w
        BY <1>2, <2>3, <2>5
      <4> HIDE DEF w, d, e, p, o
      <4>4. Fits(w, o + 1, e, p - 1)
        BY ONLY <4>1, <4>2, Sizes DEF Fits
      <4> QED BY <4>3, <4>4 DEF e
    <3> QED BY <1>1, <2>2, <2>5, <3>1, <3>2, <3>3 DEF Stored
  <2>7. NextQueued(r).queue # "WriteBuffer"
    <3>1. MQ!getNextMSHR(st.mshrQueue) = 0 /\ MQ!getNextMSHR(r.mshrQueue) # 0 =>
              r.mshrQueue.registers[MQ!getNextMSHR(r.mshrQueue)].blkAddr = a
      BY <2>2, <2>5, SameNext
    <3>2. WB!findMatch(st.writeBuffer, a) = 0 /\ r.writeBuffer = st.writeBuffer
      BY <1>7, <2>5
    <3> QED BY <1>1, <3>1, <3>2, IssuedNext, Zenon
  <2>8. r.mshrQueue = IssuedQueue(st)
    BY <1>7, <2>5, Zenon DEF IssuedQueue, a, new
  <2>9. ASSUME Tracked(st)
        PROVE  Tracked(r)
    <3>1. /\ r.mshrQueue = MQ!MSHRQueue_allocate(st.mshrQueue, a, "HardPFReq", 0, st.order)
          /\ "HardPFReq" \in {"ReadReq", "WriteReq", "HardPFReq"} /\ 0 \in Nat
          /\ st.mshrQueue.allocated < Mshrs /\ MQ!findMatch(st.mshrQueue, a) = 0
      BY <1>7, <2>1, <2>5 DEF new
    <3>2. /\ "HardPFReq" = "ReadReq" => "Readable" \notin st.tags[a]
          /\ "HardPFReq" = "WriteReq" => "Writable" \notin st.tags[a]
          /\ "HardPFReq" = "HardPFReq" => st.tags[a] = {}
          /\ r.tags[a] = st.tags[a] \ {"Readable"}
          /\ \A x \in Addrs : x # a => r.tags[x] = st.tags[x]
      BY <1>7, <2>5
    <3> QED BY <1>3, <2>5, <2>9, <3>1, <3>2, TrackedAllocate, Zenon
  <2> QED BY <2>5, <2>6, <2>7, <2>8, <2>9
<1> QED BY <1>4, <1>6, <1>7

(* What may be answered depends on the queues alone.                       *)
LEMMA AnswerDepends ==
    ASSUME NEW st, Stored(st), NEW r, Stored(r), SameQueues(r, st), NEW ans,
           PossibleAnswer(st, ans)
    PROVE  PossibleAnswer(r, ans)
<1> DEFINE p == IF CanIssuePrefetch(st) THEN IssuePrefetch(st) ELSE st
           t == IF CanIssuePrefetch(r) THEN IssuePrefetch(r) ELSE r
<1>1. /\ r.mshrQueue = st.mshrQueue /\ r.writeBuffer = st.writeBuffer
      /\ r.order = st.order /\ r.tags = st.tags /\ r.pfq = st.pfq
  BY DEF SameQueues
<1>2. NextQueued(r) = NextQueued(st)
  BY <1>1, NextQueuedSame
<1>3. CanIssuePrefetch(r) <=> CanIssuePrefetch(st)
  BY <1>1, <1>2 DEF CanIssuePrefetch
<1>4. t.mshrQueue = p.mshrQueue /\ t.writeBuffer = p.writeBuffer
  <2>1. CASE CanIssuePrefetch(st)
    <3>1. /\ NextQueued(st) = None /\ MQ!canPrefetch(st.mshrQueue) /\ st.pfq # <<>>
          /\ NextQueued(r) = None /\ MQ!canPrefetch(r.mshrQueue) /\ r.pfq # <<>>
      BY <1>3, <2>1 DEF CanIssuePrefetch
    <3>2. p = IssuePrefetch(st) /\ t = IssuePrefetch(r)
      BY <1>3, <2>1
    <3> HIDE DEF p, t
    <3>3. p.mshrQueue = IssuedQueue(st) /\ p.writeBuffer = st.writeBuffer
      BY <3>1, <3>2, IssueOK
    <3>4. t.mshrQueue = IssuedQueue(r) /\ t.writeBuffer = r.writeBuffer
      BY <3>1, <3>2, IssueOK
    <3>5. IssuedQueue(r) = IssuedQueue(st)
      BY <1>1, Zenon DEF IssuedQueue
    <3> QED BY <1>1, <3>3, <3>4, <3>5
  <2>2. CASE ~CanIssuePrefetch(st)
    BY <1>1, <1>3, <2>2
  <2> QED BY <2>1, <2>2
<1>5. PossibleAnswer(r, ans) <=>
          IF NextQueued(t).queue = "MSHRs"
          THEN ans \in Answers(t.mshrQueue.registers[NextQueued(t).i].targets.needsExclusive)
          ELSE ans = "Exclusive"
  BY Zenon DEF PossibleAnswer
<1>6. IF NextQueued(p).queue = "MSHRs"
      THEN ans \in Answers(p.mshrQueue.registers[NextQueued(p).i].targets.needsExclusive)
      ELSE ans = "Exclusive"
  BY Zenon DEF PossibleAnswer
<1> HIDE DEF p, t
<1>7. NextQueued(t) = NextQueued(p)
  BY <1>4, NextQueuedSame
<1> QED BY <1>4, <1>5, <1>6, <1>7

(* What getNextMSHR finds waits for the bus.                               *)
LEMMA NextCases ==
    ASSUME NEW st, Stored(st), NEW n, n = NextQueued(st)
    PROVE  \/ n = None
           \/ \E i \in P!Elements(st.mshrQueue.readyList) : n = MissEntry(i)
           \/ \E i \in PW!Held(st.writeBuffer) : n = WriteEntry(i)
<1> DEFINE q == st.mshrQueue
           w == st.writeBuffer
           miss == MQ!getNextMSHR(q)
           write == WB!getNextMSHR(w)
           b == w.registers[write].blkAddr
           d == q.registers[miss].blkAddr
<1>1. P!Misses(q, st.order) /\ PW!WriteInv(w)
  BY DEF Stored
<1>2. P!Base(P!Registers(P!Blocks), q) /\ P!Typed(P!Registers(P!Blocks))
  BY <1>1, MissFacts
<1>3. /\ PW!Base(PW!WriteRegisters, w) /\ PW!Typed(PW!WriteRegisters)
      /\ PW!Elements(w.readyList) = PW!Held(w)
  BY <1>1, WriteFacts
<1>4. \/ n = None
      \/ \E i : n = MissEntry(i) /\ i # 0 /\ (i = miss \/ i = MQ!findPending(q, b))
      \/ \E i : n = WriteEntry(i) /\ i # 0 /\ (i = write \/ i = WB!findPending(w, d))
  <2>1. /\ miss = MQ!getNextMSHR(st.mshrQueue) /\ write = WB!getNextMSHR(st.writeBuffer)
        /\ n = NextQueued(st) /\ q = st.mshrQueue /\ w = st.writeBuffer
    OBVIOUS
  <2> HIDE DEF miss, write, q, w
  <2> QED BY ONLY <2>1, NextQueuedCases DEF b, d
<1> HIDE DEF q, w, b, d
<1>5. miss # 0 => miss \in P!Elements(q.readyList)
  <2>1. P!getNextMSHR(q) # 0 => P!getNextMSHR(q) \in P!Elements(q.readyList)
    BY ONLY <1>2, Sizes, P!NextOK
  <2> QED BY <2>1, SameNext
<1>6. MQ!findPending(q, b) # 0 => MQ!findPending(q, b) \in P!Elements(q.readyList)
  <2>1. P!findPending(q, b) # 0 => P!findPending(q, b) \in P!Elements(q.readyList)
    BY ONLY <1>2, Sizes, P!FindOK, Zenon
  <2> QED BY <2>1, SamePending
<1>7. write # 0 => write \in PW!Held(w)
  <2>1. PW!getNextMSHR(w) # 0 => PW!getNextMSHR(w) \in PW!Elements(w.readyList)
    BY ONLY <1>3, Sizes, PW!NextOK
  <2> QED BY <1>3, <2>1, SameNextWrites
<1>8. WB!findPending(w, d) # 0 => WB!findPending(w, d) \in PW!Held(w)
  <2>1. PW!findPending(w, d) # 0 => PW!findPending(w, d) \in PW!Elements(w.readyList)
    BY ONLY <1>3, Sizes, PW!FindOK, Zenon
  <2> QED BY <1>3, <2>1, SamePendingWrites
<1> HIDE DEF miss, write
<1>9. \/ n = None
      \/ \E i \in P!Elements(q.readyList) : n = MissEntry(i)
      \/ \E i \in PW!Held(w) : n = WriteEntry(i)
  BY ONLY <1>4, <1>5, <1>6, <1>7, <1>8
<1> QED BY <1>9 DEF q, w

LEMMA SendMissOK ==
    ASSUME NEW st, Stored(st), NEW i \in P!Elements(st.mshrQueue.readyList), NEW ans,
           NEW r, r = SendMiss(st, i, ans)
    PROVE  /\ Stored(r) /\ SameTiming(r, st) /\ View(r) = View(st)
           /\ Tracked(st) /\ ans \in Answers(st.mshrQueue.registers[i].targets.needsExclusive)
              => Tracked(r)
<1> DEFINE q == st.mshrQueue
           n == "MSHRs"
           pd == ans = "Dirty"
           new == MQ!MSHRQueue_markInService(q, i, pd)
<1>1. /\ Sound(st) /\ P!Misses(q, st.order) /\ PW!WriteInv(st.writeBuffer)
      /\ st.order \in Nat
  BY DEF Stored, Sound
<1>2. PICK x : /\ SameButTags(x, st) /\ x.tags = st.tags /\ x.owed = st.owed
               /\ x.answer = [st.answer EXCEPT ![st.mshrQueue.registers[i].blkAddr] = ans]
               /\ r = markInService(x, "MSHRs", i, pd)
  BY <1>1, SendMissFacts
<1>3. /\ x.mshrQueue = q /\ x.writeBuffer = st.writeBuffer /\ x.order = st.order
      /\ x.pfq = st.pfq /\ x.noTargetMSHR = st.noTargetMSHR /\ SameTiming(x, st)
  BY <1>2 DEF SameButTags, SameBlocking
<1>4. Sound(x) /\ View(x) = View(st)
  <2>1. x.tags = [a \in Addrs |-> x.tags[a]]
    BY <1>1, <1>2 DEF Sound
  <2> QED BY <1>1, <1>2, <2>1, SameTags
<1>5. P!Misses(new, st.order) /\ P!Same(q, new) /\ P!deferring(new) <= P!deferring(q)
  <2>1. new = P!MSHRQueue_markInService(q, i, pd) /\ pd \in BOOLEAN
        /\ i \in P!Elements(q.readyList)
    BY SameMark
  <2> HIDE DEF q, new, pd
  <2> QED BY ONLY <1>1, <2>1, Sizes, P!MissesSend
<1> HIDE DEF new, pd
<1>6. /\ new.allocated = q.allocated /\ P!Held(new) = P!Held(q)
      /\ P!Prefetches(new) \subseteq P!Prefetches(q)
  BY <1>5 DEF P!Same
<1>7. /\ q.allocated \in Nat /\ P!deferring(q) \in Nat /\ P!deferring(new) \in Nat
      /\ MQ!isFull(q) <=> q.allocated >= Mshrs
      /\ MQ!isFull(new) <=> new.allocated >= Mshrs
  <2>1. /\ q.allocated \in Nat /\ P!deferring(q) \in Nat
        /\ MQ!isFull(q) <=> q.allocated >= Mshrs
    BY <1>1, MissFacts
  <2>2. /\ P!deferring(new) \in Nat
        /\ MQ!isFull(new) <=> new.allocated >= Mshrs
    BY <1>5, MissFacts
  <2> QED BY <2>1, <2>2
<1>8. Released(r, x, n, new)
  <2>1. n \in Kinds /\ Queue(x, n) = q
    BY <1>3 DEF Kinds, Queue
  <2>2. Blocking!num_entries(n) = Mshrs
    <3>1. View(x).allocated[n] \in Nat
      BY <1>7, <2>1, ViewCounts
    <3> QED BY <2>1, <3>1, FullSizes
  <2>3. r = Release(x, n, new)
    BY <1>2, <2>1, MarkFacts DEF new
  <2>4. /\ Queue(x, n).allocated \in Nat /\ new.allocated \in Nat
        /\ MQ!isFull(Queue(x, n)) <=> Queue(x, n).allocated >= Blocking!num_entries(n)
        /\ MQ!isFull(new) <=> new.allocated >= Blocking!num_entries(n)
    BY <1>6, <1>7, <2>1, <2>2
  <2> HIDE DEF n, q
  <2> QED BY ONLY <1>4, <2>1, <2>3, <2>4, ReleaseFacts
<1>9. /\ Sound(r) /\ r.mshrQueue = new /\ r.writeBuffer = st.writeBuffer
      /\ r.order = st.order /\ r.noTargetMSHR = st.noTargetMSHR
      /\ r.tags = st.tags /\ r.pfq = st.pfq /\ SameTiming(r, st)
      /\ View(r) = View(st) /\ SameBook(r, x)
  <2>1. Queue(x, n).allocated = new.allocated
    BY <1>3, <1>6 DEF Queue
  <2> QED BY <1>2, <1>3, <1>4, <1>8, <2>1 DEF Released, Placed, SameRest, Queue, Kinds, SameTiming,
                                                   SameBook
<1>10. Stored(r)
  <2>1. r.noTargetMSHR = 0 \/ r.noTargetMSHR \in P!Held(new)
    BY <1>6, <1>9 DEF Stored
  <2>2. \A b \in P!Prefetches(new) : r.tags[b] = {}
    BY <1>6, <1>9 DEF Stored
  <2>3. Fits(r.writeBuffer.allocated, new.allocated, P!deferring(new), Len(r.pfq))
    <3> DEFINE w == st.writeBuffer.allocated
               d == P!deferring(q)
               e == P!deferring(new)
               p == Len(st.pfq)
               o == q.allocated
    <3>1. w \in Nat /\ d \in Nat /\ e \in Nat /\ p \in Nat /\ o \in Nat /\ e <= d
      BY <1>1, <1>5, <1>7, WriteFacts DEF Sound, Prefetcher
    <3>2. Fits(w, o, d, p)
      BY DEF Stored
    <3>3. Len(r.pfq) = p /\ new.allocated = o /\ r.writeBuffer.allocated = w
      BY <1>6, <1>9
    <3> HIDE DEF w, d, e, p, o
    <3>4. Fits(w, o, e, p)
      BY ONLY <3>1, <3>2, Sizes DEF Fits
    <3> QED BY <3>3, <3>4 DEF e
  <2> QED BY <1>1, <1>5, <1>9, <2>1, <2>2, <2>3 DEF Stored
<1>11. ASSUME Tracked(st), ans \in Answers(st.mshrQueue.registers[i].targets.needsExclusive)
       PROVE  Tracked(r)
  <2>1. /\ r.mshrQueue = MQ!MSHRQueue_markInService(st.mshrQueue, i, ans = "Dirty")
        /\ r.tags = st.tags /\ r.owed = st.owed
        /\ r.answer = [st.answer EXCEPT ![st.mshrQueue.registers[i].blkAddr] = ans]
    BY <1>2, <1>9 DEF new, pd, SameBook
  <2> QED BY <1>11, <2>1, TrackedSend
<1> QED BY <1>9, <1>10, <1>11

(* A writeback leaves the write buffer, sent or discarded by a snoop.      *)
LEMMA MarkWriteOK ==
    ASSUME NEW st, Stored(st), NEW i \in PW!Held(st.writeBuffer), NEW pd,
           NEW r, r = markInService(st, "WriteBuffer", i, pd)
    PROVE  /\ Stored(r) /\ SameTiming(r, st) /\ st.writeBuffer.allocated > 0
           /\ View(r) = Blocking!deallocate(View(st), "WriteBuffer")
           /\ r.mshrQueue = st.mshrQueue /\ r.pfq = st.pfq
           /\ PW!Times(r.writeBuffer) \subseteq PW!Times(st.writeBuffer)
           /\ Tracked(st) => Tracked(r)
<1> DEFINE w == st.writeBuffer
           n == "WriteBuffer"
           new == MQ!MSHRQueue_markInService(w, i, pd)
<1>1. /\ Sound(st) /\ P!Misses(st.mshrQueue, st.order) /\ PW!WriteInv(w)
      /\ st.order \in Nat
  BY DEF Stored, Sound
<1>2. PW!WriteInv(new) /\ PW!Fewer1(w, new)
  <2>1. new = PW!MSHRQueue_markInService(w, i, pd) /\ i \in PW!Held(w)
    BY SameMarkWrite
  <2> HIDE DEF w, new
  <2> QED BY ONLY <1>1, <2>1, Sizes, PW!WritesMark
<1> HIDE DEF new
<1>3. /\ w.allocated > 0 /\ new.allocated = w.allocated - 1
      /\ PW!Times(new) \subseteq PW!Times(w)
  BY <1>2 DEF PW!Fewer1
<1>4. /\ w.allocated \in Nat /\ new.allocated \in Nat
      /\ MQ!isFull(w) <=> w.allocated >= WriteBuffers
      /\ MQ!isFull(new) <=> new.allocated >= WriteBuffers
  <2>1. w.allocated \in Nat /\ (MQ!isFull(w) <=> w.allocated >= WriteBuffers)
    BY <1>1, WriteFacts
  <2>2. new.allocated \in Nat /\ (MQ!isFull(new) <=> new.allocated >= WriteBuffers)
    BY <1>2, WriteFacts
  <2> QED BY <2>1, <2>2
<1>5. Released(r, st, n, new)
  <2>1. n \in Kinds /\ Queue(st, n) = w
    BY DEF Kinds, Queue
  <2>2. Blocking!num_entries(n) = WriteBuffers
    <3>1. View(st).allocated[n] \in Nat
      BY <1>4, <2>1, ViewCounts
    <3> QED BY <2>1, <3>1, FullSizes
  <2>3. r = Release(st, n, new)
    BY <2>1, MarkFacts DEF new
  <2>4. /\ Queue(st, n).allocated \in Nat /\ new.allocated \in Nat
        /\ MQ!isFull(Queue(st, n)) <=> Queue(st, n).allocated >= Blocking!num_entries(n)
        /\ MQ!isFull(new) <=> new.allocated >= Blocking!num_entries(n)
    BY <1>4, <2>1, <2>2
  <2> HIDE DEF n, w
  <2> QED BY ONLY <1>1, <2>1, <2>3, <2>4, ReleaseFacts
<1>6. /\ Sound(r) /\ r.writeBuffer = new /\ r.mshrQueue = st.mshrQueue
      /\ r.order = st.order /\ r.noTargetMSHR = st.noTargetMSHR
      /\ r.tags = st.tags /\ r.pfq = st.pfq /\ SameTiming(r, st)
      /\ View(r) = Blocking!deallocate(View(st), n)
      /\ r.answer = st.answer /\ r.owed = st.owed
  <2>1. new.allocated = Queue(st, n).allocated - 1
    BY <1>3 DEF Queue
  <2> QED BY <1>5, <2>1 DEF Released, Placed, SameRest, Queue, Kinds
<1>7. Stored(r)
  <2>1. Fits(new.allocated, st.mshrQueue.allocated, P!deferring(st.mshrQueue), Len(st.pfq))
    <3> DEFINE x == w.allocated
               d == P!deferring(st.mshrQueue)
               p == Len(st.pfq)
               o == st.mshrQueue.allocated
    <3>1. x \in Nat /\ d \in Nat /\ p \in Nat /\ o \in Nat /\ x > 0
      BY <1>1, <1>3, <1>4, MissFacts DEF Sound, Prefetcher
    <3>2. Fits(x, o, d, p)
      BY DEF Stored
    <3>3. new.allocated = x - 1
      BY <1>3
    <3> HIDE DEF x, d, p, o
    <3>4. Fits(x - 1, o, d, p)
      BY ONLY <3>1, <3>2, Sizes DEF Fits
    <3> QED BY <3>3, <3>4 DEF o, d, p
  <2> QED BY <1>2, <1>6, <2>1 DEF Stored
<1>8. Tracked(st) => Tracked(r)
  BY <1>6, TrackedSame
<1> QED BY <1>3, <1>6, <1>7, <1>8

LEMMA SendWriteOK ==
    ASSUME NEW st, Stored(st), NEW i \in PW!Held(st.writeBuffer),
           NEW r, r = SendWrite(st, i)
    PROVE  /\ Stored(r) /\ SameTiming(r, st) /\ st.writeBuffer.allocated > 0
           /\ View(r) = Blocking!deallocate(View(st), "WriteBuffer")
           /\ Tracked(st) => Tracked(r)
<1>1. Sound(st) /\ Prefetcher(st)
  BY DEF Stored, Sound
<1>2. PICK x, pd : /\ SameButTags(x, st) /\ x.tags = st.tags /\ SameBook(x, st)
                   /\ r = markInService(x, "WriteBuffer", i, pd)
  BY <1>1, SendWriteFacts
<1>3. Sound(x) /\ View(x) = View(st)
  <2>1. x.tags = [a \in Addrs |-> x.tags[a]]
    BY <1>1, <1>2 DEF Sound
  <2> QED BY <1>1, <1>2, <2>1, SameTags
<1>4. /\ x.mshrQueue = st.mshrQueue /\ x.writeBuffer = st.writeBuffer
      /\ x.order = st.order /\ x.noTargetMSHR = st.noTargetMSHR /\ x.pfq = st.pfq
      /\ SameTiming(x, st) /\ Emptier(x, st)
  BY <1>2 DEF SameButTags, SameBlocking, Emptier
<1>5. Stored(x)
  <2>1. Len(x.pfq) <= Len(st.pfq)
    BY <1>1, <1>4 DEF Prefetcher
  <2> QED BY <1>3, <1>4, <2>1, StoredKept
<1>6. /\ Stored(r) /\ SameTiming(r, x) /\ x.writeBuffer.allocated > 0
      /\ View(r) = Blocking!deallocate(View(x), "WriteBuffer")
      /\ Tracked(x) => Tracked(r)
  BY <1>2, <1>4, <1>5, MarkWriteOK
<1>7. Tracked(st) => Tracked(x)
  BY <1>2, <1>4, TrackedSame DEF SameBook
<1> QED BY <1>3, <1>4, <1>6, <1>7 DEF SameTiming

(* The event of the request queue, or a retry of the bus.                  *)
LEMMA SentOK ==
    ASSUME NEW st, Stored(st), ~st.waitingOnRetry, st.sendEvent = {},
           NEW taken \in BOOLEAN, NEW ans, NEW r, r = sendDeferredPacket(st, taken, ans)
    PROVE  /\ Inv(r)
           /\ \/ View(r) = View(st)
              \/ /\ View(r) = Blocking!allocateBufferInternal(View(st), "MSHRs")
                 /\ MQ!canPrefetch(st.mshrQueue)
              \/ /\ View(r) = Blocking!deallocate(View(st), "WriteBuffer")
                 /\ st.writeBuffer.allocated > 0
           /\ Tracked(st) /\ PossibleAnswer(st, ans) => Tracked(r)
<1> DEFINE p == IF CanIssuePrefetch(st) THEN IssuePrefetch(st) ELSE st
           n == NextQueued(p)
           m == IF n.queue = "MSHRs" THEN p.mshrQueue.registers[n.i]
                                     ELSE p.writeBuffer.registers[n.i]
           b == hasAddr(p, m.blkAddr)
           when == Head(p.snoopRespQueue).tick
           t == IF n.queue = "MSHRs" THEN SendMiss(p, n.i, ans) ELSE SendWrite(p, n.i)
<1>1. r = CASE n = None -> Reschedule(p)
            [] n # None /\ b -> schedSendEvent(p, when)
            [] n # None /\ ~b /\ ~taken -> [p EXCEPT !.waitingOnRetry = TRUE]
            [] n # None /\ ~b /\ taken -> Reschedule(t)
  BY Zenon DEF sendDeferredPacket
<1>2. /\ Stored(p) /\ SameTiming(p, st) /\ (Tracked(st) => Tracked(p))
      /\ \/ p = st
         \/ View(p) = View(st) /\ n = None
         \/ /\ View(p) = Blocking!allocateBufferInternal(View(st), "MSHRs")
            /\ n.queue # "WriteBuffer" /\ MQ!canPrefetch(st.mshrQueue)
  <2>1. CASE CanIssuePrefetch(st)
    <3>1. NextQueued(st) = None /\ MQ!canPrefetch(st.mshrQueue) /\ st.pfq # <<>>
      BY <2>1 DEF CanIssuePrefetch
    <3>2. p = IssuePrefetch(st)
      BY <2>1
    <3> HIDE DEF p
    <3> QED BY <3>1, <3>2, IssueOK
  <2>2. CASE ~CanIssuePrefetch(st)
    <3>1. p = st
      BY <2>2
    <3> HIDE DEF p
    <3> QED BY <3>1 DEF SameTiming
  <2> QED BY <2>1, <2>2
<1>3. \/ n = None
      \/ \E i \in P!Elements(p.mshrQueue.readyList) : n = MissEntry(i)
      \/ \E i \in PW!Held(p.writeBuffer) : n = WriteEntry(i)
  BY <1>2, NextCases
<1>10. PossibleAnswer(st, ans) /\ n.queue = "MSHRs" =>
          ans \in Answers(p.mshrQueue.registers[n.i].targets.needsExclusive)
  BY Zenon DEF PossibleAnswer
<1>11. b => DOMAIN p.snoopRespQueue # {}
  BY DEF hasAddr
<1> HIDE DEF p, n, b, m
<1>4. /\ Sound(p) /\ IsCache(p) /\ Timed(p) /\ Prefetcher(p)
      /\ p.sendEvent = {} /\ ~p.waitingOnRetry
  BY <1>2 DEF Stored, Sound, SameTiming
<1>5. /\ P!Misses(p.mshrQueue, p.order) /\ PW!WriteInv(p.writeBuffer)
      /\ P!Times(p.mshrQueue) \cup PW!Times(p.writeBuffer) \subseteq Nat
  BY <1>2, MissFacts, WriteFacts DEF Stored
<1>6. CASE n = None
  <2>1. r = Reschedule(p)
    BY <1>1, <1>6, Zenon
  <2>2. Inv(r) /\ View(r) = View(p) /\ (Tracked(p) => Tracked(r))
    BY <1>2, <2>1, RescheduleOK
  <2> QED BY <1>2, <2>2
<1>7. CASE n # None /\ b
  <2>1. r = schedSendEvent(p, when)
    BY <1>1, <1>7, Zenon
  <2>7. when \in Nat /\ Delays(p.snoopRespQueue, when)
    <3>1. p.snoopRespQueue \in Seq(Planned) /\ p.snoopRespQueue # <<>>
      BY <1>4, <1>7, <1>11 DEF Timed, Answering
    <3>2. Head(p.snoopRespQueue) \in Planned
      BY <3>1
    <3>3. when \in Nat
      BY <3>2 DEF Planned
    <3>4. when <= Head(p.snoopRespQueue).tick
      BY <3>3
    <3> QED BY <3>1, <3>3, <3>4 DEF Delays
  <2> HIDE DEF when
  <2>2. /\ IsCache(r) /\ SameBlocking(r, p) /\ SameQueues(r, p)
        /\ Timed(r) /\ Awake(r)
        /\ \A x \in Nat : Soon(r, x)
    BY ONLY <1>4, <2>1, <2>7, SchedTime
  <2>3. /\ Sound(r) /\ View(r) = View(p) /\ Emptier(r, p)
        /\ r.mshrQueue = p.mshrQueue /\ r.writeBuffer = p.writeBuffer
        /\ r.order = p.order /\ r.noTargetMSHR = p.noTargetMSHR /\ r.pfq = p.pfq
    <3>1. SameBlocking(r, p) /\ r.mshrQueue = p.mshrQueue /\ r.writeBuffer = p.writeBuffer
      BY <2>2 DEF SameQueues
    <3>2. View(r) = View(p)
      BY <3>1, SameView
    <3> QED BY <1>4, <2>2, <3>2 DEF Sound, SameQueues, SameBlocking, Emptier, Prefetcher
  <2>4. Stored(r)
    <3>1. Len(r.pfq) <= Len(p.pfq)
      BY <1>4, <2>3 DEF Prefetcher
    <3> QED BY <1>2, <2>3, <3>1, StoredKept
  <2>5. Scheduled(r)
    BY <1>5, <2>2, <2>3 DEF Scheduled
  <2>6. Tracked(p) => Tracked(r)
    BY <2>2, TrackedSame DEF SameQueues
  <2> QED BY <1>2, <2>3, <2>4, <2>5, <2>6 DEF Inv
<1>8. CASE n # None /\ ~b /\ ~taken
  <2> DEFINE yes == TRUE
  <2>1. r = [p EXCEPT !.waitingOnRetry = yes]
    BY <1>1, <1>8, Zenon
  <2>2. r.waitingOnRetry
    BY <1>4, <2>1 DEF IsCache
  <2> HIDE DEF yes
  <2>3. /\ IsCache(r) /\ SameBlocking(r, p) /\ SameQueues(r, p) /\ r.sendEvent = p.sendEvent
        /\ r.payload = p.payload /\ r.snoopRespQueue = p.snoopRespQueue
    BY <1>4, <2>1 DEF IsCache, SameBlocking, SameQueues
  <2>4. /\ Sound(r) /\ View(r) = View(p) /\ Emptier(r, p)
        /\ r.mshrQueue = p.mshrQueue /\ r.writeBuffer = p.writeBuffer
        /\ r.order = p.order /\ r.noTargetMSHR = p.noTargetMSHR /\ r.pfq = p.pfq
    <3>1. SameBlocking(r, p) /\ r.mshrQueue = p.mshrQueue /\ r.writeBuffer = p.writeBuffer
      BY <2>3 DEF SameQueues
    <3>2. View(r) = View(p)
      BY <3>1, SameView
    <3>3. Timed(r)
      BY <1>4, <2>3 DEF Timed
    <3> QED BY <1>4, <2>3, <3>2, <3>3 DEF Sound, SameQueues, SameBlocking, Emptier, Prefetcher
  <2>5. Stored(r)
    <3>1. Len(r.pfq) <= Len(p.pfq)
      BY <1>4, <2>4 DEF Prefetcher
    <3> QED BY <1>2, <2>4, <3>1, StoredKept
  <2>6. Scheduled(r)
    BY <2>2 DEF Scheduled, Soon, Awake
  <2>7. Tracked(p) => Tracked(r)
    BY <2>3, TrackedSame DEF SameQueues
  <2> QED BY <1>2, <2>4, <2>5, <2>6, <2>7 DEF Inv
<1>9. CASE n # None /\ ~b /\ taken
  <2>1. r = Reschedule(t)
    BY <1>1, <1>9, Zenon
  <2>2. CASE \E i \in P!Elements(p.mshrQueue.readyList) : n = MissEntry(i)
    <3>1. PICK i \in P!Elements(p.mshrQueue.readyList) : n = MissEntry(i)
      BY <2>2
    <3>2. t = SendMiss(p, i, ans)
      BY <3>1, EntryKinds, Zenon
    <3> HIDE DEF t
    <3>5. n.queue = "MSHRs" /\ n.i = i
      BY <3>1, EntryKinds
    <3>3. /\ Stored(t) /\ View(t) = View(p)
          /\ Tracked(st) /\ PossibleAnswer(st, ans) => Tracked(t)
      BY <1>2, <1>10, <3>2, <3>5, SendMissOK
    <3>4. Inv(r) /\ View(r) = View(t) /\ (Tracked(t) => Tracked(r))
      BY <2>1, <3>3, RescheduleOK
    <3> QED BY <1>2, <3>3, <3>4
  <2>3. CASE \E i \in PW!Held(p.writeBuffer) : n = WriteEntry(i)
    <3>1. PICK i \in PW!Held(p.writeBuffer) : n = WriteEntry(i)
      BY <2>3
    <3>2. n.queue = "WriteBuffer" /\ n.i = i
      BY <3>1, EntryKinds
    <3>3. t = SendWrite(p, i)
      BY <3>2
    <3> HIDE DEF t
    <3>4. /\ Stored(t) /\ p.writeBuffer.allocated > 0
          /\ View(t) = Blocking!deallocate(View(p), "WriteBuffer")
          /\ Tracked(p) => Tracked(t)
      BY <1>2, <3>3, SendWriteOK
    <3>5. Inv(r) /\ View(r) = View(t) /\ (Tracked(t) => Tracked(r))
      BY <2>1, <3>4, RescheduleOK
    <3>6. p = st
      BY <1>2, <1>9, <3>2
    <3> QED BY <3>4, <3>5, <3>6
  <2> QED BY <1>3, <1>9, <2>2, <2>3, Zenon
<1> QED BY <1>6, <1>7, <1>8, <1>9


-----------------------------------------------------------------------------
(* A response.  The reserve of the write buffer is ample when it has room  *)
(* for the writebacks of all responses that can arrive while the cache is  *)
(* blocked; it is 1000 in the code.                                        *)
AmpleReserve == Mshrs + QueueSize < ExtraWriteReserve

LEMMA WritebackOK ==
    ASSUME NEW st, Inv(st), NEW b \in Addrs, NEW lat \in Nat,
           st.writeBuffer.allocated < WriteBuffers + Mshrs + ExtraWriteReserve - 1,
           Fits(st.writeBuffer.allocated + 1, st.mshrQueue.allocated,
                P!deferring(st.mshrQueue), Len(st.pfq)),
           NEW r, r = WriteBack(st, b, lat)
    PROVE  /\ Inv(r)
           /\ View(r) = Blocking!allocateBufferInternal(View(st), "WriteBuffer")
           /\ Tracked(st) => Tracked(r)
<1> DEFINE w == st.writeBuffer
           n == "WriteBuffer"
           new == MQ!MSHRQueue_allocate(w, b, "Writeback", lat, st.order)
<1>1. /\ Sound(st) /\ P!Misses(st.mshrQueue, st.order) /\ PW!WriteInv(w) /\ st.order \in Nat
      /\ Stored(st) /\ Scheduled(st)
  BY Zenon DEF Inv, Stored, Sound
<1>2. w.allocated \in Nat /\ w.allocated < PW!N
  <2>1. w.allocated \in Nat /\ w.allocated < WriteBuffers + Mshrs + ExtraWriteReserve - 1
    BY <1>1, WriteFacts
  <2> HIDE DEF w
  <2> QED BY ONLY <2>1, Sizes DEF PW!N
<1>3. PW!WriteInv(new) /\ PW!More1(w, new, lat)
  <2>1. new = PW!MSHRQueue_allocate(w, b, "Writeback", lat, st.order)
    BY SameAllocateWrite
  <2>2. b \in Addrs /\ lat \in Nat
    OBVIOUS
  <2> HIDE DEF w, new
  <2> QED BY ONLY <1>1, <1>2, <2>1, <2>2, Sizes, PW!WritesAllocate
<1> HIDE DEF new
<1>4. /\ new.allocated = w.allocated + 1 /\ PW!Times(new) \subseteq PW!Times(w) \cup {lat}
      /\ MQ!isFull(new) <=> new.allocated >= WriteBuffers
  BY <1>3, WriteFacts DEF PW!More1
<1>5. Entered(r, st, n, new) /\ Awake(r) /\ Soon(r, lat)
  <2>1. n \in Kinds /\ Queue(st, n) = w
    BY DEF Kinds, Queue
  <2>2. /\ Blocking!num_entries(n) = WriteBuffers
        /\ Blocking!numEntries(n) = WriteBuffers + Mshrs + ExtraWriteReserve - 1
    <3>1. View(st).allocated[n] \in Nat
      BY <1>2, <2>1, ViewCounts
    <3> QED BY <2>1, <3>1, FullSizes
  <2>3. /\ Queue(st, n).allocated \in Nat /\ new.allocated = Queue(st, n).allocated + 1
        /\ Queue(st, n).allocated < Blocking!numEntries(n)
        /\ MQ!isFull(new) <=> new.allocated >= Blocking!num_entries(n)
    BY <1>2, <1>4, <2>1, <2>2
  <2>4. new = MQ!MSHRQueue_allocate(Queue(st, n), b, "Writeback", lat, st.order)
    BY <2>1 DEF new
  <2>5. r = Asked(st, n, b, "Writeback", lat) /\ lat \in Nat
    BY Zenon DEF WriteBack, Asked
  <2> HIDE DEF n, w
  <2>6. /\ Entered(Asked(st, n, b, "Writeback", lat), st, n, new)
        /\ Awake(Asked(st, n, b, "Writeback", lat))
        /\ Soon(Asked(st, n, b, "Writeback", lat), lat)
    BY ONLY <1>1, <2>1, <2>3, <2>4, <2>5, BufferFacts
  <2> QED BY <2>5, <2>6
<1>6. /\ Sound(r) /\ r.writeBuffer = new /\ r.mshrQueue = st.mshrQueue
      /\ r.order = st.order + 1 /\ r.noTargetMSHR = st.noTargetMSHR
      /\ r.tags = st.tags /\ r.pfq = st.pfq /\ Keeps(r, st)
      /\ View(r) = Blocking!allocateBufferInternal(View(st), n)
      /\ r.answer = st.answer /\ r.owed = st.owed
  BY <1>5 DEF Entered, Placed, SameRest, Queue, Kinds
<1>7. P!Misses(st.mshrQueue, st.order + 1)
  BY ONLY <1>1, Sizes, P!LaterMisses
<1>8. Stored(r)
  BY <1>1, <1>3, <1>4, <1>6, <1>7 DEF Stored
<1>9. Scheduled(r)
  <2>1. P!Times(st.mshrQueue) \cup PW!Times(w) \subseteq Nat
    BY <1>1, MissFacts, WriteFacts
  <2>2. \A x \in P!Times(st.mshrQueue) \cup PW!Times(w) : Soon(r, x)
    BY <1>1, <1>6, <2>1 DEF Scheduled, Keeps
  <2>3. \A x \in P!Times(st.mshrQueue) \cup PW!Times(new) : Soon(r, x)
    BY <1>4, <1>5, <2>2
  <2> QED BY <1>5, <1>6, <2>3 DEF Scheduled
<1>10. Tracked(st) => Tracked(r)
  BY <1>6, TrackedSame
<1> QED BY <1>6, <1>8, <1>9, <1>10 DEF Inv

(* The snoops that the targets of a filled MSHR answer are counted.        *)
LEMMA SuppliedNat ==
    ASSUME NEW st, Stored(st), NEW i \in P!Ids, Unblocked(st, i).mshrQueue = st.mshrQueue
    PROVE  Serving(st, i).supplied \in Nat
<1> DEFINE q == st.mshrQueue
           m == q.registers[i]
           shared == st.answer[m.blkAddr] = "Shared"
           l == FilledQueue(st, i).registers[i].targets.list
<1>1. q \in P!QueueOf(P!Registers(P!Blocks))
  BY MissFacts DEF Stored, P!Base
<1>2. /\ m \in P!Registers(P!Blocks) /\ q.registers = [j \in P!Ids |-> q.registers[j]]
      /\ q = [q EXCEPT !.failed = q.failed]
  BY <1>1 DEF P!QueueOf
<1>3. FilledQueue(st, i) = MQ!Filled(q, i, TRUE, shared)
  BY Zenon DEF FilledQueue
<1>4. FilledQueue(st, i).registers[i] = MQ!MSHR_handleFill(m, shared)
  <2> DEFINE c == q.failed \/ ~((TRUE /\ MQ!FillTakesDeferred(m, shared))
                                    => ~m.targets.needsExclusive)
             h == MQ!MSHR_handleFill(m, shared)
  <2>1. FilledQueue(st, i) = [[q EXCEPT !.failed = c] EXCEPT !.registers[i] = h]
    BY <1>1, <1>3 DEF MQ!Filled, MQ!Check, P!QueueOf
  <2> HIDE DEF c, h, shared
  <2>2. [q EXCEPT !.failed = c].registers = q.registers
    BY <1>1 DEF P!QueueOf
  <2>3. FilledQueue(st, i).registers = [q.registers EXCEPT ![i] = h]
    BY <1>1, <2>1, <2>2 DEF P!QueueOf
  <2> QED BY <1>2, <2>3 DEF h
<1> HIDE DEF shared
<1>5. /\ m.targets.list \in Seq(P!Targets) /\ m.deferredTargets.list \in Seq(P!Targets)
      /\ m.targets = [list |-> m.targets.list, needsExclusive |-> m.targets.needsExclusive,
                      hasUpgrade |-> m.targets.hasUpgrade]
  <2> HIDE DEF m
  <2> QED BY <1>2 DEF P!Registers, P!TargetLists
<1>6. l \in {m.targets.list, m.targets.list \o m.deferredTargets.list}
  <2>1. CASE MQ!FillTakesDeferred(m, shared)
    BY <1>2, <1>4, <1>5, <2>1, Zenon DEF MQ!MSHR_handleFill, P!Registers
  <2>2. CASE ~MQ!FillTakesDeferred(m, shared)
    BY <1>4, <2>2 DEF MQ!MSHR_handleFill
  <2> QED BY <2>1, <2>2, Zenon
<1> HIDE DEF l, m
<1>7. l \in Seq(P!Targets)
  <2>1. m.targets.list \o m.deferredTargets.list \in Seq(P!Targets)
    BY ONLY <1>5, ConcatProperties
  <2> QED BY <1>5, <1>6, <2>1, Zenon
<1> QED BY <1>7, SuppliedCount DEF Serving, l

(* The MSHR is answered, and the event is scheduled for what is left.      *)
LEMMA AnsweredOK ==
    ASSUME NEW st, Inv(st), NEW i \in P!Ids, st.mshrQueue.registers[i].inService,
           NEW v \in Victims(st), NEW lat, NEW supply \in Nat, NEW payload \in Nat,
           NEW r, r = recvTimingResp(st, i, v, lat, supply, payload)
    PROVE  \E k : /\ Inv(k) /\ k.pfq = st.pfq /\ k.writeBuffer = st.writeBuffer
                  /\ k.mshrQueue.allocated + P!deferring(k.mshrQueue) + 1
                       <= st.mshrQueue.allocated + P!deferring(st.mshrQueue)
                  /\ k.mshrQueue.allocated <= st.mshrQueue.allocated
                  /\ st.mshrQueue.allocated > 0 /\ i \in P!Held(st.mshrQueue)
                  /\ View(k) = LET u == View(Unblocked(st, i))
                               IN  IF Again(st, i) THEN u ELSE Blocking!deallocate(u, "MSHRs")
                  /\ r = k \/ \E b \in Addrs : r = WriteBack(k, b, lat)
                  /\ Tracked(st) => Tracked(k)
<1> DEFINE q == st.mshrQueue
           n == "MSHRs"
           a == q.registers[i].blkAddr
           u == Unblocked(st, i)
           f == FilledQueue(st, i)
           t == MQ!Answered(f, i)
<1>1. /\ Sound(st) /\ P!Misses(q, st.order) /\ PW!WriteInv(st.writeBuffer) /\ st.order \in Nat
      /\ Stored(st) /\ Scheduled(st)
  BY Zenon DEF Inv, Stored, Sound
<1>2. /\ Sound(u) /\ SameQueues(u, st) /\ SameTiming(u, st) /\ Keeps(u, st)
      /\ st.noTargetMSHR = i => u.noTargetMSHR = 0
      /\ st.noTargetMSHR # i => u = st
  <2>1. u = Unblocked(st, i)
    OBVIOUS
  <2> HIDE DEF u
  <2> QED BY ONLY <1>1, <2>1, UnblockedFacts
<1>3. /\ u.mshrQueue = q /\ u.writeBuffer = st.writeBuffer /\ u.order = st.order
      /\ u.tags = st.tags /\ u.pfq = st.pfq /\ u.answer = st.answer /\ u.owed = st.owed
  BY <1>2 DEF SameQueues
<1>4. /\ P!Misses(t, st.order) /\ i \in P!Held(q)
      /\ P!Prefetches(t) \subseteq P!Prefetches(q) \ {a}
      /\ P!Defers(f.registers[i]) =>
            /\ t.allocated = q.allocated /\ P!Held(t) = P!Held(q)
            /\ P!deferring(t) + 1 <= P!deferring(q)
      /\ ~P!Defers(f.registers[i]) =>
            /\ P!Fewer1(q, t) /\ P!Held(t) = P!Held(q) \ {i}
            /\ P!deferring(t) <= P!deferring(q)
  <2> DEFINE shared == st.answer[a] = "Shared"
  <2>1. P!Responds(q, i, shared, f, t)
    <3>1. f = MQ!Filled(q, i, TRUE, shared)
      BY <1>3, Zenon DEF FilledQueue
    <3>2. f = P!Filled(q, i, TRUE, shared) /\ t = P!Answered(f, i)
      BY <3>1, SameFill, SameAnswer, Zenon
    <3> HIDE DEF f, t
    <3> QED BY <3>2 DEF P!Responds
  <2>2. shared \in BOOLEAN /\ i \in P!Ids /\ q.registers[i].inService
    OBVIOUS
  <2> HIDE DEF q, f, t, shared, a
  <2>3. P!Misses(t, st.order) /\ i \in P!Held(q) /\ P!Served(q, f, t, i)
    BY ONLY <1>1, <2>1, <2>2, Sizes, P!MissesRespond
  <2> QED BY <2>3 DEF P!Served, a
<1>5. P!Defers(f.registers[i]) <=> Again(st, i)
  BY DEF P!Defers, Again
<1>6. a \in Addrs /\ q.allocated > 0
  BY <1>1, <1>4, MissFacts
<1>7. PICK z : /\ Refilled(z, u, a) /\ Finish(z, st, i, r, lat, payload)
               /\ Booked(z, u, a, Remains(st, i), "none", u.owed[a] - Serving(st, i).supplied)
  <2>1. a = st.mshrQueue.registers[i].blkAddr /\ u = Unblocked(st, i)
    OBVIOUS
  <2>2. /\ v \in Victims(st) /\ supply \in Nat
        /\ r = recvTimingResp(st, i, v, lat, supply, payload)
    OBVIOUS
  <2>3. Serving(st, i).supplied \in Nat
    BY <1>1, <1>3, SuppliedNat
  <2> HIDE DEF a, u
  <2> QED BY ONLY <1>2, <1>6, <2>1, <2>2, <2>3, RespondCases
<1> HIDE DEF a, u, f
<1>8. Sound(z) /\ View(z) = View(u) /\ Keeps(z, u)
  BY <1>2, <1>7, SameTags DEF Refilled
<1>9. /\ z.mshrQueue = q /\ z.writeBuffer = st.writeBuffer /\ z.order = st.order
      /\ z.pfq = st.pfq /\ z.noTargetMSHR = u.noTargetMSHR
  BY <1>3, <1>7 DEF Refilled, SameButTags, SameBlocking
<1> DEFINE g == Release(z, n, t)
           again == Again(st, i)
           k == AskAgain(g, again, payload)
<1>10. r = k \/ \E b \in Addrs : r = WriteBack(k, b, lat)
  BY <1>7, Zenon DEF Finish, Given, f
<1> HIDE DEF t
<1>11. /\ q.allocated \in Nat /\ P!deferring(q) \in Nat /\ P!deferring(t) \in Nat
       /\ t.allocated \in Nat /\ P!Times(q) \subseteq Nat /\ P!Times(t) \subseteq Nat
       /\ MQ!isFull(q) <=> q.allocated >= Mshrs
       /\ MQ!isFull(t) <=> t.allocated >= Mshrs
  <2>1. /\ q.allocated \in Nat /\ P!deferring(q) \in Nat /\ P!Times(q) \subseteq Nat
        /\ MQ!isFull(q) <=> q.allocated >= Mshrs
    BY <1>1, MissFacts
  <2>2. /\ t.allocated \in Nat /\ P!deferring(t) \in Nat /\ P!Times(t) \subseteq Nat
        /\ MQ!isFull(t) <=> t.allocated >= Mshrs
    BY <1>4, MissFacts
  <2> QED BY <2>1, <2>2
<1>12. Released(g, z, n, t)
  <2>1. n \in Kinds /\ Queue(z, n) = q
    BY <1>9 DEF Kinds, Queue
  <2>2. Blocking!num_entries(n) = Mshrs
    <3>1. View(z).allocated[n] \in Nat
      BY <1>11, <2>1, ViewCounts
    <3> QED BY <2>1, <3>1, FullSizes
  <2>3. /\ Queue(z, n).allocated \in Nat /\ t.allocated \in Nat
        /\ MQ!isFull(Queue(z, n)) <=> Queue(z, n).allocated >= Blocking!num_entries(n)
        /\ MQ!isFull(t) <=> t.allocated >= Blocking!num_entries(n)
    BY <1>11, <2>1, <2>2
  <2>4. g = Release(z, n, t)
    OBVIOUS
  <2> HIDE DEF n, q, g
  <2> QED BY ONLY <1>8, <2>1, <2>3, <2>4, ReleaseFacts
<1>13. /\ again => t.allocated = q.allocated
       /\ ~again => t.allocated = q.allocated - 1
  BY <1>4, <1>5 DEF P!Fewer1
<1> HIDE DEF g
<1>14. /\ Sound(g) /\ g.mshrQueue = t /\ g.writeBuffer = st.writeBuffer
       /\ g.order = st.order /\ g.noTargetMSHR = u.noTargetMSHR
       /\ g.tags = z.tags /\ g.pfq = st.pfq /\ Keeps(g, z) /\ SameBook(g, z)
       /\ again => View(g) = View(u)
       /\ ~again => View(g) = Blocking!deallocate(View(u), n)
  <2>1. Queue(z, n) = q
    BY <1>9 DEF Queue
  <2>2. /\ again => View(g) = View(z)
        /\ ~again => View(g) = Blocking!deallocate(View(z), n)
    BY <1>12, <1>13, <2>1 DEF Released
  <2> QED BY <1>8, <1>9, <1>12, <2>2 DEF Released, Placed, SameRest, Queue, Kinds,
                                                SameBook
<1>15. again \in BOOLEAN
  BY DEF Again
<1> HIDE DEF again
<1>16. /\ Sound(k) /\ SameBlocking(k, g) /\ SameQueues(k, g) /\ Keeps(k, g)
       /\ View(k) = View(g)
       /\ again => \A x \in Nat : Soon(k, x)
       /\ MQ!canPrefetch(g.mshrQueue) /\ g.pfq # <<>> => Awake(k)
  <2>1. k = AskAgain(g, again, payload) /\ payload \in Nat
    OBVIOUS
  <2> HIDE DEF k
  <2> QED BY ONLY <1>14, <1>15, <2>1, AskAgainFacts
<1> HIDE DEF k
<1>17. /\ k.mshrQueue = t /\ k.writeBuffer = st.writeBuffer /\ k.order = st.order
       /\ k.noTargetMSHR = u.noTargetMSHR /\ k.tags = z.tags /\ k.pfq = st.pfq
       /\ SameBook(k, z)
  BY <1>14, <1>16 DEF SameQueues, SameBlocking, SameBook
<1>18. /\ t.allocated + P!deferring(t) + 1 <= q.allocated + P!deferring(q)
       /\ t.allocated <= q.allocated
  <2> DEFINE d == P!deferring(q)
             e == P!deferring(t)
             x == q.allocated
             y == t.allocated
  <2>1. /\ d \in Nat /\ e \in Nat /\ x \in Nat /\ y \in Nat
        /\ (y = x /\ e + 1 <= d) \/ (y = x - 1 /\ e <= d)
    <3>1. d \in Nat /\ e \in Nat /\ x \in Nat /\ y \in Nat
      BY <1>11
    <3>2. CASE again
      <4>1. y = x /\ e + 1 <= d
        BY <1>4, <1>5, <3>2 DEF again
      <4> QED BY <3>1, <4>1
    <3>3. CASE ~again
      <4>1. y = x - 1 /\ e <= d
        BY <1>4, <1>5, <1>13, <3>3 DEF again
      <4> QED BY <3>1, <4>1
    <3> QED BY <3>2, <3>3
  <2> HIDE DEF d, e, x, y
  <2>2. y + e + 1 <= x + d /\ y <= x
    BY ONLY <2>1
  <2> QED BY <2>2 DEF d, e, x, y
<1>19. Stored(k)
  <2>1. k.noTargetMSHR = 0 \/ k.noTargetMSHR \in P!Held(t)
    BY <1>1, <1>2, <1>4, <1>17 DEF Stored
  <2>2. \A b \in P!Prefetches(t) : k.tags[b] = {}
    <3>1. \A b \in P!Prefetches(q) : b \in Addrs /\ st.tags[b] = {}
      BY <1>1, MissFacts DEF P!Prefetches, P!Prefetching, Stored
    <3> QED BY <1>3, <1>4, <1>7, <1>17, <3>1 DEF Refilled
  <2>3. Fits(k.writeBuffer.allocated, t.allocated, P!deferring(t), Len(k.pfq))
    <3> DEFINE w == st.writeBuffer.allocated
               d == P!deferring(q)
               e == P!deferring(t)
               p == Len(st.pfq)
               x == q.allocated
               y == t.allocated
    <3>1. /\ w \in Nat /\ d \in Nat /\ e \in Nat /\ p \in Nat /\ x \in Nat /\ y \in Nat
          /\ y + e + 1 <= x + d
      BY <1>1, <1>11, <1>18, WriteFacts DEF Sound, Prefetcher
    <3>2. Fits(w, x, d, p)
      BY <1>1 DEF Stored
    <3> HIDE DEF w, d, e, p, x, y
    <3>3. Fits(w, y, e, p)
      BY ONLY <3>1, <3>2, Sizes DEF Fits
    <3> QED BY <1>17, <3>3 DEF w, e, p, y
  <2> QED BY <1>1, <1>4, <1>16, <1>17, <2>1, <2>2, <2>3 DEF Stored
<1>20. Scheduled(k)
  <2>1. \A x \in P!Times(t) \cup PW!Times(st.writeBuffer) : Soon(k, x)
    <3>1. PW!Times(st.writeBuffer) \subseteq Nat
      BY <1>1, WriteFacts
    <3>2. CASE again
      BY <1>11, <1>16, <3>1, <3>2
    <3>3. CASE ~again
      <4>1. P!Times(t) \subseteq P!Times(q)
        BY <1>4, <1>5, <3>3 DEF P!Fewer1, again
      <4>2. \A x \in P!Times(q) \cup PW!Times(st.writeBuffer) : Soon(st, x) /\ x \in Nat
        BY <1>1, <1>11, <3>1 DEF Scheduled
      <4>3. \A x \in Nat : Soon(st, x) => Soon(k, x)
        BY <1>2, <1>8, <1>14, <1>16 DEF Keeps
      <4> QED BY <4>1, <4>2, <4>3
    <3> QED BY <3>2, <3>3
  <2>2. MQ!canPrefetch(k.mshrQueue) /\ k.pfq # <<>> => Awake(k)
    BY <1>14, <1>16, <1>17
  <2> QED BY <1>17, <2>1, <2>2 DEF Scheduled
<1>21. View(k) = IF Again(st, i) THEN View(u) ELSE Blocking!deallocate(View(u), n)
  BY <1>14, <1>16 DEF again
<1>22. ASSUME Tracked(st)
       PROVE  Tracked(k)
  <2>1. /\ Unblocked(st, i).mshrQueue = st.mshrQueue /\ a = st.mshrQueue.registers[i].blkAddr
        /\ k.mshrQueue = MQ!Answered(FilledQueue(st, i), i)
    BY <1>3, <1>17 DEF u, a, t, f
  <2>2. \A x \in Addrs : x # a => k.tags[x] = st.tags[x] \/ k.tags[x] = {}
    BY <1>3, <1>7, <1>17 DEF Refilled
  <2>3. /\ k.tags[a] = {} \/ k.tags[a] = Remains(st, i)
        /\ Noted(k, st, a, "none", st.owed[a] - Serving(st, i).supplied)
    BY <1>3, <1>7, <1>17 DEF Booked, Noted, SameBook
  <2> QED BY <1>1, <1>6, <1>22, <2>1, <2>2, <2>3, TrackedRespond
<1> QED BY <1>4, <1>6, <1>10, <1>17, <1>18, <1>19, <1>20, <1>21, <1>22 DEF Inv, u

LEMMA ResponseOK ==
    ASSUME AmpleReserve, NEW st, Inv(st), st.mshrQueue.allocated <= Mshrs,
           NEW i \in P!Ids, st.mshrQueue.registers[i].inService,
           NEW v \in Victims(st), NEW lat \in Nat, NEW supply \in Nat, NEW payload \in Nat,
           NEW r, r = recvTimingResp(st, i, v, lat, supply, payload)
    PROVE  /\ Inv(r) /\ i \in P!Held(st.mshrQueue) /\ st.mshrQueue.allocated > 0
           /\ st.writeBuffer.allocated < WriteBuffers + Mshrs + ExtraWriteReserve - 1
           /\ \E again, wb \in BOOLEAN :
                 View(r) = Blocking!Respond(View(Unblocked(st, i)), "MSHRs", again, wb)
           /\ Tracked(st) => Tracked(r)
<1> DEFINE q == st.mshrQueue
           u == View(Unblocked(st, i))
           again == Again(st, i)
           d == IF again THEN u ELSE Blocking!deallocate(u, "MSHRs")
           yes == TRUE
           no == FALSE
<1>1. PICK k : /\ Inv(k) /\ k.pfq = st.pfq /\ k.writeBuffer = st.writeBuffer
               /\ k.mshrQueue.allocated + P!deferring(k.mshrQueue) + 1
                    <= q.allocated + P!deferring(q)
               /\ k.mshrQueue.allocated <= q.allocated
               /\ q.allocated > 0 /\ i \in P!Held(q)
               /\ View(k) = d
               /\ r = k \/ \E b \in Addrs : r = WriteBack(k, b, lat)
               /\ Tracked(st) => Tracked(k)
  BY AnsweredOK
<1>2. again \in BOOLEAN /\ yes \in BOOLEAN /\ no \in BOOLEAN
  BY DEF Again
<1>3. /\ Blocking!Respond(u, "MSHRs", again, no) = d
      /\ Blocking!Respond(u, "MSHRs", again, yes) =
            Blocking!allocateBufferInternal(d, "WriteBuffer")
  <2> HIDE DEF again, u
  <2> QED BY Zenon DEF Blocking!Respond
<1> HIDE DEF again, u, d, yes, no
<1>4. /\ k.writeBuffer.allocated < WriteBuffers + Mshrs + ExtraWriteReserve - 1
      /\ Fits(k.writeBuffer.allocated + 1, k.mshrQueue.allocated,
              P!deferring(k.mshrQueue), Len(k.pfq))
  <2> DEFINE w == st.writeBuffer.allocated
             y == k.mshrQueue.allocated
             e == P!deferring(k.mshrQueue)
             x == q.allocated
             f == P!deferring(q)
             p == Len(st.pfq)
  <2>1. /\ Sound(st) /\ P!Misses(q, st.order) /\ PW!WriteInv(st.writeBuffer)
        /\ P!Misses(k.mshrQueue, k.order)
    BY <1>1 DEF Inv, Stored
  <2>2. w \in Nat /\ x \in Nat /\ f \in Nat /\ f <= x /\ x <= Mshrs
    BY <2>1, MissFacts, WriteFacts
  <2>3. y \in Nat /\ e \in Nat /\ e <= y
    BY <2>1, MissFacts
  <2>4. p \in Nat /\ p <= QueueSize
    BY <2>1 DEF Sound, Prefetcher
  <2>5. Fits(w, x, f, p)
    BY DEF Inv, Stored
  <2>6. y + e + 1 <= x + f /\ y <= x /\ x > 0
    BY <1>1
  <2>7. Len(k.pfq) = p /\ k.writeBuffer.allocated = w
    BY <1>1
  <2> HIDE DEF w, y, e, x, f, p
  <2>8. w < WriteBuffers + Mshrs + ExtraWriteReserve - 1
    BY ONLY <2>2, <2>4, <2>5, <2>6, Sizes, AmpleReserve DEF Fits, AmpleReserve
  <2>9. Fits(w + 1, y, e, p)
    BY ONLY <2>2, <2>3, <2>4, <2>5, <2>6, Sizes DEF Fits
  <2> QED BY <2>7, <2>8, <2>9 DEF y, e
<1>5. CASE r = k
  BY <1>1, <1>2, <1>3, <1>4, <1>5 DEF u
<1>6. CASE \E b \in Addrs : r = WriteBack(k, b, lat)
  <2>1. PICK b \in Addrs : r = WriteBack(k, b, lat)
    BY <1>6
  <2>2. /\ Inv(r)
        /\ View(r) = Blocking!allocateBufferInternal(View(k), "WriteBuffer")
        /\ Tracked(k) => Tracked(r)
    BY <1>1, <1>4, <2>1, WritebackOK
  <2>3. View(r) = Blocking!Respond(u, "MSHRs", again, yes)
    BY <1>1, <1>3, <2>2
  <2> QED BY <1>1, <1>2, <1>4, <2>2, <2>3 DEF u
<1> QED BY <1>1, <1>5, <1>6

-----------------------------------------------------------------------------
(* A snoop of another cache.  First the MSHR of its block.                 *)
LEMMA KeptOK ==
    ASSUME NEW st, Inv(st), NEW i \in P!Held(st.mshrQueue), NEW a \in Addrs,
           NEW cmd \in P!SnoopCommands, NEW r, r = Kept(st, i, a, cmd)
    PROVE  /\ Inv(r) /\ View(r) = View(st)
           /\ Tracked(st) /\ a = st.mshrQueue.registers[i].blkAddr => Tracked(r)
<1> DEFINE q == st.mshrQueue
           new == Snooped(q, i, cmd, st.order)
<1>1. /\ Sound(st) /\ P!Misses(q, st.order) /\ PW!WriteInv(st.writeBuffer) /\ st.order \in Nat
      /\ Stored(st) /\ Scheduled(st)
  BY Zenon DEF Inv, Stored, Sound
<1>2. P!Misses(new, st.order + 1) /\ P!Same(q, new) /\ P!deferring(new) <= P!deferring(q)
  <2>1. new = P!Put(q, i, P!MSHR_handleSnoop(q.registers[i], cmd, st.order).mshr)
    BY SameSnoop DEF P!Put, Snooped
  <2>2. i \in P!Held(q) /\ cmd \in P!SnoopCommands
    OBVIOUS
  <2> HIDE DEF q, new
  <2> QED BY ONLY <1>1, <2>1, <2>2, Sizes, P!MissesSnoop
<1>3. /\ new.allocated = q.allocated /\ P!Held(new) = P!Held(q)
      /\ P!Times(new) \subseteq P!Times(q) /\ P!Prefetches(new) \subseteq P!Prefetches(q)
  BY <1>2 DEF P!Same
<1>4. /\ Sound(r) /\ SameBlocking(r, st) /\ SameTiming(r, st)
      /\ r.mshrQueue = new /\ r.writeBuffer = st.writeBuffer
      /\ r.order = st.order + 1 /\ r.pfq = st.pfq /\ r.tags = st.tags
      /\ View(r) = View(st) /\ r.answer = st.answer /\ Owing(r, st, i, a, cmd)
  <2>1. /\ new = Snooped(st.mshrQueue, i, cmd, st.order)
        /\ new.allocated = st.mshrQueue.allocated /\ r = Kept(st, i, a, cmd)
    BY <1>3
  <2> HIDE DEF new
  <2> QED BY ONLY <1>1, <2>1, KeptFacts
<1> HIDE DEF new
<1>5. Stored(r)
  <2>1. r.noTargetMSHR = 0 \/ r.noTargetMSHR \in P!Held(new)
    BY <1>1, <1>3, <1>4 DEF Stored, SameBlocking
  <2>2. \A b \in P!Prefetches(new) : r.tags[b] = {}
    BY <1>1, <1>3, <1>4 DEF Stored
  <2>3. Fits(r.writeBuffer.allocated, new.allocated, P!deferring(new), Len(r.pfq))
    <3> DEFINE w == st.writeBuffer.allocated
               d == P!deferring(q)
               e == P!deferring(new)
               p == Len(st.pfq)
               o == q.allocated
    <3>1. w \in Nat /\ d \in Nat /\ e \in Nat /\ p \in Nat /\ o \in Nat /\ e <= d
      BY <1>1, <1>2, MissFacts, WriteFacts DEF Sound, Prefetcher
    <3>2. Fits(w, o, d, p)
      BY <1>1 DEF Stored
    <3>3. Len(r.pfq) = p /\ new.allocated = o /\ r.writeBuffer.allocated = w
      BY <1>3, <1>4
    <3> HIDE DEF w, d, e, p, o
    <3>4. Fits(w, o, e, p)
      BY ONLY <3>1, <3>2, Sizes DEF Fits
    <3> QED BY <3>3, <3>4 DEF e
  <2> QED BY <1>1, <1>2, <1>4, <2>1, <2>2, <2>3 DEF Stored
<1>6. Scheduled(r)
  <2>1. MQ!canPrefetch(new) <=> MQ!canPrefetch(q)
    BY <1>1, <1>2, <1>3, MissFacts
  <2>2. Keeps(r, st) /\ (Awake(st) => Awake(r))
    BY <1>4 DEF SameTiming, Keeps, Awake, Soon
  <2>3. MQ!canPrefetch(r.mshrQueue) /\ r.pfq # <<>> => Awake(r)
    BY <1>1, <1>4, <2>1, <2>2 DEF Scheduled
  <2> QED BY <1>1, <1>3, <1>4, <2>2, <2>3, ScheduledKept
<1>7. ASSUME Tracked(st), a = st.mshrQueue.registers[i].blkAddr
      PROVE  Tracked(r)
  <2>1. r.mshrQueue = Snooped(st.mshrQueue, i, cmd, st.order)
    BY <1>4 DEF new
  <2> QED BY <1>1, <1>4, <1>7, <2>1, TrackedKept
<1> QED BY <1>4, <1>5, <1>6, <1>7 DEF Inv

(* Then the write buffer: an invalidating snoop takes the writeback over.  *)
LEMMA SnoopWriteOK ==
    ASSUME NEW st, Inv(st), NEW a \in Addrs, NEW cmd, NEW lat \in Nat,
           NEW r, r = SnoopWriteBuffer(st, a, cmd, lat)
    PROVE  /\ Inv(r)
           /\ \/ View(r) = View(st)
              \/ /\ View(r) = Blocking!deallocate(View(st), "WriteBuffer")
                 /\ st.writeBuffer.allocated > 0
           /\ Tracked(st) => Tracked(r)
<1> DEFINE w == WB!findMatch(st.writeBuffer, a)
<1>1. /\ Sound(st) /\ PW!WriteInv(st.writeBuffer) /\ Stored(st)
      /\ st.tags = [b \in Addrs |-> st.tags[b]]
  BY DEF Inv, Stored, Sound
<1>2. \/ r = st
      \/ w # 0 /\ SameButTags(r, st) /\ r.tags = st.tags /\ SameBook(r, st)
      \/ w # 0 /\ \E x, no : /\ SameButTags(x, st) /\ x.tags = st.tags /\ SameBook(x, st)
                             /\ r = markInService(x, "WriteBuffer", w, no)
  BY <1>1, SnoopWriteCases
<1>3. \A x : SameButTags(x, st) /\ x.tags = st.tags /\ SameBook(x, st)
               => Inv(x) /\ View(x) = View(st) /\ (Tracked(st) => Tracked(x))
  <2> SUFFICES ASSUME NEW x, SameButTags(x, st), x.tags = st.tags, SameBook(x, st)
               PROVE  Inv(x) /\ View(x) = View(st) /\ (Tracked(st) => Tracked(x))
    OBVIOUS
  <2>1. x.tags = [b \in Addrs |-> x.tags[b]] /\ Emptier(x, st)
    BY <1>1 DEF Emptier
  <2>2. Tracked(st) => Tracked(x)
    BY TrackedSame DEF SameButTags, SameBook
  <2> QED BY <2>1, <2>2, TagsOK
<1> HIDE DEF w
<1>4. CASE r = st
  BY <1>4
<1>5. CASE w # 0 /\ SameButTags(r, st) /\ r.tags = st.tags /\ SameBook(r, st)
  BY <1>3, <1>5
<1>6. CASE w # 0 /\ \E x, no : /\ SameButTags(x, st) /\ x.tags = st.tags /\ SameBook(x, st)
                               /\ r = markInService(x, "WriteBuffer", w, no)
  <2>1. PICK x, no : /\ SameButTags(x, st) /\ x.tags = st.tags /\ SameBook(x, st)
                     /\ r = markInService(x, "WriteBuffer", w, no)
    BY <1>6
  <2>2. /\ Inv(x) /\ View(x) = View(st) /\ Stored(x) /\ Scheduled(x)
        /\ x.writeBuffer = st.writeBuffer /\ (Tracked(st) => Tracked(x))
    BY <1>3, <2>1 DEF Inv, SameButTags
  <2>3. w \in PW!Held(x.writeBuffer)
    <3>1. PW!findMatch(st.writeBuffer, a) # 0 /\ w = PW!findMatch(st.writeBuffer, a)
      BY <1>6, SameMatchWrites DEF w
    <3>2. PW!Base(PW!WriteRegisters, st.writeBuffer)
      BY <1>1, WriteFacts
    <3>3. PW!findMatch(st.writeBuffer, a) \in PW!Elements(st.writeBuffer.allocatedList)
      BY ONLY <3>1, <3>2, Sizes, PW!FindOK
    <3> QED BY <2>2, <3>1, <3>3 DEF PW!Held
  <2>4. /\ Stored(r) /\ SameTiming(r, x) /\ x.writeBuffer.allocated > 0
        /\ View(r) = Blocking!deallocate(View(x), "WriteBuffer")
        /\ r.mshrQueue = x.mshrQueue /\ r.pfq = x.pfq
        /\ PW!Times(r.writeBuffer) \subseteq PW!Times(x.writeBuffer)
        /\ Tracked(x) => Tracked(r)
    BY <2>1, <2>2, <2>3, MarkWriteOK, Zenon
  <2>5. Scheduled(r)
    <3>1. Keeps(r, x) /\ (Awake(x) => Awake(r)) /\ Sound(r)
      BY <2>4 DEF SameTiming, Keeps, Awake, Soon, Stored
    <3>2. MQ!canPrefetch(r.mshrQueue) /\ r.pfq # <<>> => Awake(r)
      BY <2>2, <2>4, <3>1 DEF Scheduled
    <3>3. P!Times(r.mshrQueue) \subseteq P!Times(x.mshrQueue)
      BY <2>4
    <3> QED BY <2>2, <2>4, <3>1, <3>2, <3>3, ScheduledKept
  <2> QED BY <2>2, <2>4, <2>5 DEF Inv
<1> QED BY <1>2, <1>4, <1>5, <1>6

LEMMA SnoopOK ==
    ASSUME NEW st, Inv(st), NEW a \in Addrs, NEW cmd \in P!SnoopCommands,
           NEW lat \in Nat, NEW r, r = recvTimingSnoopReq(st, a, cmd, lat)
    PROVE  /\ Inv(r)
           /\ \/ View(r) = View(st)
              \/ /\ View(r) = Blocking!deallocate(View(st), "WriteBuffer")
                 /\ st.writeBuffer.allocated > 0
           /\ Tracked(st) => Tracked(r)
<1> DEFINE i == MQ!findMatch(st.mshrQueue, a)
           k == Kept(st, i, a, cmd)
<1>1. \/ i # 0 /\ r = k
      \/ i # 0 /\ r = SnoopBlock(SnoopWriteBuffer(k, a, cmd, lat), a, cmd, lat)
      \/ i = 0 /\ r = SnoopBlock(SnoopWriteBuffer(st, a, cmd, lat), a, cmd, lat)
  BY SnoopCases
<1>2. i # 0 => i \in P!Held(st.mshrQueue) /\ a = st.mshrQueue.registers[i].blkAddr
  <2> HAVE i # 0
  <2>1. P!findMatch(st.mshrQueue, a) # 0 /\ i = P!findMatch(st.mshrQueue, a)
    BY SameMatch
  <2>2. P!Base(P!Registers(P!Blocks), st.mshrQueue)
    BY MissFacts DEF Inv, Stored
  <2>3. /\ P!findMatch(st.mshrQueue, a) \in P!Elements(st.mshrQueue.allocatedList)
        /\ st.mshrQueue.registers[P!findMatch(st.mshrQueue, a)].blkAddr = a
    BY ONLY <2>1, <2>2, Sizes, P!FindOK
  <2> QED BY <2>1, <2>3 DEF P!Held
<1> HIDE DEF i
<1>3. i # 0 => /\ Inv(k) /\ View(k) = View(st) /\ k.writeBuffer = st.writeBuffer
               /\ Tracked(st) => Tracked(k)
  <2>1. i # 0 => Inv(k) /\ View(k) = View(st) /\ (Tracked(st) => Tracked(k))
    BY <1>2, KeptOK
  <2>2. k.writeBuffer = st.writeBuffer
    <3>1. IsCache(st)
      BY DEF Inv, Stored, Sound
    <3> QED BY <3>1 DEF Kept, IsCache
  <2> QED BY <2>1, <2>2
<1> HIDE DEF k
<1>4. \A x : /\ Inv(x) /\ View(x) = View(st) /\ x.writeBuffer = st.writeBuffer
             /\ r = SnoopBlock(SnoopWriteBuffer(x, a, cmd, lat), a, cmd, lat)
             => /\ Inv(r)
                /\ \/ View(r) = View(st)
                   \/ /\ View(r) = Blocking!deallocate(View(st), "WriteBuffer")
                      /\ st.writeBuffer.allocated > 0
                /\ Tracked(x) => Tracked(r)
  <2> TAKE x
  <2> HAVE /\ Inv(x) /\ View(x) = View(st) /\ x.writeBuffer = st.writeBuffer
           /\ r = SnoopBlock(SnoopWriteBuffer(x, a, cmd, lat), a, cmd, lat)
  <2> DEFINE y == SnoopWriteBuffer(x, a, cmd, lat)
  <2>1. /\ Inv(y)
        /\ \/ View(y) = View(st)
           \/ /\ View(y) = Blocking!deallocate(View(st), "WriteBuffer")
              /\ st.writeBuffer.allocated > 0
        /\ Tracked(x) => Tracked(y)
    BY SnoopWriteOK
  <2> HIDE DEF y
  <2>2. /\ SameButTags(r, y) /\ r.tags = [b \in Addrs |-> r.tags[b]]
        /\ Emptier(r, y) /\ SameBook(r, y) /\ r.tags[a] = SnoopedBlock(y.tags[a], cmd)
        /\ \A b \in Addrs : b # a => r.tags[b] = y.tags[b]
    <3>1. Sound(y) /\ r = SnoopBlock(y, a, cmd, lat) /\ a \in Addrs /\ lat \in Nat
      BY <2>1 DEF Inv, Stored, y
    <3> QED BY ONLY <3>1, SnoopBlockFacts
  <2>3. Inv(r) /\ View(r) = View(y)
    BY <2>1, <2>2, TagsOK
  <2>4. Tracked(y) => Tracked(r)
    <3>1. r.tags[a] = {} \/ r.tags[a] = y.tags[a] \ {"Writable"}
      BY <2>2 DEF SnoopedBlock
    <3> QED BY <2>2, <3>1, TrackedLess DEF SameButTags
  <2> QED BY <2>1, <2>3, <2>4
<1> QED BY <1>1, <1>3, <1>4

-----------------------------------------------------------------------------
(* Time passes.                                                            *)
Ticked(st) ==
    [st EXCEPT !.mshrQueue = MQ!QueueTick(@), !.writeBuffer = WB!QueueTick(@),
               !.sendEvent = {t - 1 : t \in @},
               !.pfq = [k \in DOMAIN st.pfq |-> SoonerPacket(st.pfq[k])],
               !.snoopRespQueue = [k \in DOMAIN st.snoopRespQueue |->
                                     SoonerPacket(st.snoopRespQueue[k])],
               !.payload = MQ!Sooner(@)]

LEMMA SoonerNat ==
    ASSUME NEW x \in Nat
    PROVE  MQ!Sooner(x) \in Nat /\ (x > 0 => MQ!Sooner(x) = x - 1)
  BY DEF MQ!Sooner

LEMMA SoonerSeq ==
    ASSUME NEW l \in Seq(Planned)
    PROVE  LET p == [k \in DOMAIN l |-> SoonerPacket(l[k])]
           IN  /\ p \in Seq(Planned) /\ Len(p) = Len(l) /\ (p = <<>> <=> l = <<>>)
               /\ l # <<>> => Head(p).tick = MQ!Sooner(Head(l).tick)
<1> DEFINE p == [k \in DOMAIN l |-> SoonerPacket(l[k])]
           n == Len(l)
<1>1. n \in Nat /\ DOMAIN l = 1 .. n
  OBVIOUS
<1>2. \A z \in Planned : /\ SoonerPacket(z) \in Planned
                          /\ SoonerPacket(z).tick = MQ!Sooner(z.tick)
  <2> TAKE z \in Planned
  <2>1. z \in [addr : Addrs, tick : Nat]
    BY DEF Planned
  <2>2. z.tick \in Nat /\ MQ!Sooner(z.tick) \in Nat
    BY <2>1, SoonerNat
  <2> DEFINE y == MQ!Sooner(z.tick)
  <2>3. SoonerPacket(z) = [z EXCEPT !.tick = y]
    BY DEF SoonerPacket
  <2> HIDE DEF y
  <2> QED BY <2>1, <2>2, <2>3 DEF Planned, y
<1>3. \A k \in 1 .. n : l[k] \in Planned
  BY <1>1, ElementOfSeq
<1>4. p = [k \in 1 .. n |-> SoonerPacket(l[k])]
  BY <1>1
<1>5. p \in [1 .. n -> Planned]
  BY <1>2, <1>3, <1>4
<1>6. p \in Seq(Planned) /\ Len(p) = n
  BY ONLY <1>1, <1>5, SeqDef, LenProperties, IsASeq
<1>7. l # <<>> => n >= 1 /\ p[1] = SoonerPacket(l[1]) /\ l[1] \in Planned
  BY <1>1, <1>3, <1>4
<1> HIDE DEF p
<1>8. p = <<>> <=> l = <<>>
  BY <1>6, EmptySeq
<1>9. l # <<>> => Head(p) = p[1] /\ Head(l) = l[1]
  BY <1>6
<1>10. l # <<>> => Head(p).tick = MQ!Sooner(Head(l).tick)
  BY <1>2, <1>7, <1>9
<1> QED BY <1>6, <1>8, <1>10 DEF p

LEMMA TickOK ==
    ASSUME NEW st, Inv(st), 0 \notin st.sendEvent, NEW r, r = Ticked(st)
    PROVE  Inv(r) /\ View(r) = View(st) /\ (Tracked(st) => Tracked(r))
<1> DEFINE q == st.mshrQueue
           w == st.writeBuffer
           t == MQ!QueueTick(q)
           x == WB!QueueTick(w)
           e == {z - 1 : z \in st.sendEvent}
           p == [k \in DOMAIN st.pfq |-> SoonerPacket(st.pfq[k])]
           a == [k \in DOMAIN st.snoopRespQueue |-> SoonerPacket(st.snoopRespQueue[k])]
           y0 == MQ!Sooner(st.payload)
<1>1. /\ Sound(st) /\ P!Misses(q, st.order) /\ PW!WriteInv(w) /\ st.order \in Nat
      /\ Stored(st) /\ Scheduled(st) /\ IsCache(st) /\ Timed(st) /\ Prefetcher(st)
  BY Zenon DEF Inv, Stored, Sound
<1>2. r = [st EXCEPT !.mshrQueue = t, !.writeBuffer = x, !.sendEvent = e, !.pfq = p,
                     !.snoopRespQueue = a, !.payload = y0]
  BY DEF Ticked
<1>3. /\ P!Misses(t, st.order) /\ P!Sooner1(q, t) /\ P!deferring(t) <= P!deferring(q)
      /\ P!Prefetches(t) \subseteq P!Prefetches(q)
  <2>1. t = P!QueueTick(q)
    BY SameTick
  <2> HIDE DEF t, q
  <2> QED BY ONLY <1>1, <2>1, Sizes, P!MissesTick
<1>4. PW!WriteInv(x) /\ PW!Sooner1(w, x)
  <2>1. x = PW!QueueTick(w)
    BY SameTickWrites
  <2> HIDE DEF x, w
  <2> QED BY ONLY <1>1, <2>1, Sizes, PW!WritesTick
<1> HIDE DEF t, x
<1>5. /\ t.allocated = q.allocated /\ P!Held(t) = P!Held(q)
      /\ \A z \in P!Times(t) : \E y \in P!Times(q) : z = MQ!Sooner(y)
  BY <1>3, SameSooner DEF P!Sooner1
<1>6. /\ x.allocated = w.allocated
      /\ \A z \in PW!Times(x) : \E y \in PW!Times(w) : z = MQ!Sooner(y)
  BY <1>4 DEF PW!Sooner1, PW!Sooner, MQ!Sooner
<1>7. /\ p \in Seq([addr : Addrs, tick : Nat]) /\ Len(p) = Len(st.pfq)
      /\ p = <<>> <=> st.pfq = <<>>
  <2>1. st.pfq \in Seq(Planned)
    BY <1>1 DEF Prefetcher, Planned
  <2> HIDE DEF p
  <2> QED BY <2>1, SoonerSeq, Zenon DEF p, Planned
<1>15. /\ Answering(a) /\ y0 \in Nat /\ (st.payload > 0 => y0 = st.payload - 1)
       /\ st.snoopRespQueue # <<>> =>
            a # <<>> /\ Head(a).tick = MQ!Sooner(Head(st.snoopRespQueue).tick)
  <2>1. st.snoopRespQueue \in Seq(Planned) /\ st.payload \in Nat
    BY <1>1 DEF Timed, Answering
  <2>2. /\ a \in Seq(Planned) /\ (a = <<>> <=> st.snoopRespQueue = <<>>)
        /\ st.snoopRespQueue # <<>> =>
             Head(a).tick = MQ!Sooner(Head(st.snoopRespQueue).tick)
    BY ONLY <2>1, SoonerSeq
  <2> HIDE DEF a
  <2> QED BY <2>1, <2>2, SoonerNat, Zenon DEF Answering
<1> HIDE DEF a, y0
<1> HIDE DEF p
<1>8. \/ st.sendEvent = {} /\ e = {}
      \/ \E y \in Nat : y > 0 /\ st.sendEvent = {y} /\ e = {y - 1}
  BY <1>1 DEF Timed
<1> HIDE DEF e
<1>9. /\ IsCache(r) /\ SameBlocking(r, st) /\ r.mshrQueue = t /\ r.writeBuffer = x
      /\ r.sendEvent = e /\ r.pfq = p /\ r.order = st.order /\ r.tags = st.tags
      /\ r.waitingOnRetry = st.waitingOnRetry /\ SameBook(r, st)
      /\ r.snoopRespQueue = a /\ r.payload = y0
  BY <1>1, <1>2, Zenon DEF IsCache, SameBlocking, SameBook
<1>10. Sound(r)
  <2>1. Timed(r)
    <3>1. e = {} \/ \E y \in Nat : e = {y}
      <4>1. \A y \in Nat : y > 0 => y - 1 \in Nat
        OBVIOUS
      <4> QED BY <1>8, <4>1
    <3>2. st.waitingOnRetry => e = {}
      BY <1>1, <1>8 DEF Timed
    <3> QED BY <1>9, <1>15, <3>1, <3>2 DEF Timed
  <2>2. Prefetcher(r)
    BY <1>1, <1>7, <1>9 DEF Prefetcher
  <2> QED BY <1>1, <1>9, <2>1, <2>2 DEF Sound, SameBlocking
<1>11. View(r) = View(st)
  BY <1>5, <1>6, <1>9 DEF View, SameBlocking
<1>12. Stored(r)
  <2>1. r.noTargetMSHR = 0 \/ r.noTargetMSHR \in P!Held(t)
    BY <1>1, <1>5, <1>9 DEF Stored, SameBlocking
  <2>2. \A b \in P!Prefetches(t) : r.tags[b] = {}
    BY <1>1, <1>3, <1>9 DEF Stored
  <2>3. Fits(r.writeBuffer.allocated, t.allocated, P!deferring(t), Len(r.pfq))
    <3> DEFINE g == w.allocated
               d == P!deferring(q)
               f == P!deferring(t)
               h == Len(st.pfq)
               o == q.allocated
    <3>1. g \in Nat /\ d \in Nat /\ f \in Nat /\ h \in Nat /\ o \in Nat /\ f <= d
      BY <1>1, <1>3, MissFacts, WriteFacts DEF Prefetcher
    <3>2. Fits(g, o, d, h)
      BY <1>1 DEF Stored
    <3>3. Len(r.pfq) = h /\ t.allocated = o /\ r.writeBuffer.allocated = g
      BY <1>5, <1>6, <1>7, <1>9
    <3> HIDE DEF g, d, f, h, o
    <3>4. Fits(g, o, f, h)
      BY ONLY <3>1, <3>2, Sizes DEF Fits
    <3> QED BY <3>3, <3>4 DEF f
  <2> QED BY <1>3, <1>4, <1>9, <1>10, <2>1, <2>2, <2>3 DEF Stored
<1>13. Scheduled(r)
  <2>1. \A y \in Nat : Soon(st, y) => Soon(r, MQ!Sooner(y))
    <3> TAKE y \in Nat
    <3> HAVE Soon(st, y)
    <3>1. CASE st.waitingOnRetry
      BY <1>9, <3>1 DEF Soon
    <3>2. CASE ~st.waitingOnRetry
      <4>1. PICK z \in st.sendEvent :
               z <= 1 \/ z <= y \/ z <= st.payload \/ Delays(st.snoopRespQueue, z)
        BY <3>2 DEF Soon
      <4>2. z \in Nat /\ z > 0 /\ z - 1 \in r.sendEvent /\ z - 1 \in Nat
        BY <1>8, <1>9, <4>1
      <4>3. CASE z <= 1 \/ z <= y
        <5>1. MQ!Sooner(y) \in Nat /\ (y > 0 => MQ!Sooner(y) = y - 1)
          BY SoonerNat
        <5>2. z - 1 <= 1 \/ z - 1 <= MQ!Sooner(y)
          BY <4>2, <4>3, <5>1
        <5> QED BY <4>2, <5>2 DEF Soon
      <4>4. CASE z <= st.payload
        <5>1. st.payload \in Nat
          BY <1>1 DEF Timed
        <5>2. z - 1 <= y0
          BY <1>15, <4>2, <4>4, <5>1
        <5> QED BY <1>9, <4>2, <5>2 DEF Soon
      <4>5. CASE Delays(st.snoopRespQueue, z)
        <5> DEFINE d == Head(st.snoopRespQueue).tick
        <5>1. st.snoopRespQueue # <<>> /\ z <= d
          BY <4>5 DEF Delays
        <5>2. Head(st.snoopRespQueue) \in Planned
          BY <1>1, <5>1 DEF Timed, Answering
        <5>3. d \in Nat
          BY <5>2 DEF Planned
        <5> HIDE DEF d
        <5>4. MQ!Sooner(d) = d - 1
          BY <4>2, <5>1, <5>3, SoonerNat
        <5>5. a # <<>> /\ Head(a).tick = d - 1
          BY <1>15, <5>1, <5>4 DEF d
        <5>6. z - 1 <= d - 1
          BY <4>2, <5>1, <5>3
        <5>7. Delays(r.snoopRespQueue, z - 1)
          BY <1>9, <5>5, <5>6 DEF Delays
        <5> QED BY <4>2, <5>7 DEF Soon
      <4> QED BY <4>1, <4>3, <4>4, <4>5
    <3> QED BY <3>1, <3>2
  <2>2. P!Times(q) \subseteq Nat /\ PW!Times(w) \subseteq Nat
    BY <1>1, MissFacts, WriteFacts
  <2>3. \A y \in P!Times(q) \cup PW!Times(w) : Soon(st, y)
    BY <1>1 DEF Scheduled
  <2>4. \A z \in P!Times(t) \cup PW!Times(x) : Soon(r, z)
    <3> TAKE z \in P!Times(t) \cup PW!Times(x)
    <3>1. PICK y \in P!Times(q) \cup PW!Times(w) : z = MQ!Sooner(y)
      BY <1>5, <1>6
    <3> QED BY <2>1, <2>2, <2>3, <3>1
  <2>5. MQ!canPrefetch(t) <=> MQ!canPrefetch(q)
    BY <1>1, <1>3, <1>5, MissFacts
  <2>6. Awake(st) => Awake(r)
    BY <1>8, <1>9 DEF Awake
  <2>7. MQ!canPrefetch(r.mshrQueue) /\ r.pfq # <<>> => Awake(r)
    BY <1>1, <1>7, <1>9, <2>5, <2>6 DEF Scheduled
  <2> QED BY <1>9, <2>4, <2>7 DEF Scheduled
<1>14. Tracked(st) => Tracked(r)
  BY <1>1, <1>9, TrackedTick DEF t
<1> QED BY <1>11, <1>12, <1>13, <1>14 DEF Inv

(* A snoop response leaves.                                                *)
LEMMA SnoopRespOK ==
    ASSUME NEW st, Inv(st), st.snoopRespQueue # <<>>, Head(st.snoopRespQueue).tick = 0,
           NEW d, d = Tail(st.snoopRespQueue), NEW r, r = [st EXCEPT !.snoopRespQueue = d]
    PROVE  Inv(r) /\ View(r) = View(st) /\ (Tracked(st) => Tracked(r))
<1>1. Stored(st) /\ Scheduled(st) /\ Sound(st) /\ IsCache(st) /\ Timed(st) /\ Prefetcher(st)
  BY DEF Inv, Stored, Sound
<1>2. /\ IsCache(r) /\ SameBlocking(r, st) /\ SameQueues(r, st)
      /\ r.sendEvent = st.sendEvent /\ r.waitingOnRetry = st.waitingOnRetry
      /\ r.payload = st.payload /\ r.snoopRespQueue = d
  BY <1>1, Zenon DEF IsCache, SameBlocking, SameQueues
<1>3. /\ r.mshrQueue = st.mshrQueue /\ r.writeBuffer = st.writeBuffer /\ r.order = st.order
      /\ r.tags = st.tags /\ r.pfq = st.pfq /\ r.noTargetMSHR = st.noTargetMSHR
      /\ r.failed = st.failed
  BY <1>2 DEF SameBlocking, SameQueues
<1>4. Answering(d)
  BY <1>1 DEF Timed, Answering
<1>5. Sound(r) /\ Emptier(r, st) /\ (Awake(st) => Awake(r))
  BY <1>1, <1>2, <1>3, <1>4 DEF Sound, Timed, Prefetcher, Emptier, Awake
<1>6. Keeps(r, st)
  <2> SUFFICES ASSUME NEW x \in Nat, Soon(st, x) PROVE Soon(r, x)
    BY DEF Keeps
  <2>1. CASE st.waitingOnRetry
    BY <1>2, <2>1 DEF Soon
  <2>2. CASE ~st.waitingOnRetry
    <3>1. PICK t \in st.sendEvent :
             t <= 1 \/ t <= x \/ t <= st.payload \/ Delays(st.snoopRespQueue, t)
      BY <2>2 DEF Soon
    <3>2. t \in Nat
      BY <1>1, <3>1 DEF Timed
    <3>3. Delays(st.snoopRespQueue, t) => t <= 1
      BY <3>2 DEF Delays
    <3> QED BY <1>2, <3>1, <3>3 DEF Soon
  <2> QED BY <2>1, <2>2
<1>7. Len(r.pfq) <= Len(st.pfq)
  BY <1>1, <1>3 DEF Prefetcher
<1>8. Stored(r)
  BY <1>1, <1>3, <1>5, <1>7, StoredKept, Zenon
<1>9. Scheduled(r)
  <2>1. MQ!canPrefetch(r.mshrQueue) /\ r.pfq # <<>> => Awake(r)
    BY <1>1, <1>3, <1>5 DEF Scheduled
  <2> QED BY <1>1, <1>3, <1>5, <1>6, <2>1, ScheduledKept, Zenon
<1>10. Tracked(st) => Tracked(r)
  BY <1>2, TrackedSame, Zenon DEF SameQueues
<1> QED BY <1>2, <1>3, <1>8, <1>9, <1>10, SameView, Zenon DEF Inv

-----------------------------------------------------------------------------
(* The refinement mapping, and what the proofs of CacheBlocking say of it. *)
LEMMA ViewNow == BlockingView = View(s)
  BY DEF BlockingView, View, Waits, Occupancy

LEMMA ViewNext == BlockingView' = View(s')
  BY DEF BlockingView, View, Waits, Occupancy

LEMMA SameOperations ==
    /\ \A v : Blocking!Accepts(v) = B!Accepts(v) /\ Blocking!canPrefetch(v) = B!canPrefetch(v)
    /\ \A v, n : /\ Blocking!allocateBufferInternal(v, n) = B!allocateBufferInternal(v, n)
                  /\ Blocking!deallocate(v, n) = B!deallocate(v, n)
                  /\ Blocking!setBlocked(v, n) = B!setBlocked(v, n)
                  /\ Blocking!clearBlocked(v, n) = B!clearBlocked(v, n)
    /\ \A n : Blocking!numEntries(n) = B!numEntries(n)
<1>1. \A v, n : /\ Blocking!setBlocked(v, n) = B!setBlocked(v, n)
                /\ Blocking!clearBlocked(v, n) = B!clearBlocked(v, n)
  BY Zenon DEF Blocking!setBlocked, B!setBlocked, Blocking!clearBlocked, B!clearBlocked,
      Blocking!CacheSlavePort_setBlocked, B!CacheSlavePort_setBlocked,
      Blocking!CacheSlavePort_clearBlocked, B!CacheSlavePort_clearBlocked
<1>2. \A n : Blocking!numEntries(n) = B!numEntries(n)
  BY Zenon DEF Blocking!numEntries, B!numEntries, Blocking!numReserve, B!numReserve,
      Blocking!num_entries, B!num_entries
<1>3. \A v, n : Blocking!isFull(v, n) = B!isFull(v, n)
  BY Zenon DEF Blocking!isFull, B!isFull, Blocking!numEntries, B!numEntries,
      Blocking!numReserve, B!numReserve, Blocking!num_entries, B!num_entries
<1>4. \A v : Blocking!Accepts(v) = B!Accepts(v) /\ Blocking!canPrefetch(v) = B!canPrefetch(v)
  BY Zenon DEF Blocking!Accepts, B!Accepts, Blocking!canPrefetch, B!canPrefetch,
      Blocking!demandReserve, B!demandReserve, Blocking!numEntries, B!numEntries,
      Blocking!numReserve, B!numReserve, Blocking!num_entries, B!num_entries
<1>5. \A v, n : Blocking!allocateBufferInternal(v, n) = B!allocateBufferInternal(v, n)
  <2> TAKE v, n
  <2> DEFINE X(k) == [v EXCEPT !.failed = @ \/ ~(v.allocated[n] < k), !.allocated[n] = @ + 1]
             j == Blocking!numEntries(n)
             k == B!numEntries(n)
  <2>1. Blocking!allocateBufferInternal(v, n) =
          IF Blocking!isFull(X(j), n) THEN Blocking!setBlocked(X(j), n) ELSE X(j)
    BY Zenon DEF Blocking!allocateBufferInternal
  <2>2. B!allocateBufferInternal(v, n) =
          IF B!isFull(X(k), n) THEN B!setBlocked(X(k), n) ELSE X(k)
    BY Zenon DEF B!allocateBufferInternal
  <2>3. j = k
    BY <1>2
  <2> HIDE DEF X, j, k
  <2> QED BY <1>1, <1>3, <2>1, <2>2, <2>3
<1>6. \A v, n : Blocking!deallocate(v, n) = B!deallocate(v, n)
  <2> TAKE v, n
  <2> DEFINE x == [v EXCEPT !.allocated[n] = @ - 1]
  <2>1. Blocking!deallocate(v, n) =
          IF Blocking!isFull(v, n) /\ ~Blocking!isFull(x, n)
          THEN Blocking!clearBlocked(x, n) ELSE x
    BY Zenon DEF Blocking!deallocate
  <2>2. B!deallocate(v, n) =
          IF B!isFull(v, n) /\ ~B!isFull(x, n) THEN B!clearBlocked(x, n) ELSE x
    BY Zenon DEF B!deallocate
  <2> HIDE DEF x
  <2> QED BY <1>1, <1>3, <2>1, <2>2
<1> QED BY <1>1, <1>2, <1>4, <1>5, <1>6

LEMMA SameHandlers ==
    /\ \A v, wb, o : Blocking!Handle(v, wb, o) = B!Handle(v, wb, o)
    /\ \A v, n, again, wb : Blocking!Respond(v, n, again, wb) = B!Respond(v, n, again, wb)
    /\ \A v, again, wb : Blocking!RespondNoTarget(v, again, wb) = B!RespondNoTarget(v, again, wb)
  BY SameOperations, Zenon DEF Blocking!Handle, B!Handle, Blocking!Respond, B!Respond,
      Blocking!RespondNoTarget, B!RespondNoTarget

LEMMA SameSteps ==
    ASSUME Blocking!Next
    PROVE  B!Next
<1>1. Blocking!RefuseReq => B!RefuseReq
  BY SameOperations DEF Blocking!RefuseReq, B!RefuseReq
<1>2. \A wb, o : Blocking!AcceptReq(wb, o) => B!AcceptReq(wb, o)
  BY SameOperations, SameHandlers, Zenon DEF Blocking!AcceptReq, B!AcceptReq
<1>3. Blocking!ProcessSendRetry => B!ProcessSendRetry
  BY DEF Blocking!ProcessSendRetry, B!ProcessSendRetry
<1>4. Blocking!IssuePrefetch => B!IssuePrefetch
  BY SameOperations DEF Blocking!IssuePrefetch, B!IssuePrefetch
<1>5. Blocking!MarkInService => B!MarkInService
  BY SameOperations DEF Blocking!MarkInService, B!MarkInService
<1>6. Blocking!ForceDeallocate => B!ForceDeallocate
  BY SameOperations DEF Blocking!ForceDeallocate, B!ForceDeallocate,
      Blocking!OtherMSHR, B!OtherMSHR
<1>7. \A q, again, wb : Blocking!RecvTimingResp(q, again, wb) => B!RecvTimingResp(q, again, wb)
  BY SameOperations, SameHandlers DEF Blocking!RecvTimingResp, B!RecvTimingResp,
      Blocking!OtherMSHR, B!OtherMSHR, Blocking!RoomInWriteBuffer, B!RoomInWriteBuffer
<1>8. \A again, wb : Blocking!RecvNoTargetResp(again, wb) => B!RecvNoTargetResp(again, wb)
  BY SameOperations, SameHandlers DEF Blocking!RecvNoTargetResp, B!RecvNoTargetResp,
      Blocking!RoomInWriteBuffer, B!RoomInWriteBuffer
<1> QED BY <1>1, <1>2, <1>3, <1>4, <1>5, <1>6, <1>7, <1>8, Zenon
        DEF Blocking!Next, B!Next, Blocking!Queues, B!Queues

LEMMA BlockingKept ==
    ASSUME B!IndInv, Blocking!Next \/ UNCHANGED <<BlockingView, peer>>
    PROVE  B!IndInv'
<1>1. /\ Mshrs \in Nat \ {0} /\ DemandMshrReserve \in Nat
      /\ WriteBuffers \in Nat \ {0} /\ ExtraWriteReserve \in Nat \ {0}
  BY Sizes
<1>2. B!Next \/ UNCHANGED B!vars
  BY SameSteps DEF B!vars
<1> QED BY <1>1, <1>2, B!StepKeepsIndInv

-----------------------------------------------------------------------------
(* The inductive invariant of the miss path.                               *)
IInv == Inv(s) /\ B!IndInv

LEMMA Counts ==
    ASSUME NEW st, Inv(st)
    PROVE  /\ View(st).allocated["MSHRs"] = st.mshrQueue.allocated
           /\ View(st).allocated["WriteBuffer"] = st.writeBuffer.allocated
           /\ st.mshrQueue.allocated \in Nat /\ st.writeBuffer.allocated \in Nat
           /\ View(st).noTarget <=> st.noTargetMSHR # 0
           /\ View(st).portBlocked = st.portBlocked
           /\ View(st).mustSendRetry = st.mustSendRetry
           /\ View(st).retryScheduled = st.retryScheduled
<1>1. P!Misses(st.mshrQueue, st.order) /\ PW!WriteInv(st.writeBuffer)
  BY DEF Inv, Stored
<1>2. st.mshrQueue.allocated \in Nat /\ st.writeBuffer.allocated \in Nat
  BY <1>1, MissFacts, WriteFacts
<1> QED BY <1>2, Zenon DEF View, Occupancy, Waits

(* What the blocking protocol says of the queues.                          *)
LEMMA Bounds ==
    ASSUME IInv
    PROVE  /\ s.mshrQueue.allocated <= Mshrs
           /\ Blocking!Accepts(s) => /\ s.mshrQueue.allocated < Mshrs
                                     /\ s.writeBuffer.allocated < WriteBuffers
<1> DEFINE v == View(s)
<1>1. /\ v.allocated["MSHRs"] = s.mshrQueue.allocated
      /\ v.allocated["WriteBuffer"] = s.writeBuffer.allocated
      /\ s.mshrQueue.allocated \in Nat /\ s.writeBuffer.allocated \in Nat
      /\ v.portBlocked = s.portBlocked
  BY Counts DEF IInv
<1>2. B!CacheInv(v)
  BY ViewNow DEF IInv, B!IndInv
<1> HIDE DEF v
<1>3. /\ v.allocated["MSHRs"] <= Mshrs
      /\ v.portBlocked <=> v.blocked # {}
      /\ "MSHRs" \in v.blocked <=> B!isFull(v, "MSHRs")
      /\ "WriteBuffer" \in v.blocked <=> B!isFull(v, "WriteBuffer")
  BY <1>2 DEF B!CacheInv, B!Queues
<1>4. /\ B!isFull(v, "MSHRs") <=> s.mshrQueue.allocated >= Mshrs
      /\ B!isFull(v, "WriteBuffer") <=> s.writeBuffer.allocated >= WriteBuffers
  BY <1>1, Sizes DEF B!isFull, B!numReserve, B!numEntries, B!num_entries
<1>5. Blocking!Accepts(s) => ~s.portBlocked
  BY DEF Blocking!Accepts
<1> QED BY <1>1, <1>3, <1>4, <1>5, Sizes

LEMMA OneRetry ==
    ASSUME NEW v, IsView(v), NEW m
    PROVE  Retries(v, m, v.retryScheduled) = [v EXCEPT !.mustSendRetry = m]
  BY Zenon DEF Retries, IsView

LEMMA RefuseStep ==
    ASSUME IInv, RefuseReq
    PROVE  Inv(s') /\ Blocking!Next /\ (Tracked(s) => Tracked(s'))
<1>1. Inv(s) /\ IsCache(s)
  BY Zenon DEF IInv, Inv, Stored, Sound
<1> DEFINE yes == TRUE
           r == Retries(s, yes, s.retryScheduled)
<1>2. /\ ~Blocking!Accepts(s) /\ s' = [s EXCEPT !.mustSendRetry = yes] /\ peer' = "waiting"
  BY DEF RefuseReq
<1>3. s' = r
  BY <1>1, <1>2, Zenon DEF Retries, IsCache
<1> HIDE DEF yes
<1>4. /\ Inv(s') /\ View(s') = Retries(View(s), yes, s.retryScheduled)
      /\ Tracked(s) => Tracked(s')
  BY <1>1, <1>3, RetryOK
<1>5. View(s') = [View(s) EXCEPT !.mustSendRetry = yes]
  <2>1. IsView(View(s)) /\ View(s).retryScheduled = s.retryScheduled
    BY DEF IsView, View
  <2> QED BY <1>4, <2>1, OneRetry
<1>6. Blocking!Accepts(View(s)) <=> Blocking!Accepts(s)
  BY DEF Blocking!Accepts, View
<1>7. BlockingView' = [BlockingView EXCEPT !.mustSendRetry = TRUE]
  BY <1>5, ViewNow, ViewNext DEF yes
<1>8. Blocking!RefuseReq
  BY <1>2, <1>6, <1>7, ViewNow DEF Blocking!RefuseReq
<1> QED BY <1>4, <1>8 DEF Blocking!Next

LEMMA AcceptStep ==
    ASSUME IInv, NEW a \in Addrs, NEW cmd \in {"ReadReq", "WriteReq"},
           NEW lat \in Latencies, NEW pf \in Proposals, AcceptReq(a, cmd, lat, pf)
    PROVE  Inv(s') /\ Blocking!Next /\ (Tracked(s) => Tracked(s'))
<1> DEFINE r == recvTimingReq(s, a, cmd, lat, pf)
           no == FALSE
<1>1. /\ Inv(s) /\ Blocking!Accepts(s) /\ lat \in Nat
      /\ s.mshrQueue.allocated < Mshrs /\ s.writeBuffer.allocated < WriteBuffers
      /\ s' = [r EXCEPT !.mustSendRetry = no] /\ UNCHANGED peer
  BY Bounds, Sizes DEF IInv, AcceptReq
<1>2. /\ Inv(r)
      /\ \/ View(r) = View(s)
         \/ View(r) = LastTarget(View(s)) /\ s.mshrQueue.allocated > 0
         \/ View(r) = Blocking!allocateBufferInternal(View(s), "MSHRs")
      /\ Tracked(s) => Tracked(r)
  BY <1>1, RequestOK
<1> HIDE DEF r
<1>3. IsCache(r)
  BY <1>2 DEF Inv, Stored, Sound
<1> HIDE DEF no
<1>4. s' = Retries(r, no, r.retryScheduled)
  BY <1>1, <1>3, Zenon DEF Retries, IsCache
<1>5. /\ Inv(s') /\ View(s') = Retries(View(r), no, r.retryScheduled)
      /\ Tracked(r) => Tracked(s')
  BY <1>2, <1>4, RetryOK
<1>6. View(s') = [View(r) EXCEPT !.mustSendRetry = no]
  <2>1. IsView(View(r)) /\ View(r).retryScheduled = r.retryScheduled
    BY DEF IsView, View
  <2> QED BY <1>5, <2>1, OneRetry
<1>7. Blocking!Accepts(View(s))
  BY <1>1 DEF Blocking!Accepts, View
<1>8. PICK o \in {"hit", "miss", "lastTarget"} :
          /\ View(r) = Blocking!Handle(View(s), no, o)
          /\ o = "lastTarget" => View(s).allocated["MSHRs"] > 0
  <2>1. CASE View(r) = View(s)
    <3>1. View(r) = Blocking!Handle(View(s), no, "hit")
      BY <2>1, Zenon DEF Blocking!Handle, no
    <3> QED BY <3>1
  <2>2. CASE View(r) = LastTarget(View(s)) /\ s.mshrQueue.allocated > 0
    <3>1. View(r) = Blocking!Handle(View(s), no, "lastTarget")
      BY <2>2 DEF Blocking!Handle, no, LastTarget
    <3>2. View(s).allocated["MSHRs"] > 0
      BY <1>1, <2>2, Counts
    <3> QED BY <3>1, <3>2
  <2>3. CASE View(r) = Blocking!allocateBufferInternal(View(s), "MSHRs")
    <3>1. View(r) = Blocking!Handle(View(s), no, "miss")
      BY <2>3 DEF Blocking!Handle, no
    <3> QED BY <3>1
  <2> QED BY <1>2, <2>1, <2>2, <2>3
<1>9. Blocking!AcceptReq(no, o)
  BY <1>1, <1>6, <1>7, <1>8, ViewNow, ViewNext DEF Blocking!AcceptReq, no
<1> QED BY <1>2, <1>5, <1>9, Zenon DEF Blocking!Next, no

LEMMA RetryStep ==
    ASSUME IInv, ProcessSendRetry
    PROVE  Inv(s') /\ Blocking!Next /\ (Tracked(s) => Tracked(s'))
<1> DEFINE no == FALSE
<1>1. /\ Inv(s) /\ IsCache(s) /\ s.retryScheduled /\ peer' = "idle"
      /\ s' = [s EXCEPT !.retryScheduled = no, !.mustSendRetry = no]
  BY DEF IInv, Inv, Stored, Sound, ProcessSendRetry
<1> HIDE DEF no
<1>2. s' = Retries(s, no, no)
  BY <1>1, Zenon DEF Retries, IsCache
<1>3. Inv(s') /\ View(s') = Retries(View(s), no, no) /\ (Tracked(s) => Tracked(s'))
  BY <1>1, <1>2, RetryOK
<1>4. View(s') = [View(s) EXCEPT !.retryScheduled = no, !.mustSendRetry = no]
  BY <1>3, Zenon DEF Retries, View
<1>5. View(s).retryScheduled
  BY <1>1 DEF View
<1>6. Blocking!ProcessSendRetry
  BY <1>1, <1>4, <1>5, ViewNow, ViewNext DEF Blocking!ProcessSendRetry, no
<1> QED BY <1>3, <1>6 DEF Blocking!Next

(* The event of the request queue starts with no event scheduled.          *)
LEMMA WokenOK ==
    ASSUME NEW st, Stored(st), NEW r, IsCache(r), SameBlocking(r, st), SameQueues(r, st),
           r.sendEvent = {}, r.payload = st.payload, r.snoopRespQueue = st.snoopRespQueue
    PROVE  Stored(r) /\ View(r) = View(st)
<1>1. Sound(st) /\ Prefetcher(st)
  BY DEF Stored, Sound
<1>2. /\ r.mshrQueue = st.mshrQueue /\ r.writeBuffer = st.writeBuffer /\ r.order = st.order
      /\ r.tags = st.tags /\ r.pfq = st.pfq /\ r.noTargetMSHR = st.noTargetMSHR
      /\ r.failed = st.failed
  BY DEF SameBlocking, SameQueues
<1>3. Sound(r) /\ Emptier(r, st)
  BY <1>1, <1>2 DEF Sound, Timed, Prefetcher, Emptier
<1>4. Len(r.pfq) <= Len(st.pfq)
  BY <1>1, <1>2 DEF Prefetcher
<1> QED BY <1>2, <1>3, <1>4, StoredKept, SameView

LEMMA SentStep ==
    ASSUME IInv, NEW taken \in BOOLEAN, NEW ans, NEW t, Stored(t), View(t) = View(s),
           t.mshrQueue = s.mshrQueue, t.writeBuffer = s.writeBuffer,
           ~t.waitingOnRetry, t.sendEvent = {},
           s' = sendDeferredPacket(t, taken, ans), UNCHANGED peer
    PROVE  /\ Inv(s') /\ (Blocking!Next \/ UNCHANGED <<BlockingView, peer>>)
           /\ Tracked(t) /\ PossibleAnswer(t, ans) => Tracked(s')
<1>1. /\ Inv(s')
      /\ \/ View(s') = View(t)
         \/ /\ View(s') = Blocking!allocateBufferInternal(View(t), "MSHRs")
            /\ MQ!canPrefetch(t.mshrQueue)
         \/ /\ View(s') = Blocking!deallocate(View(t), "WriteBuffer")
            /\ t.writeBuffer.allocated > 0
      /\ Tracked(t) /\ PossibleAnswer(t, ans) => Tracked(s')
  BY SentOK
<1>2. Inv(s) /\ P!Misses(s.mshrQueue, s.order)
  BY DEF IInv, Inv, Stored
<1>3. CASE View(s') = View(t)
  BY <1>1, <1>3, ViewNow, ViewNext
<1>4. CASE /\ View(s') = Blocking!allocateBufferInternal(View(t), "MSHRs")
           /\ MQ!canPrefetch(t.mshrQueue)
  <2>1. Blocking!canPrefetch(View(s))
    <3>1. s.mshrQueue.allocated + DemandMshrReserve + 1 < Mshrs
      BY <1>2, <1>4, MissFacts
    <3>2. View(s).allocated["MSHRs"] = s.mshrQueue.allocated /\ s.mshrQueue.allocated \in Nat
      BY <1>2, Counts
    <3> QED BY <3>1, <3>2, Sizes DEF Blocking!canPrefetch, Blocking!numReserve,
              Blocking!numEntries, Blocking!num_entries, Blocking!demandReserve
  <2>2. Blocking!IssuePrefetch
    BY <1>4, <2>1, ViewNow, ViewNext DEF Blocking!IssuePrefetch
  <2> QED BY <1>1, <2>2 DEF Blocking!Next
<1>5. CASE /\ View(s') = Blocking!deallocate(View(t), "WriteBuffer")
           /\ t.writeBuffer.allocated > 0
  <2>1. View(s).allocated["WriteBuffer"] > 0
    BY <1>2, <1>5, Counts
  <2>2. Blocking!MarkInService
    BY <1>5, <2>1, ViewNow, ViewNext DEF Blocking!MarkInService
  <2> QED BY <1>1, <2>2 DEF Blocking!Next
<1> QED BY <1>1, <1>3, <1>4, <1>5

LEMMA EventStep ==
    ASSUME IInv, NEW taken \in BOOLEAN, NEW ans,
           ProcessSendEvent(taken, ans) \/ Retry(taken, ans)
    PROVE  /\ Inv(s') /\ (Blocking!Next \/ UNCHANGED <<BlockingView, peer>>)
           /\ Tracked(s) => Tracked(s')
<1>1. Stored(s) /\ IsCache(s) /\ Timed(s) /\ UNCHANGED peer /\ PossibleAnswer(s, ans)
  BY Zenon DEF IInv, Inv, Stored, Sound, ProcessSendEvent, Retry
<1>2. CASE ProcessSendEvent(taken, ans)
  <2> DEFINE b == s.broken \/ ~~s.waitingOnRetry
             x == [s EXCEPT !.broken = b]
             t == [x EXCEPT !.sendEvent = {}]
  <2>1. s.sendEvent = {0} /\ s' = sendDeferredPacket(t, taken, ans)
    BY <1>2, Zenon DEF ProcessSendEvent, Assert_
  <2>2. ~s.waitingOnRetry
    BY <1>1, <2>1 DEF Timed
  <2>3. /\ IsCache(t) /\ SameBlocking(t, s) /\ SameQueues(t, s)
        /\ t.sendEvent = {} /\ t.waitingOnRetry = s.waitingOnRetry
        /\ t.payload = s.payload /\ t.snoopRespQueue = s.snoopRespQueue
    <3> HIDE DEF b
    <3>1. /\ IsCache(x) /\ SameBlocking(x, s) /\ SameQueues(x, s)
          /\ x.waitingOnRetry = s.waitingOnRetry
          /\ x.payload = s.payload /\ x.snoopRespQueue = s.snoopRespQueue
      BY <1>1 DEF IsCache, SameBlocking, SameQueues
    <3> HIDE DEF x
    <3>2. /\ IsCache(t) /\ SameBlocking(t, x) /\ SameQueues(t, x)
          /\ t.sendEvent = {} /\ t.waitingOnRetry = x.waitingOnRetry
          /\ t.payload = x.payload /\ t.snoopRespQueue = x.snoopRespQueue
      BY <3>1 DEF IsCache, SameBlocking, SameQueues
    <3> HIDE DEF t
    <3> QED BY <3>1, <3>2 DEF SameBlocking, SameQueues
  <2> HIDE DEF t
  <2>4. Stored(t) /\ View(t) = View(s)
    BY <1>1, <2>3, WokenOK
  <2>5. t.mshrQueue = s.mshrQueue /\ t.writeBuffer = s.writeBuffer
    BY <2>3 DEF SameQueues
  <2>6. PossibleAnswer(t, ans) /\ (Tracked(s) => Tracked(t))
    BY <1>1, <2>3, <2>4, AnswerDepends, TrackedSame DEF SameQueues
  <2> QED BY <1>1, <2>1, <2>2, <2>3, <2>4, <2>5, <2>6, SentStep
<1>3. CASE Retry(taken, ans)
  <2> DEFINE no == FALSE
             t == [s EXCEPT !.waitingOnRetry = no]
  <2>1. s.waitingOnRetry /\ s' = sendDeferredPacket(t, taken, ans)
    BY <1>3, Zenon DEF Retry
  <2>2. s.sendEvent = {}
    BY <1>1, <2>1 DEF Timed
  <2>3. /\ IsCache(t) /\ SameBlocking(t, s) /\ SameQueues(t, s)
        /\ t.sendEvent = {} /\ ~t.waitingOnRetry
        /\ t.payload = s.payload /\ t.snoopRespQueue = s.snoopRespQueue
    <3> HIDE DEF no
    <3>1. /\ IsCache(t) /\ SameBlocking(t, s) /\ SameQueues(t, s)
          /\ t.sendEvent = s.sendEvent /\ t.waitingOnRetry = no
          /\ t.payload = s.payload /\ t.snoopRespQueue = s.snoopRespQueue
      BY <1>1 DEF IsCache, SameBlocking, SameQueues
    <3> HIDE DEF t
    <3> QED BY <2>2, <3>1 DEF no
  <2> HIDE DEF t
  <2>4. Stored(t) /\ View(t) = View(s)
    BY <1>1, <2>3, WokenOK
  <2>5. t.mshrQueue = s.mshrQueue /\ t.writeBuffer = s.writeBuffer
    BY <2>3 DEF SameQueues
  <2>6. PossibleAnswer(t, ans) /\ (Tracked(s) => Tracked(t))
    BY <1>1, <2>3, <2>4, AnswerDepends, TrackedSame DEF SameQueues
  <2> QED BY <1>1, <2>1, <2>3, <2>4, <2>5, <2>6, SentStep
<1> QED BY <1>2, <1>3

LEMMA ResponseStep ==
    ASSUME AmpleReserve, IInv, NEW i \in Registers, NEW v \in Victims(s),
           NEW lat \in Latencies, NEW supply \in Latencies, NEW payload \in PayloadDelays,
           RecvTimingResp(i, v, lat, supply, payload)
    PROVE  Inv(s') /\ Blocking!Next /\ (Tracked(s) => Tracked(s'))
<1> DEFINE q == s.mshrQueue
           n == "MSHRs"
           w == View(s)
<1>1. /\ Inv(s) /\ q.registers[i].inService
      /\ s' = recvTimingResp(s, i, v, lat, supply, payload)
      /\ UNCHANGED peer /\ lat \in Nat /\ supply \in Nat /\ payload \in Nat
      /\ q.allocated <= Mshrs
      /\ Stored(s) /\ Sound(s) /\ P!Misses(q, s.order)
  BY Bounds, Sizes, MissPathAssumption DEF IInv, RecvTimingResp, Inv, Stored
<1>2. i \in P!Ids /\ i # 0
  <2>1. P!Base(P!Registers(P!Blocks), q)
    BY <1>1, MissFacts
  <2>2. DOMAIN q.registers = P!Ids
    BY <2>1 DEF P!Base, P!QueueOf
  <2> QED BY <2>2, Sizes DEF Registers, P!Ids, P!N
<1>3. /\ Inv(s') /\ i \in P!Held(q) /\ q.allocated > 0
      /\ s.writeBuffer.allocated < WriteBuffers + Mshrs + ExtraWriteReserve - 1
      /\ \E again, wb \in BOOLEAN :
            View(s') = Blocking!Respond(View(Unblocked(s, i)), "MSHRs", again, wb)
      /\ Tracked(s) => Tracked(s')
  BY <1>1, <1>2, ResponseOK
<1>4. PICK again \in BOOLEAN, wb \in BOOLEAN :
          View(s') = Blocking!Respond(View(Unblocked(s, i)), n, again, wb)
  BY <1>3
<1>5. /\ w.allocated["MSHRs"] = q.allocated /\ q.allocated \in Nat
      /\ w.allocated["WriteBuffer"] = s.writeBuffer.allocated
      /\ w.noTarget <=> s.noTargetMSHR # 0
  BY <1>1, Counts
<1> HIDE DEF w
<1>6. w.allocated["WriteBuffer"] < Blocking!numEntries("WriteBuffer")
  BY <1>3, <1>5, Sizes DEF Blocking!numEntries, Blocking!numReserve, Blocking!num_entries
<1>7. Blocking!RoomInWriteBuffer
  BY <1>6, ViewNow DEF w, Blocking!RoomInWriteBuffer
<1>8. CASE s.noTargetMSHR = i
  <2>1. View(Unblocked(s, i)) = RoomAgain(View(s))
    BY <1>1, <1>8, UnblockedFacts
  <2>2. Blocking!RespondNoTarget(View(s), again, wb) =
          Blocking!Respond(RoomAgain(View(s)), n, again, wb)
    BY Zenon DEF Blocking!RespondNoTarget, Blocking!Respond, RoomAgain
  <2>3. BlockingView' = Blocking!RespondNoTarget(BlockingView, again, wb)
    BY <1>4, <2>1, <2>2, ViewNow, ViewNext
  <2>4. BlockingView.noTarget
    BY <1>2, <1>5, <1>8, ViewNow DEF w
  <2>5. Blocking!RecvNoTargetResp(again, wb)
    BY <1>1, <1>7, <2>3, <2>4 DEF Blocking!RecvNoTargetResp
  <2> QED BY <1>3, <2>5 DEF Blocking!Next
<1>9. CASE s.noTargetMSHR # i
  <2>1. Unblocked(s, i) = s
    BY <1>1, <1>9, UnblockedFacts
  <2>2. BlockingView' = Blocking!Respond(BlockingView, n, again, wb)
    BY <1>4, <2>1, ViewNow, ViewNext
  <2>3. s.noTargetMSHR # 0 => q.allocated > 1
    <3> HAVE s.noTargetMSHR # 0
    <3>1. s.noTargetMSHR \in P!Held(q)
      BY <1>1 DEF Stored
    <3> QED BY <1>1, <1>3, <1>9, <3>1, MissFacts
  <2>4. Blocking!OtherMSHR
    BY <1>3, <1>5, <2>3, ViewNow DEF w, Blocking!OtherMSHR
  <2>5. Blocking!RecvTimingResp(n, again, wb)
    BY <1>1, <1>7, <2>2, <2>4 DEF Blocking!RecvTimingResp
  <2> QED BY <1>3, <2>5 DEF Blocking!Next, Blocking!Queues
<1> QED BY <1>8, <1>9

LEMMA SnoopStep ==
    ASSUME IInv, NEW a \in SnoopAddrs, NEW cmd \in {"ReadReq", "ReadExReq", "UpgradeReq"},
           NEW lat \in Latencies, RecvTimingSnoopReq(a, cmd, lat)
    PROVE  /\ Inv(s') /\ (Blocking!Next \/ UNCHANGED <<BlockingView, peer>>)
           /\ Tracked(s) => Tracked(s')
<1>1. /\ Inv(s) /\ a \in Addrs /\ cmd \in P!SnoopCommands /\ UNCHANGED peer
      /\ s' = recvTimingSnoopReq(s, a, cmd, lat) /\ lat \in Nat
  BY Sizes, MissPathAssumption DEF IInv, RecvTimingSnoopReq, P!SnoopCommands
<1>2. /\ Inv(s')
      /\ \/ View(s') = View(s)
         \/ /\ View(s') = Blocking!deallocate(View(s), "WriteBuffer")
            /\ s.writeBuffer.allocated > 0
      /\ Tracked(s) => Tracked(s')
  BY <1>1, SnoopOK
<1>3. CASE View(s') = View(s)
  BY <1>1, <1>2, <1>3, ViewNow, ViewNext
<1>4. CASE /\ View(s') = Blocking!deallocate(View(s), "WriteBuffer")
           /\ s.writeBuffer.allocated > 0
  <2>1. View(s).allocated["WriteBuffer"] > 0
    BY <1>1, <1>4, Counts
  <2>2. Blocking!MarkInService
    BY <1>1, <1>4, <2>1, ViewNow, ViewNext DEF Blocking!MarkInService
  <2> QED BY <1>2, <2>2 DEF Blocking!Next
<1> QED BY <1>2, <1>3, <1>4

(* Every step of the miss path keeps its invariant and is a step of the    *)
(* blocking protocol, or none.                                             *)
LEMMA StepKeepsInv ==
    ASSUME AmpleReserve, IInv, [Next]_vars
    PROVE  /\ IInv' /\ (Blocking!Next \/ UNCHANGED <<BlockingView, peer>>)
           /\ Tracked(s) => Tracked(s')
<1>1. Inv(s)
  BY DEF IInv
<1>2. /\ Inv(s') /\ (Blocking!Next \/ UNCHANGED <<BlockingView, peer>>)
      /\ Tracked(s) => Tracked(s')
  <2>1. CASE RefuseReq
    BY <2>1, RefuseStep
  <2>2. ASSUME NEW a \in Addrs, NEW cmd \in {"ReadReq", "WriteReq"}, NEW lat \in Latencies,
               NEW pf \in Proposals, AcceptReq(a, cmd, lat, pf)
        PROVE  Inv(s') /\ Blocking!Next /\ (Tracked(s) => Tracked(s'))
    BY <2>2, AcceptStep
  <2>3. CASE ProcessSendRetry
    BY <2>3, RetryStep
  <2>4. ASSUME NEW taken \in BOOLEAN, NEW ans \in Answers(FALSE),
               ProcessSendEvent(taken, ans) \/ Retry(taken, ans)
        PROVE  /\ Inv(s') /\ (Blocking!Next \/ UNCHANGED <<BlockingView, peer>>)
               /\ Tracked(s) => Tracked(s')
    BY <2>4, EventStep
  <2>5. ASSUME NEW i \in Registers, NEW v \in Victims(s), NEW lat \in Latencies,
               NEW supply \in Latencies, NEW payload \in PayloadDelays,
               RecvTimingResp(i, v, lat, supply, payload)
        PROVE  Inv(s') /\ Blocking!Next /\ (Tracked(s) => Tracked(s'))
    BY <2>5, ResponseStep
  <2>6. ASSUME NEW a \in SnoopAddrs, NEW cmd \in {"ReadReq", "ReadExReq", "UpgradeReq"},
               NEW lat \in Latencies, RecvTimingSnoopReq(a, cmd, lat)
        PROVE  /\ Inv(s') /\ (Blocking!Next \/ UNCHANGED <<BlockingView, peer>>)
               /\ Tracked(s) => Tracked(s')
    BY <2>6, SnoopStep
  <2>7. CASE SendSnoopResp
    <3> DEFINE d == Tail(s.snoopRespQueue)
    <3>1. /\ s' = [s EXCEPT !.snoopRespQueue = d] /\ UNCHANGED peer
          /\ s.snoopRespQueue # <<>> /\ Head(s.snoopRespQueue).tick = 0
          /\ d = Tail(s.snoopRespQueue)
      BY <2>7 DEF SendSnoopResp, SnoopRespDue
    <3> HIDE DEF d
    <3>2. Inv(s') /\ View(s') = View(s) /\ (Tracked(s) => Tracked(s'))
      BY ONLY <1>1, <3>1, SnoopRespOK
    <3> QED BY <3>1, <3>2, ViewNow, ViewNext
  <2>8. CASE Tick
    <3>1. 0 \notin s.sendEvent /\ s' = Ticked(s) /\ UNCHANGED peer
      BY <2>8, Zenon DEF Tick, Ticked
    <3>2. Inv(s') /\ View(s') = View(s) /\ (Tracked(s) => Tracked(s'))
      BY <1>1, <3>1, TickOK
    <3> QED BY <3>1, <3>2, ViewNow, ViewNext
  <2>9. CASE UNCHANGED vars
    <3>1. s' = s /\ UNCHANGED peer
      BY <2>9 DEF vars
    <3> QED BY <1>1, <3>1, ViewNow, ViewNext
  <2> QED BY <2>1, <2>2, <2>3, <2>4, <2>5, <2>6, <2>7, <2>8, <2>9, Zenon DEF Next
<1>3. B!IndInv'
  BY <1>2, BlockingKept DEF IInv
<1> QED BY <1>2, <1>3 DEF IInv

LEMMA InitInv ==
    ASSUME Init
    PROVE  IInv /\ Blocking!Init /\ Tracked(s)
<1> DEFINE q == MQ!NewQueue(Mshrs, 4, DemandMshrReserve)
           w == WB!NewQueue(WriteBuffers, Mshrs + ExtraWriteReserve, 0)
<1>1. /\ P!Misses(q, 0) /\ P!Times(q) = {} /\ P!Prefetches(q) = {} /\ q.allocated = 0
  <2>1. q = P!NewQueue(Mshrs, 4, DemandMshrReserve)
    BY SameNew
  <2> HIDE DEF q
  <2> QED BY ONLY <2>1, Sizes, P!MissesNew
<1>2. PW!WriteInv(w) /\ PW!Times(w) = {} /\ w.allocated = 0
  <2>1. w = PW!NewQueue(WriteBuffers, Mshrs + ExtraWriteReserve, 0)
    BY SameNewWrites
  <2> HIDE DEF w
  <2> QED BY ONLY <2>1, Sizes, PW!WritesNew
<1>3. /\ s.blocked = {} /\ s.portBlocked = FALSE /\ s.mustSendRetry = FALSE
      /\ s.retryScheduled = FALSE /\ s.failed = FALSE /\ s.mshrQueue = q /\ s.writeBuffer = w
      /\ s.noTargetMSHR = 0 /\ s.sendEvent = {} /\ s.waitingOnRetry = FALSE
      /\ s.pfq = <<>> /\ s.order = 0 /\ peer = "idle" /\ IsCache(s)
      /\ s.snoopRespQueue = <<>> /\ s.payload = 0
      /\ s.tags = [a \in Addrs |-> {}] /\ s.answer = [a \in Addrs |-> "none"]
      /\ s.owed = [a \in Addrs |-> 0]
  <2> HIDE DEF q, w
  <2> QED BY DEF Init, IsCache, q, w
<1> HIDE DEF q, w
<1>4. Sound(s)
  <2>1. Prefetcher(s)
    BY <1>3, Sizes, EmptySeq DEF Prefetcher
  <2>2. s.tags = [a \in Addrs |-> s.tags[a]]
    BY <1>3
  <2>3. Timed(s)
    <3>1. s.payload \in Nat /\ Answering(s.snoopRespQueue)
      BY <1>3, EmptySeq DEF Answering
    <3> QED BY <1>3, <3>1, Zenon DEF Timed
  <2>4. s.failed \in BOOLEAN
    BY <1>3, Zenon
  <2>5. s.order \in Nat
    BY <1>3
  <2> QED BY <1>3, <2>1, <2>2, <2>3, <2>4, <2>5 DEF Sound
<1>5. Stored(s)
  <2>1. Fits(s.writeBuffer.allocated, s.mshrQueue.allocated, P!deferring(s.mshrQueue),
             Len(s.pfq))
    BY <1>2, <1>3, Sizes DEF Fits
  <2> QED BY <1>1, <1>2, <1>3, <1>4, <2>1 DEF Stored
<1>6. Scheduled(s)
  BY <1>1, <1>2, <1>3 DEF Scheduled
<1>7. Blocking!Init /\ B!Init
  BY <1>1, <1>2, <1>3, Zenon DEF Blocking!Init, B!Init, BlockingView, Blocking!Queues, B!Queues
<1>8. B!IndInv
  <2>1. /\ Mshrs \in Nat \ {0} /\ DemandMshrReserve \in Nat
        /\ WriteBuffers \in Nat \ {0} /\ ExtraWriteReserve \in Nat \ {0}
    BY Sizes
  <2> QED BY <1>7, <2>1, B!InitIndInv
<1>9. Tracked(s)
  BY <1>3, TrackedNew, Zenon DEF q
<1> QED BY <1>5, <1>6, <1>7, <1>8, <1>9 DEF IInv, Inv

-----------------------------------------------------------------------------
(* What the invariant says.                                                *)
LEMMA LatestOf ==
    ASSUME NEW u \in Nat, NEW x \in Nat, NEW y \in Nat, NEW z \in Nat
    PROVE  LET m == Max({u, x, y, z})
           IN  m \in Nat /\ m >= u /\ m >= x /\ m >= y /\ m >= z
<1> DEFINE T == {u, x, y, z}
           f == Max({u, x})
           g == Max({y, z})
           h == Max({f, g})
<1>1. f \in {u, x} /\ f >= u /\ f >= x /\ g \in {y, z} /\ g >= y /\ g >= z
  BY LaterOne
<1>2. f \in Nat /\ g \in Nat
  BY <1>1
<1>3. h \in {f, g} /\ h >= f /\ h >= g
  BY <1>2, LaterOne
<1> HIDE DEF f, g, h
<1>4. \A k \in T : h >= k
  BY <1>1, <1>2, <1>3
<1>5. h \in T
  BY <1>1, <1>3
<1> HIDE DEF T
<1>6. Max(T) \in T /\ \A k \in T : Max(T) >= k
  BY <1>4, <1>5 DEF Max
<1> QED BY <1>6 DEF T

LEMMA ScheduledImplies ==
    ASSUME IInv
    PROVE  SendEventScheduled
<1> DEFINE q == s.mshrQueue
           w == s.writeBuffer
           queued == ReadyTime(q) \cup ReadyTime(w)
           first == IF s.snoopRespQueue = <<>> THEN 0 ELSE Head(s.snoopRespQueue).tick
<1>1. /\ Stored(s) /\ Scheduled(s) /\ Timed(s)
      /\ P!Misses(q, s.order) /\ PW!WriteInv(w)
  BY Zenon DEF IInv, Inv, Stored, Sound
<1>2. queued \subseteq P!Times(q) \cup PW!Times(w) /\ queued \subseteq Nat
  <2>1. ReadyTime(q) \subseteq P!Times(q) /\ ReadyTime(w) \subseteq PW!Times(w)
    BY <1>1, HeadTimes
  <2>2. P!Times(q) \subseteq Nat /\ PW!Times(w) \subseteq Nat
    BY <1>1, MissFacts, WriteFacts
  <2> QED BY <2>1, <2>2
<1>3. \A x \in queued : Soon(s, x)
  BY <1>1, <1>2 DEF Scheduled
<1> HIDE DEF queued
<1>4. ~s.waitingOnRetry /\ queued # {} =>
         \E t \in s.sendEvent : t <= Max({1, Min(queued), first, s.payload})
  <2> HAVE ~s.waitingOnRetry /\ queued # {}
  <2> DEFINE m == Min(queued)
             y == s.payload
             x == Max({1, m, first, y})
  <2>1. m \in queued /\ m \in Nat
    BY <1>2, LeastTime, Zenon
  <2>6. y \in Nat /\ first \in Nat
    <3>1. s.snoopRespQueue # <<>> => Head(s.snoopRespQueue) \in Planned
      BY <1>1 DEF Timed, Answering
    <3> QED BY <1>1, <3>1 DEF Timed, Planned
  <2>7. \A t : Delays(s.snoopRespQueue, t) => t <= first
    BY DEF Delays
  <2> HIDE DEF m, first, y
  <2>2. x \in Nat /\ x >= 1 /\ x >= m /\ x >= first /\ x >= y
    BY <2>1, <2>6, LatestOf
  <2> HIDE DEF x
  <2>3. PICK t \in s.sendEvent :
           t <= 1 \/ t <= m \/ t <= y \/ Delays(s.snoopRespQueue, t)
    BY <1>3, <2>1 DEF Soon, y
  <2>4. t \in Nat
    BY <1>1, <2>3 DEF Timed
  <2>5. t <= x
    BY <2>1, <2>2, <2>3, <2>4, <2>6, <2>7
  <2> QED BY <2>3, <2>5 DEF x, m, y, first
<1>5. ~s.waitingOnRetry /\ nextMSHRReadyTime(s) # {} => s.sendEvent # {}
  <2> HAVE ~s.waitingOnRetry /\ nextMSHRReadyTime(s) # {}
  <2>1. \/ queued # {}
        \/ MQ!canPrefetch(q) /\ PrefetchReady(s) # {}
    BY DEF nextMSHRReadyTime, queued
  <2>2. CASE queued # {}
    BY <1>4, <2>2
  <2>3. CASE MQ!canPrefetch(q) /\ PrefetchReady(s) # {}
    BY <1>1, <2>3 DEF Scheduled, Awake, PrefetchReady
  <2> QED BY <2>1, <2>2, <2>3
<1> QED BY <1>4, <1>5, Zenon DEF SendEventScheduled, queued

LEMMA NotRedundant ==
    ASSUME IInv
    PROVE  PrefetchNotRedundant
<1> DEFINE q == s.mshrQueue
<1>1. /\ P!Misses(q, s.order)
      /\ \A a \in P!Prefetches(q) : s.tags[a] = {}
  BY DEF IInv, Inv, Stored
<1>2. ToSet(q.allocatedList) = P!Held(q)
  BY DEF ToSet, P!Held, P!Elements
<1>3. \A i, j \in P!Held(q) : q.registers[i].blkAddr = q.registers[j].blkAddr => i = j
  BY <1>1 DEF P!Misses, P!QueueInv, P!Contents, P!Held
<1>4. \A i \in P!Held(q) : MQ!getTarget(q.registers[i]).cmd = "HardPFReq" =>
                              s.tags[q.registers[i].blkAddr] = {}
  <2> TAKE i \in P!Held(q)
  <2> HAVE MQ!getTarget(q.registers[i]).cmd = "HardPFReq"
  <2>1. P!FirstCmd(q.registers[i]) = "HardPFReq"
    BY DEF MQ!getTarget, P!FirstCmd
  <2>2. q.registers[i].blkAddr \in P!Prefetches(q)
    BY <2>1 DEF P!Prefetches, P!Prefetching
  <2> QED BY <1>1, <2>2
<1> QED BY <1>2, <1>3, <1>4 DEF PrefetchNotRedundant, Present

(* What Tracked says of the snoops and the stores that wait.               *)
LEMMA OwedIsSaved ==
    ASSUME IInv, Tracked(s)
    PROVE  PromisesKept
<1> SUFFICES ASSUME NEW a \in Addrs PROVE s.owed[a] = SavedSnoops(a)
  BY DEF PromisesKept
<1> DEFINE i == MQ!findMatch(s.mshrQueue, a)
           m == s.mshrQueue.registers[i]
<1>1. /\ i = 0 => s.owed[a] = 0
      /\ i # 0 => P!Tracks(m, s.tags[a], s.answer[a], s.owed[a])
  <2>1. Stored(s)
    BY DEF IInv, Inv
  <2> QED BY <2>1, TrackedBlock
<1>2. SavedSnoops(a) = IF i # 0 /\ m.inService /\ m.pendingDirty
                       THEN Cardinality(P!SnoopsIn(m.targets.list)) ELSE 0
  BY DEF SavedSnoops, P!SnoopsIn
<1> HIDE DEF i, m
<1>3. i # 0 => s.owed[a] = IF m.inService /\ m.pendingDirty
                           THEN Cardinality(P!SnoopsIn(m.targets.list)) ELSE 0
  BY <1>1, SameCardinality DEF P!Tracks, P!SavedIn
<1> QED BY <1>1, <1>2, <1>3

LEMMA StoresHidden ==
    ASSUME IInv, Tracked(s)
    PROVE  NoAccessPastStore
<1> SUFFICES ASSUME NEW a \in Addrs, NEW i, i = MQ!findMatch(s.mshrQueue, a), i # 0,
                    NEW m, m = s.mshrQueue.registers[i],
                    NEW w, w = m.targets.list \o m.deferredTargets.list,
                    NEW k \in DOMAIN w, w[k].source = "FromCPU", w[k].cmd = "WriteReq"
             PROVE  ~Hit(s, a, "ReadReq") /\ ~Hit(s, a, "WriteReq")
  BY Zenon DEF NoAccessPastStore
<1>1. /\ P!Tracks(m, s.tags[a], s.answer[a], s.owed[a])
      /\ m.targets.list \in Seq(P!Targets) /\ m.deferredTargets.list \in Seq(P!Targets)
  <2>1. Stored(s)
    BY Zenon DEF IInv, Inv
  <2>2. i = MQ!findMatch(s.mshrQueue, a) /\ i # 0 /\ m = s.mshrQueue.registers[i]
    BY Zenon
  <2>3. i # 0 => /\ P!Tracks(m, s.tags[a], s.answer[a], s.owed[a])
                 /\ m.targets.list \in Seq(P!Targets)
                 /\ m.deferredTargets.list \in Seq(P!Targets)
    BY ONLY Tracked(s), a \in Addrs, <2>1, <2>2, TrackedBlock
  <2> QED BY ONLY <2>2, <2>3
<1>2. P!StoreIn(m.targets.list) \/ P!StoreIn(m.deferredTargets.list)
  <2> DEFINE l == m.targets.list
             d == m.deferredTargets.list
  <2>1. l \in Seq(P!Targets) /\ d \in Seq(P!Targets) /\ w = l \o d
    BY <1>1, Zenon
  <2> HIDE DEF l, d
  <2>2. \/ k \in DOMAIN l /\ w[k] = l[k]
        \/ k - Len(l) \in DOMAIN d /\ w[k] = d[k - Len(l)]
    BY <2>1
  <2>3. P!StoreIn(l) \/ P!StoreIn(d)
    BY <2>2, Zenon DEF P!StoreIn, P!StoreTarget
  <2> QED BY <2>3, Zenon DEF l, d
<1>3. "Readable" \notin s.tags[a] /\ "Writable" \notin s.tags[a]
  BY <1>1, <1>2, Zenon DEF P!Tracks, P!OutOfSight
<1> QED BY <1>3, Zenon DEF Hit, MQ!NeedsExclusive

(* The asserts of the two queues and of the blocking protocol.  The write  *)
(* buffer has an entry for every writeback: neither queue is ever asked    *)
(* for an entry it does not have (MSHRQueue::allocate asserts a free one). *)
QueueAssertsHold ==
    /\ ~s.mshrQueue.failed /\ ~s.writeBuffer.failed /\ ~s.failed
    /\ s.mshrQueue.allocated <= Mshrs
    /\ s.writeBuffer.allocated < WriteBuffers + Mshrs + ExtraWriteReserve

LEMMA QueuesHold ==
    ASSUME AmpleReserve, IInv
    PROVE  QueueAssertsHold
<1> DEFINE q == s.mshrQueue
           w == s.writeBuffer
           a == q.allocated
           b == w.allocated
           d == P!deferring(q)
           p == Len(s.pfq)
<1>1. /\ P!Misses(q, s.order) /\ PW!WriteInv(w) /\ Fits(b, a, d, p) /\ Prefetcher(s)
  BY DEF IInv, Inv, Stored, Sound
<1>2. /\ P!Base(P!Registers(P!Blocks), q) /\ PW!Base(PW!WriteRegisters, w)
      /\ a \in Nat /\ d \in Nat /\ b \in Nat /\ p \in Nat /\ p <= QueueSize
  BY <1>1, MissFacts, WriteFacts DEF Prefetcher
<1>3. ~q.failed /\ ~w.failed
  BY <1>2 DEF P!Base, PW!Base
<1>4. ~s.failed /\ a <= Mshrs
  <2>1. ~View(s).failed
    BY ViewNow DEF IInv, B!IndInv, B!CacheInv
  <2>2. View(s).failed = s.failed
    BY DEF View
  <2> QED BY <2>1, <2>2, Bounds
<1>5. b < WriteBuffers + Mshrs + ExtraWriteReserve
  <2> HIDE DEF a, b, d, p
  <2> QED BY <1>1, <1>2, <1>4, Sizes DEF Fits, AmpleReserve
<1> QED BY <1>3, <1>4, <1>5 DEF QueueAssertsHold

-----------------------------------------------------------------------------
(* The inductive invariant holds in every state of the miss path.          *)
THEOREM SpecInv ==
    ASSUME AmpleReserve
    PROVE  Spec => []IInv
<1>1. Init => IInv
  BY InitInv
<1>2. IInv /\ [Next]_vars => IInv'
  BY AmpleReserve, StepKeepsInv
<1> QED BY <1>1, <1>2, PTL DEF Spec

(* The cache blocks and unblocks, owes and sends retries exactly as        *)
(* CacheBlocking says, through coalesced and deferred targets, prefetches, *)
(* snooped writebacks and rerequests (allocateBufferInternal,              *)
(* markInServiceInternal, recvTimingReq, recvTimingResp): each step of the *)
(* miss path is one of its steps or leaves its view alone.                 *)
THEOREM MissPathImplementsBlocking ==
    ASSUME AmpleReserve
    PROVE  Spec => ImplementsBlocking
<1>1. Init => Blocking!Init
  BY InitInv
<1>2. IInv /\ [Next]_vars => [Blocking!Next]_(Blocking!vars)
  BY AmpleReserve, StepKeepsInv DEF Blocking!vars
<1> QED BY <1>1, <1>2, SpecInv, PTL DEF Spec, ImplementsBlocking, Blocking!Spec

(* No request is forgotten (schedSendEvent, sendDeferredPacket): a miss or *)
(* a writeback that waits has a send event in time, a prefetch that could  *)
(* be issued has one at all, or the port waits for a retry of the bus.     *)
THEOREM NoRequestForgotten ==
    ASSUME AmpleReserve
    PROVE  Spec => []SendEventScheduled
<1>1. IInv => SendEventScheduled
  BY ScheduledImplies
<1> QED BY <1>1, SpecInv, PTL

(* A block has one MSHR, and none for a prefetch while it is present       *)
(* (Cache::getNextMSHR looks the block up again when it issues a prefetch). *)
THEOREM PrefetchesNotRedundant ==
    ASSUME AmpleReserve
    PROVE  Spec => []PrefetchNotRedundant
<1>1. IInv => PrefetchNotRedundant
  BY NotRedundant
<1> QED BY <1>1, SpecInv, PTL

(* Neither queue is ever asked for an entry it does not have, although the *)
(* write buffer keeps taking the writebacks of responses while it is       *)
(* blocked (base.cc: the write buffer is built with mshrs + 1000 reserve   *)
(* entries), and no assert of a queue or of the blocking protocol fails.   *)
THEOREM WriteBufferHasRoom ==
    ASSUME AmpleReserve
    PROVE  Spec => []QueueAssertsHold
<1>1. IInv => QueueAssertsHold
  BY AmpleReserve, QueuesHold
<1> QED BY <1>1, SpecInv, PTL

(* Every MSHR agrees with the block it is for, with the answer of the bus  *)
(* and with the snoops that were promised one.                             *)
LEMMA SpecTracked ==
    ASSUME AmpleReserve
    PROVE  Spec => [](IInv /\ Tracked(s))
<1> DEFINE J == IInv /\ Tracked(s)
<1>1. Init => J
  BY InitInv
<1>2. J /\ [Next]_vars => J'
  BY AmpleReserve, StepKeepsInv
<1> QED BY <1>1, <1>2, PTL DEF Spec

(* A snoop that was promised an answer while the request for its block was *)
(* in service (MSHR::handleSnoop asserts memInhibit) is saved until the    *)
(* response, and is then answered from dirty data, however many requests,  *)
(* upgrades and other snoops join the MSHR in between: no cache waits for  *)
(* data that nobody will send.                                             *)
THEOREM SnoopPromisesKept ==
    ASSUME AmpleReserve
    PROVE  Spec => []PromisesKept
<1>1. IInv /\ Tracked(s) => PromisesKept
  BY OwedIsSaved
<1> QED BY <1>1, SpecTracked, PTL

(* No access overtakes a store (recvTimingReq): while a store waits in the *)
(* MSHR of its block, also one that was deferred behind a snoop and asked  *)
(* for again, neither a load nor a store hits the block.                   *)
THEOREM StoresNotOvertaken ==
    ASSUME AmpleReserve
    PROVE  Spec => []NoAccessPastStore
<1>1. IInv /\ Tracked(s) => NoAccessPastStore
  BY StoresHidden
<1> QED BY <1>1, SpecTracked, PTL

(* So the promises of the blocking protocol hold on the miss path: a       *)
(* refused master is retried, and only when a retry is owed.               *)
THEOREM MissPathRetries ==
    ASSUME AmpleReserve
    PROVE  Spec => [](Blocking!NoLostWakeup /\ Blocking!NoUnexpectedRetry)
<1>1. IInv => Blocking!NoLostWakeup /\ Blocking!NoUnexpectedRetry
  <2> SUFFICES ASSUME IInv PROVE Blocking!NoLostWakeup /\ Blocking!NoUnexpectedRetry
    OBVIOUS
  <2>1. B!NoLostWakeup /\ B!NoUnexpectedRetry
    <3>1. /\ Mshrs \in Nat \ {0} /\ DemandMshrReserve \in Nat
          /\ WriteBuffers \in Nat \ {0} /\ ExtraWriteReserve \in Nat \ {0}
      BY Sizes
    <3>2. B!IndInv
      BY DEF IInv
    <3> QED BY ONLY <3>1, <3>2, B!IndInvImplies
  <2> QED BY <2>1 DEF B!NoLostWakeup, B!NoUnexpectedRetry, Blocking!NoLostWakeup,
                      Blocking!NoUnexpectedRetry
<1> QED BY <1>1, SpecInv, PTL
=============================================================================
