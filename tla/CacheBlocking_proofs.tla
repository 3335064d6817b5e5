----------------------- MODULE CacheBlocking_proofs -----------------------
(***************************************************************************)
(* The safety of the blocking and retry protocol for every size of the     *)
(* MSHR queue and of the write buffer.                                     *)
(***************************************************************************)
EXTENDS CacheBlocking, TLAPS

CacheType ==
    [blocked : SUBSET BlockedCause, portBlocked : BOOLEAN,
     mustSendRetry : BOOLEAN, retryScheduled : BOOLEAN, failed : BOOLEAN,
     allocated : [Queues -> Nat], noTarget : BOOLEAN]

(* What every operation of BaseCache preserves.  The retry event is        *)
(* scheduled exactly while a retry is owed and the port accepts; this is   *)
(* what makes cancelling it in setBlocked and scheduling it again in       *)
(* clearBlocked lose nothing.                                              *)
CacheInv(s) ==
    /\ s \in CacheType
    /\ s.portBlocked <=> s.blocked # {}
    /\ s.retryScheduled <=> (s.mustSendRetry /\ ~s.portBlocked)
    /\ ~s.failed
    /\ \A q \in Queues : q \in s.blocked <=> isFull(s, q)
    /\ "NoTargets" \in s.blocked <=> s.noTarget
    /\ s.allocated["MSHRs"] <= Mshrs

(* The inductive invariant: the cache's, the retry owed to the peer, and   *)
(* an MSHR behind noTargetMSHR, whose response will unblock the cache.     *)
IndInv ==
    /\ CacheInv(c)
    /\ peer \in {"idle", "waiting"}
    /\ c.mustSendRetry <=> peer = "waiting"
    /\ c.noTarget => c.allocated["MSHRs"] > 0

-----------------------------------------------------------------------------
(* A full queue has all of its nominal entries, and only then.             *)
LEMMA FullMeaning ==
    ASSUME NEW s \in CacheType, NEW q \in Queues
    PROVE  /\ num_entries(q) \in Nat \ {0}
           /\ numReserve(q) \in Nat /\ numReserve(q) >= 2
           /\ numEntries(q) \in Nat
           /\ numEntries(q) = num_entries(q) + numReserve(q) - 1
           /\ isFull(s, q) <=> s.allocated[q] >= num_entries(q)
<1>1. s.allocated[q] \in Nat
  BY DEF CacheType
<1>2. num_entries(q) \in Nat \ {0} /\ numReserve(q) \in Nat /\ numReserve(q) >= 2
  BY BlockingAssumption DEF num_entries, numReserve, Queues
<1>3. numEntries(q) = num_entries(q) + numReserve(q) - 1
  BY DEF numEntries
<1>4. isFull(s, q) <=> s.allocated[q] + numReserve(q) > numEntries(q)
  BY DEF isFull
<1> QED
  BY <1>1, <1>2, <1>3, <1>4

(* Taking an entry of a queue keeps the cache consistent as long as the    *)
(* queue has one, and neither owes nor forgives a retry.                   *)
LEMMA AllocateKeepsInv ==
    ASSUME NEW s, CacheInv(s), NEW q \in Queues,
           s.allocated[q] < numEntries(q),
           q = "MSHRs" => s.allocated[q] < Mshrs
    PROVE  /\ CacheInv(allocateBufferInternal(s, q))
           /\ allocateBufferInternal(s, q).mustSendRetry = s.mustSendRetry
           /\ allocateBufferInternal(s, q).noTarget = s.noTarget
           /\ allocateBufferInternal(s, q).allocated
                = [s.allocated EXCEPT ![q] = @ + 1]
           /\ ~isFull(s, q) /\ ~isFull(allocateBufferInternal(s, q), q)
                => allocateBufferInternal(s, q).blocked = s.blocked
<1> DEFINE a == [s EXCEPT !.failed = @ \/ ~(s.allocated[q] < numEntries(q)),
                          !.allocated[q] = @ + 1]
           r == allocateBufferInternal(s, q)
<1>1. s \in CacheType
  BY DEF CacheInv
<1>2. a \in CacheType
  <2>1. (s.failed \/ ~(s.allocated[q] < numEntries(q))) \in BOOLEAN
    OBVIOUS
  <2>2. s.allocated[q] + 1 \in Nat
    BY <1>1 DEF CacheType
  <2>3. [s.allocated EXCEPT ![q] = @ + 1] \in [Queues -> Nat]
    BY <1>1, <2>2 DEF CacheType
  <2> QED
    BY <1>1, <2>1, <2>3 DEF CacheType
<1>3. /\ a.blocked = s.blocked /\ a.portBlocked = s.portBlocked
      /\ a.mustSendRetry = s.mustSendRetry
      /\ a.retryScheduled = s.retryScheduled /\ ~a.failed
      /\ a.noTarget = s.noTarget
      /\ a.allocated = [s.allocated EXCEPT ![q] = @ + 1]
  BY <1>1 DEF CacheInv, CacheType
<1>4. r = IF isFull(a, q) THEN setBlocked(a, q) ELSE a
  BY DEF allocateBufferInternal
<1>5. \A p \in Queues \ {q} : a.allocated[p] = s.allocated[p]
  BY <1>1, <1>3 DEF CacheType
<1>6. a.allocated[q] = s.allocated[q] + 1 /\ s.allocated[q] \in Nat
  BY <1>1, <1>3 DEF CacheType
<1>7. \A p \in Queues \ {q} : isFull(a, p) <=> isFull(s, p)
  BY <1>5 DEF isFull
<1>8. isFull(s, q) => isFull(a, q)
  <2>1. /\ isFull(s, q) <=> s.allocated[q] >= num_entries(q)
        /\ num_entries(q) \in Nat
    BY <1>1, FullMeaning
  <2>2. isFull(a, q) <=> a.allocated[q] >= num_entries(q)
    BY <1>2, FullMeaning
  <2> QED
    BY <2>1, <2>2, <1>6
<1>9. a.allocated["MSHRs"] <= Mshrs
  <2>1. CASE q = "MSHRs"
    BY <2>1, <1>6, BlockingAssumption
  <2>2. CASE q # "MSHRs"
    BY <2>2, <1>5 DEF CacheInv, Queues
  <2> QED  BY <2>1, <2>2
<1>10. CASE ~isFull(a, q)
  <2>1. r = a
    BY <1>4, <1>10
  <2>2. \A p \in Queues : p \in a.blocked <=> isFull(a, p)
    BY <1>3, <1>7, <1>8, <1>10 DEF CacheInv
  <2> QED
    BY <2>1, <2>2, <1>2, <1>3, <1>9 DEF CacheInv
<1>11. CASE isFull(a, q)
  <2> DEFINE p == IF a.blocked = {} THEN CacheSlavePort_setBlocked(a) ELSE a
  <2>1. r = [p EXCEPT !.blocked = @ \cup {q}]
    BY <1>4, <1>11 DEF setBlocked
  <2>2. /\ p \in CacheType /\ p.portBlocked /\ ~p.failed /\ ~p.retryScheduled
        /\ p.mustSendRetry = s.mustSendRetry /\ p.noTarget = s.noTarget
        /\ p.allocated = a.allocated /\ p.blocked = s.blocked
    <3>1. CASE a.blocked = {}
      BY <3>1, <1>2, <1>3 DEF CacheSlavePort_setBlocked, CacheType, CacheInv
    <3>2. CASE a.blocked # {}
      BY <3>2, <1>2, <1>3 DEF CacheInv
    <3> QED  BY <3>1, <3>2
  <2>3. /\ r \in CacheType /\ r.portBlocked /\ ~r.failed /\ ~r.retryScheduled
        /\ r.mustSendRetry = s.mustSendRetry /\ r.noTarget = s.noTarget
        /\ r.allocated = a.allocated /\ r.blocked = s.blocked \cup {q}
    <3> HIDE DEF p, r, a
    <3>1. p.blocked \cup {q} \in SUBSET BlockedCause
      BY <2>2 DEF CacheType, BlockedCause
    <3> QED
      BY <2>1, <2>2, <3>1 DEF CacheType
  <2>4. \A u \in Queues : isFull(r, u) <=> isFull(a, u)
    BY <2>3 DEF isFull
  <2>5. \A u \in Queues : u \in r.blocked <=> isFull(r, u)
    BY <2>3, <2>4, <1>7, <1>11 DEF CacheInv
  <2>6. "NoTargets" \in r.blocked <=> r.noTarget
    BY <2>3 DEF CacheInv, Queues
  <2>7. CacheInv(r)
    BY <2>3, <2>5, <2>6, <1>9 DEF CacheInv
  <2>8. isFull(r, q)
    BY <2>4, <1>11
  <2> QED
    BY <2>3, <2>7, <2>8, <1>3
<1> QED
  BY <1>10, <1>11

(* Clearing a cause that is set, with the state it stands for already      *)
(* corrected or about to be, keeps port and mask in step.                  *)
LEMMA ClearKeepsPort ==
    ASSUME NEW s \in CacheType, NEW cause \in BlockedCause, cause \in s.blocked,
           s.portBlocked, ~s.failed, ~s.retryScheduled
    PROVE  LET r == clearBlocked(s, cause)
           IN  /\ r \in CacheType /\ r.blocked = s.blocked \ {cause}
               /\ r.portBlocked <=> r.blocked # {}
               /\ r.retryScheduled <=> (r.mustSendRetry /\ ~r.portBlocked)
               /\ ~r.failed /\ r.mustSendRetry = s.mustSendRetry
               /\ r.noTarget = s.noTarget /\ r.allocated = s.allocated
<1> DEFINE m == [s EXCEPT !.blocked = @ \ {cause}]
<1>1. /\ m \in CacheType /\ m.blocked = s.blocked \ {cause} /\ m.portBlocked
      /\ ~m.failed /\ ~m.retryScheduled /\ m.mustSendRetry = s.mustSendRetry
      /\ m.noTarget = s.noTarget /\ m.allocated = s.allocated
  BY DEF CacheType
<1>2. clearBlocked(s, cause)
        = IF m.blocked = {} THEN CacheSlavePort_clearBlocked(m) ELSE m
  BY DEF clearBlocked
<1>3. CASE m.blocked = {}
  BY <1>1, <1>2, <1>3 DEF CacheSlavePort_clearBlocked, CacheType
<1>4. CASE m.blocked # {}
  BY <1>1, <1>2, <1>4
<1> QED
  BY <1>3, <1>4

(* Giving an entry back keeps the cache consistent.                        *)
LEMMA DeallocateKeepsInv ==
    ASSUME NEW s, CacheInv(s), NEW q \in Queues, s.allocated[q] > 0
    PROVE  /\ CacheInv(deallocate(s, q))
           /\ deallocate(s, q).mustSendRetry = s.mustSendRetry
           /\ deallocate(s, q).noTarget = s.noTarget
           /\ deallocate(s, q).allocated = [s.allocated EXCEPT ![q] = @ - 1]
<1> DEFINE d == [s EXCEPT !.allocated[q] = @ - 1]
           r == deallocate(s, q)
<1>1. s \in CacheType /\ s.allocated[q] \in Nat
  BY DEF CacheInv, CacheType
<1>2. s.allocated[q] - 1 \in Nat
  BY <1>1
<1>3. /\ d \in CacheType /\ d.allocated = [s.allocated EXCEPT ![q] = @ - 1]
      /\ d.blocked = s.blocked /\ d.portBlocked = s.portBlocked
      /\ d.mustSendRetry = s.mustSendRetry
      /\ d.retryScheduled = s.retryScheduled
      /\ d.failed = s.failed /\ d.noTarget = s.noTarget
  BY <1>1, <1>2 DEF CacheType
<1>4. d.allocated[q] = s.allocated[q] - 1
  BY <1>1, <1>3 DEF CacheType
<1>5. \A p \in Queues \ {q} : d.allocated[p] = s.allocated[p]
  BY <1>1, <1>3 DEF CacheType
<1>6. \A p \in Queues \ {q} : isFull(d, p) <=> isFull(s, p)
  BY <1>5 DEF isFull
<1>7. isFull(d, q) => isFull(s, q)
  <2>1. /\ isFull(s, q) <=> s.allocated[q] >= num_entries(q)
        /\ num_entries(q) \in Nat
    BY <1>1, FullMeaning
  <2>2. isFull(d, q) <=> d.allocated[q] >= num_entries(q)
    BY <1>3, FullMeaning
  <2> QED
    BY <2>1, <2>2, <1>1, <1>4
<1>8. d.allocated["MSHRs"] <= Mshrs
  <2>1. CASE q = "MSHRs"
    BY <2>1, <1>1, <1>4, BlockingAssumption DEF CacheInv
  <2>2. CASE q # "MSHRs"
    BY <2>2, <1>5 DEF CacheInv, Queues
  <2> QED  BY <2>1, <2>2
<1>9. r = IF isFull(s, q) /\ ~isFull(d, q) THEN clearBlocked(d, q) ELSE d
  BY DEF deallocate
<1>10. CASE isFull(s, q) /\ ~isFull(d, q)
  <2>1. r = clearBlocked(d, q)
    BY <1>9, <1>10
  <2>2. q \in d.blocked /\ d.portBlocked /\ ~d.failed /\ ~d.retryScheduled
    BY <1>3, <1>10 DEF CacheInv
  <2>3. q \in BlockedCause
    BY DEF BlockedCause
  <2>4. /\ r \in CacheType /\ r.blocked = d.blocked \ {q}
        /\ r.portBlocked <=> r.blocked # {}
        /\ r.retryScheduled <=> (r.mustSendRetry /\ ~r.portBlocked)
        /\ ~r.failed /\ r.mustSendRetry = d.mustSendRetry
        /\ r.noTarget = d.noTarget /\ r.allocated = d.allocated
    <3>1. d \in CacheType
      BY <1>3
    <3> HIDE DEF d, r
    <3>2. LET z == clearBlocked(d, q)
          IN  /\ z \in CacheType /\ z.blocked = d.blocked \ {q}
              /\ z.portBlocked <=> z.blocked # {}
              /\ z.retryScheduled <=> (z.mustSendRetry /\ ~z.portBlocked)
              /\ ~z.failed /\ z.mustSendRetry = d.mustSendRetry
              /\ z.noTarget = d.noTarget /\ z.allocated = d.allocated
      BY <2>2, <2>3, <3>1, ClearKeepsPort
    <3> QED
      BY <2>1, <3>2
  <2>5. \A u \in Queues : isFull(r, u) <=> isFull(d, u)
    BY <2>4 DEF isFull
  <2>6. \A u \in Queues : u \in r.blocked <=> isFull(r, u)
    BY <2>4, <2>5, <1>3, <1>6, <1>10 DEF CacheInv
  <2>7. "NoTargets" \in r.blocked <=> r.noTarget
    BY <2>4, <1>3 DEF CacheInv, Queues
  <2> QED
    BY <2>4, <2>6, <2>7, <1>3, <1>8 DEF CacheInv
<1>11. CASE ~(isFull(s, q) /\ ~isFull(d, q))
  <2>1. r = d
    BY <1>9, <1>11
  <2>2. \A u \in Queues : u \in d.blocked <=> isFull(d, u)
    BY <1>3, <1>6, <1>7, <1>11 DEF CacheInv
  <2> QED
    BY <2>1, <2>2, <1>3, <1>8 DEF CacheInv
<1> QED
  BY <1>10, <1>11

-----------------------------------------------------------------------------
(* The replaced block of a fill, moved to the write buffer or not.         *)
LEMMA WritebackKeepsInv ==
    ASSUME NEW d, CacheInv(d), NEW wb \in BOOLEAN, NEW r,
           wb => d.allocated["WriteBuffer"] < numEntries("WriteBuffer"),
           r = IF wb THEN allocateBufferInternal(d, "WriteBuffer") ELSE d,
           d.noTarget => d.allocated["MSHRs"] > 0
    PROVE  /\ CacheInv(r) /\ r.mustSendRetry = d.mustSendRetry
           /\ r.noTarget => r.allocated["MSHRs"] > 0
<1>1. CASE wb
  <2>1. /\ CacheInv(r) /\ r.mustSendRetry = d.mustSendRetry
        /\ r.noTarget = d.noTarget
        /\ r.allocated = [d.allocated EXCEPT !["WriteBuffer"] = @ + 1]
    BY <1>1, AllocateKeepsInv DEF Queues
  <2> QED
    BY <2>1 DEF CacheInv, CacheType, Queues
<1>2. CASE ~wb
  BY <1>2
<1> QED
  BY <1>1, <1>2

(* A request in hand: each way Cache::recvTimingReq can end keeps the cache *)
(* consistent when the port accepted the request, and owes no retry.       *)
LEMMA HandleKeepsInv ==
    ASSUME NEW s, CacheInv(s), Accepts(s), NEW wb \in BOOLEAN,
           NEW o \in {"hit", "miss", "write", "lastTarget"},
           o = "lastTarget" => ~wb
    PROVE  /\ CacheInv(Handle(s, wb, o)) /\ ~Handle(s, wb, o).mustSendRetry
           /\ Handle(s, wb, o).noTarget
                => o = "lastTarget" /\ Handle(s, wb, o).allocated = s.allocated
<1> DEFINE w == IF wb THEN allocateBufferInternal(s, "WriteBuffer") ELSE s
<1>1. /\ s \in CacheType /\ s.blocked = {} /\ ~s.mustSendRetry
      /\ ~s.retryScheduled /\ ~s.failed /\ ~s.noTarget /\ ~s.portBlocked
  BY DEF CacheInv, Accepts
<1>2. "MSHRs" \in Queues /\ "WriteBuffer" \in Queues
  BY DEF Queues
<1>3. s.allocated["MSHRs"] \in Nat /\ s.allocated["WriteBuffer"] \in Nat
  BY <1>1, <1>2 DEF CacheType
<1>4. /\ s.allocated["MSHRs"] < Mshrs
      /\ s.allocated["MSHRs"] < numEntries("MSHRs")
      /\ s.allocated["WriteBuffer"] + 1 < numEntries("WriteBuffer")
  <2>1. ~isFull(s, "MSHRs") /\ ~isFull(s, "WriteBuffer")
    BY <1>1, <1>2 DEF CacheInv
  <2>2. num_entries("MSHRs") = Mshrs
    BY DEF num_entries
  <2> QED
    BY <1>1, <1>2, <1>3, <2>1, <2>2, FullMeaning, BlockingAssumption
<1>5. /\ CacheInv(w) /\ ~w.mustSendRetry
      /\ w.allocated["MSHRs"] = s.allocated["MSHRs"]
      /\ w.allocated["WriteBuffer"] \in
            {s.allocated["WriteBuffer"], s.allocated["WriteBuffer"] + 1}
      /\ ~wb => w = s
      /\ ~w.noTarget
  <2>1. CASE wb
    <3>1. s.allocated["WriteBuffer"] < numEntries("WriteBuffer")
      BY <1>1, <1>2, <1>3, <1>4, FullMeaning
    <3>2. /\ CacheInv(w) /\ w.mustSendRetry = s.mustSendRetry
          /\ w.noTarget = s.noTarget
          /\ w.allocated = [s.allocated EXCEPT !["WriteBuffer"] = @ + 1]
      BY <2>1, <3>1, <1>2, AllocateKeepsInv
    <3> QED
      BY <2>1, <3>2, <1>1, <1>2 DEF CacheType
  <2>2. CASE ~wb
    BY <2>2, <1>1
  <2> QED  BY <2>1, <2>2
<1> HIDE DEF w
<1>6. CASE o = "hit"
  <2>1. Handle(s, wb, o) = w
    BY <1>6 DEF Handle, w
  <2> QED  BY <2>1, <1>5
<1>7. CASE o = "miss"
  <2>1. Handle(s, wb, o) = allocateBufferInternal(w, "MSHRs")
    BY <1>7 DEF Handle, w
  <2>2. /\ w.allocated["MSHRs"] < numEntries("MSHRs")
        /\ "MSHRs" = "MSHRs" => w.allocated["MSHRs"] < Mshrs
    BY <1>4, <1>5
  <2>3. /\ CacheInv(allocateBufferInternal(w, "MSHRs"))
        /\ allocateBufferInternal(w, "MSHRs").mustSendRetry = w.mustSendRetry
        /\ allocateBufferInternal(w, "MSHRs").noTarget = w.noTarget
    BY <2>2, <1>2, <1>5, AllocateKeepsInv
  <2> QED  BY <2>1, <2>3, <1>5
<1>8. CASE o = "write"
  <2>1. Handle(s, wb, o) = allocateBufferInternal(w, "WriteBuffer")
    BY <1>8 DEF Handle, w
  <2>2. w.allocated["WriteBuffer"] < numEntries("WriteBuffer")
    BY <1>1, <1>2, <1>3, <1>4, <1>5, FullMeaning
  <2>3. /\ CacheInv(allocateBufferInternal(w, "WriteBuffer"))
        /\ allocateBufferInternal(w, "WriteBuffer").mustSendRetry
              = w.mustSendRetry
        /\ allocateBufferInternal(w, "WriteBuffer").noTarget = w.noTarget
    BY <2>2, <1>2, <1>5, AllocateKeepsInv
  <2> QED  BY <2>1, <2>3, <1>5
<1>9. CASE o = "lastTarget"
  <2> DEFINE n == [s EXCEPT !.noTarget = TRUE]
             p == CacheSlavePort_setBlocked(n)
             r == [p EXCEPT !.blocked = @ \cup {"NoTargets"}]
  <2>1. w = s
    BY <1>5, <1>9
  <2>2. /\ n \in CacheType /\ n.blocked = {} /\ n.noTarget
        /\ ~n.mustSendRetry /\ ~n.retryScheduled /\ ~n.failed
        /\ ~n.portBlocked /\ n.allocated = s.allocated
    BY <1>1 DEF CacheType
  <2>3. Handle(s, wb, o) = r
    BY <1>9, <2>1, <2>2 DEF Handle, w, setBlocked
  <2> HIDE DEF n
  <2>4. /\ p \in CacheType /\ p.blocked = {} /\ p.noTarget
        /\ ~p.mustSendRetry /\ ~p.retryScheduled /\ ~p.failed
        /\ p.portBlocked /\ p.allocated = s.allocated
    BY <2>2 DEF CacheSlavePort_setBlocked, CacheType
  <2> HIDE DEF p
  <2>5. /\ r \in CacheType /\ r.blocked = {"NoTargets"} /\ r.noTarget
        /\ ~r.mustSendRetry /\ ~r.retryScheduled /\ ~r.failed
        /\ r.portBlocked /\ r.allocated = s.allocated
    BY <2>4 DEF CacheType, BlockedCause
  <2>6. \A q \in Queues : ~isFull(s, q)
    BY <1>1 DEF CacheInv
  <2>7. \A q \in Queues : ~isFull(r, q)
    BY <2>5, <2>6 DEF isFull
  <2>8. CacheInv(r)
    BY <2>5, <2>7 DEF CacheInv, Queues
  <2> QED  BY <1>9, <2>3, <2>5, <2>8
<1> QED
  BY <1>6, <1>7, <1>8, <1>9

(* The response of noTargetMSHR: its cause is cleared with its pointer.    *)
LEMMA ClearNoTargetKeepsInv ==
    ASSUME NEW s, CacheInv(s), s.noTarget
    PROVE  LET n == [clearBlocked(s, "NoTargets") EXCEPT !.noTarget = FALSE]
           IN  /\ CacheInv(n) /\ n.mustSendRetry = s.mustSendRetry
               /\ n.allocated = s.allocated /\ ~n.noTarget
<1> DEFINE r == clearBlocked(s, "NoTargets")
           n == [r EXCEPT !.noTarget = FALSE]
<1>1. /\ s \in CacheType /\ "NoTargets" \in s.blocked /\ s.portBlocked
      /\ ~s.failed /\ ~s.retryScheduled /\ "NoTargets" \in BlockedCause
  BY DEF CacheInv, BlockedCause
<1>2. /\ r \in CacheType /\ r.blocked = s.blocked \ {"NoTargets"}
      /\ r.portBlocked <=> r.blocked # {}
      /\ r.retryScheduled <=> (r.mustSendRetry /\ ~r.portBlocked)
      /\ ~r.failed /\ r.mustSendRetry = s.mustSendRetry
      /\ r.noTarget = s.noTarget /\ r.allocated = s.allocated
  BY <1>1, ClearKeepsPort
<1> HIDE DEF r
<1>3. /\ n \in CacheType /\ n.blocked = s.blocked \ {"NoTargets"}
      /\ n.portBlocked <=> n.blocked # {}
      /\ n.retryScheduled <=> (n.mustSendRetry /\ ~n.portBlocked)
      /\ ~n.failed /\ n.mustSendRetry = s.mustSendRetry
      /\ ~n.noTarget /\ n.allocated = s.allocated
  BY <1>2 DEF CacheType
<1> HIDE DEF n
<1>4. \A q \in Queues : q \in n.blocked <=> isFull(n, q)
  <2>1. \A q \in Queues : isFull(n, q) <=> isFull(s, q)
    BY <1>3 DEF isFull
  <2> QED
    BY <2>1, <1>3 DEF CacheInv, Queues
<1>5. CacheInv(n)
  BY <1>3, <1>4 DEF CacheInv
<1> QED
  BY <1>3, <1>5 DEF n, r

-----------------------------------------------------------------------------
(* Every step of the cache and of its master keeps the inductive invariant. *)
LEMMA StepKeepsIndInv == IndInv /\ [Next]_vars => IndInv'
<1> SUFFICES ASSUME IndInv, [Next]_vars PROVE IndInv'
  OBVIOUS
<1>0. /\ CacheInv(c) /\ c \in CacheType
      /\ "MSHRs" \in Queues /\ "WriteBuffer" \in Queues
      /\ c.allocated["MSHRs"] \in Nat /\ c.allocated["WriteBuffer"] \in Nat
  BY DEF IndInv, CacheInv, CacheType, Queues
<1>1. CASE RefuseReq
  <2>1. c' = [c EXCEPT !.mustSendRetry = TRUE] /\ peer' = "waiting"
    BY <1>1 DEF RefuseReq
  <2>2. /\ c' \in CacheType /\ c'.mustSendRetry /\ c'.blocked = c.blocked
        /\ c'.portBlocked = c.portBlocked /\ c'.failed = c.failed
        /\ c'.retryScheduled = c.retryScheduled
        /\ c'.allocated = c.allocated /\ c'.noTarget = c.noTarget
    BY <2>1, <1>0 DEF CacheType
  <2>3. \A q \in Queues : isFull(c', q) <=> isFull(c, q)
    BY <2>2 DEF isFull
  <2>4. c.portBlocked \/ c.mustSendRetry
    BY <1>1 DEF RefuseReq, Accepts
  <2>5. c'.retryScheduled <=> (c'.mustSendRetry /\ ~c'.portBlocked)
    BY <2>2, <2>4, <1>0 DEF CacheInv
  <2>6. CacheInv(c')
    BY <2>2, <2>3, <2>5, <1>0 DEF CacheInv
  <2> QED
    BY <2>1, <2>2, <2>6 DEF IndInv
<1>2. ASSUME NEW wb \in BOOLEAN,
             NEW o \in {"hit", "miss", "write", "lastTarget"},
             AcceptReq(wb, o)
      PROVE  IndInv'
  <2> DEFINE h == Handle(c, wb, o)
  <2>1. /\ CacheInv(h) /\ ~h.mustSendRetry
        /\ h.noTarget => o = "lastTarget" /\ h.allocated = c.allocated
    BY <1>0, <1>2, HandleKeepsInv DEF AcceptReq
  <2>2. c' = [h EXCEPT !.mustSendRetry = FALSE] /\ peer' = peer
    BY <1>2 DEF AcceptReq
  <2> HIDE DEF h
  <2>3. h \in CacheType /\ h.mustSendRetry = FALSE
    BY <2>1 DEF CacheInv, CacheType
  <2>4. c' = h
    BY <2>2, <2>3 DEF CacheType
  <2>5. ~c.mustSendRetry
    BY <1>2 DEF AcceptReq, Accepts
  <2>6. c'.noTarget => c'.allocated["MSHRs"] > 0
    BY <1>2, <2>1, <2>4 DEF AcceptReq
  <2> QED
    BY <2>1, <2>2, <2>4, <2>5, <2>6 DEF IndInv
<1>3. CASE ProcessSendRetry
  <2>1. /\ c.retryScheduled /\ peer' = "idle"
        /\ c' = [c EXCEPT !.retryScheduled = FALSE, !.mustSendRetry = FALSE]
    BY <1>3 DEF ProcessSendRetry
  <2>2. /\ c' \in CacheType /\ ~c'.mustSendRetry /\ c'.blocked = c.blocked
        /\ c'.portBlocked = c.portBlocked /\ c'.failed = c.failed
        /\ ~c'.retryScheduled
        /\ c'.allocated = c.allocated /\ c'.noTarget = c.noTarget
    BY <2>1, <1>0 DEF CacheType
  <2>3. \A q \in Queues : isFull(c', q) <=> isFull(c, q)
    BY <2>2 DEF isFull
  <2>4. CacheInv(c')
    BY <2>2, <2>3, <1>0 DEF CacheInv
  <2> QED
    BY <2>1, <2>2, <2>4 DEF IndInv
<1>4. CASE IssuePrefetch
  <2>1. /\ c.allocated["MSHRs"] < numEntries("MSHRs")
        /\ c.allocated["MSHRs"] < Mshrs
    BY <1>0, <1>4, BlockingAssumption
    DEF IssuePrefetch, canPrefetch, numEntries, num_entries, numReserve,
        demandReserve
  <2>2. /\ CacheInv(allocateBufferInternal(c, "MSHRs"))
        /\ allocateBufferInternal(c, "MSHRs").mustSendRetry = c.mustSendRetry
        /\ allocateBufferInternal(c, "MSHRs").allocated
             = [c.allocated EXCEPT !["MSHRs"] = @ + 1]
    BY <2>1, <1>0, AllocateKeepsInv
  <2>3. c'.allocated["MSHRs"] = c.allocated["MSHRs"] + 1
    BY <1>0, <1>4, <2>2 DEF IssuePrefetch, CacheType
  <2> QED
    BY <1>0, <1>4, <2>2, <2>3 DEF IssuePrefetch, IndInv
<1>5. CASE MarkInService
  <2>1. /\ CacheInv(deallocate(c, "WriteBuffer"))
        /\ deallocate(c, "WriteBuffer").mustSendRetry = c.mustSendRetry
        /\ deallocate(c, "WriteBuffer").noTarget = c.noTarget
        /\ deallocate(c, "WriteBuffer").allocated
             = [c.allocated EXCEPT !["WriteBuffer"] = @ - 1]
    BY <1>0, <1>5, DeallocateKeepsInv DEF MarkInService
  <2>2. c'.allocated["MSHRs"] = c.allocated["MSHRs"]
    BY <1>0, <1>5, <2>1 DEF MarkInService, CacheType
  <2> QED
    BY <1>5, <2>1, <2>2 DEF MarkInService, IndInv
<1>6. CASE ForceDeallocate
  <2>1. c.allocated["MSHRs"] > 0
    BY <1>0, <1>6 DEF ForceDeallocate, OtherMSHR
  <2>2. /\ CacheInv(deallocate(c, "MSHRs"))
        /\ deallocate(c, "MSHRs").mustSendRetry = c.mustSendRetry
        /\ deallocate(c, "MSHRs").noTarget = c.noTarget
        /\ deallocate(c, "MSHRs").allocated
             = [c.allocated EXCEPT !["MSHRs"] = @ - 1]
    BY <1>0, <2>1, DeallocateKeepsInv
  <2>3. c'.noTarget => c'.allocated["MSHRs"] > 0
    BY <1>0, <1>6, <2>2 DEF ForceDeallocate, OtherMSHR, CacheType
  <2> QED
    BY <1>6, <2>2, <2>3 DEF ForceDeallocate, IndInv
<1>7. ASSUME NEW q \in Queues, NEW again \in BOOLEAN, NEW wb \in BOOLEAN,
             RecvTimingResp(q, again, wb)
      PROVE  IndInv'
  <2> DEFINE d == IF again THEN c ELSE deallocate(c, q)
  <2>1. c.allocated[q] > 0
    BY <1>0, <1>7 DEF RecvTimingResp, OtherMSHR, Queues
  <2>2. /\ CacheInv(d) /\ d.mustSendRetry = c.mustSendRetry
        /\ wb => d.allocated["WriteBuffer"] = c.allocated["WriteBuffer"]
        /\ d.noTarget => d.allocated["MSHRs"] > 0
    <3>1. CASE again
      BY <3>1, <1>0 DEF IndInv
    <3>2. CASE ~again
      <4>1. /\ CacheInv(d) /\ d.mustSendRetry = c.mustSendRetry
            /\ d.noTarget = c.noTarget
            /\ d.allocated = [c.allocated EXCEPT ![q] = @ - 1]
        BY <3>2, <1>0, <2>1, DeallocateKeepsInv
      <4>2. wb => q = "MSHRs"
        BY <1>7 DEF RecvTimingResp, Queues
      <4>3. d.noTarget => d.allocated["MSHRs"] > 0
        <5>1. CASE q = "MSHRs"
          BY <5>1, <4>1, <1>0, <1>7 DEF RecvTimingResp, OtherMSHR, CacheType
        <5>2. CASE q # "MSHRs"
          BY <5>2, <4>1, <1>0 DEF IndInv, CacheType
        <5> QED  BY <5>1, <5>2
      <4> QED
        BY <4>1, <4>2, <4>3, <1>0 DEF CacheType
    <3> QED  BY <3>1, <3>2
  <2>3. /\ c' = IF wb THEN allocateBufferInternal(d, "WriteBuffer") ELSE d
        /\ peer' = peer
    BY <1>7 DEF RecvTimingResp, Respond
  <2>4. wb => d.allocated["WriteBuffer"] < numEntries("WriteBuffer")
    BY <1>7, <2>2 DEF RecvTimingResp, RoomInWriteBuffer
  <2> HIDE DEF d
  <2>5. /\ CacheInv(c') /\ c'.mustSendRetry = c.mustSendRetry
        /\ c'.noTarget => c'.allocated["MSHRs"] > 0
    BY <1>0, <2>2, <2>3, <2>4, WritebackKeepsInv
  <2> QED
    BY <2>3, <2>5 DEF IndInv
<1>8. ASSUME NEW again \in BOOLEAN, NEW wb \in BOOLEAN,
             RecvNoTargetResp(again, wb)
      PROVE  IndInv'
  <2> DEFINE n == [clearBlocked(c, "NoTargets") EXCEPT !.noTarget = FALSE]
             d == IF again THEN n ELSE deallocate(n, "MSHRs")
  <2>1. /\ CacheInv(n) /\ n.mustSendRetry = c.mustSendRetry
        /\ n.allocated = c.allocated /\ ~n.noTarget
    BY <1>0, <1>8, ClearNoTargetKeepsInv DEF RecvNoTargetResp
  <2>2. /\ c' = IF wb THEN allocateBufferInternal(d, "WriteBuffer") ELSE d
        /\ peer' = peer
    BY <1>8 DEF RecvNoTargetResp, RespondNoTarget
  <2>3. /\ CacheInv(d) /\ d.mustSendRetry = c.mustSendRetry
        /\ d.allocated["WriteBuffer"] = c.allocated["WriteBuffer"]
        /\ ~d.noTarget
    <3> HIDE DEF n
    <3>1. CASE again
      BY <3>1, <2>1
    <3>2. CASE ~again
      <4>1. n.allocated["MSHRs"] > 0
        BY <1>8, <2>1 DEF RecvNoTargetResp, IndInv
      <4>2. /\ CacheInv(d) /\ d.mustSendRetry = n.mustSendRetry
            /\ d.noTarget = n.noTarget
            /\ d.allocated = [n.allocated EXCEPT !["MSHRs"] = @ - 1]
        BY <3>2, <4>1, <1>0, <2>1, DeallocateKeepsInv
      <4> QED
        BY <4>2, <1>0, <2>1 DEF CacheType
    <3> QED  BY <3>1, <3>2
  <2>4. wb => d.allocated["WriteBuffer"] < numEntries("WriteBuffer")
    BY <1>8, <2>3 DEF RecvNoTargetResp, RoomInWriteBuffer
  <2> HIDE DEF d
  <2>5. /\ CacheInv(c') /\ c'.mustSendRetry = c.mustSendRetry
        /\ c'.noTarget => c'.allocated["MSHRs"] > 0
    BY <1>0, <2>2, <2>3, <2>4, WritebackKeepsInv
  <2> QED
    BY <2>2, <2>5 DEF IndInv
<1>9. CASE UNCHANGED vars
  BY <1>9 DEF vars, IndInv, CacheInv, isFull
<1> QED
  BY <1>1, <1>2, <1>3, <1>4, <1>5, <1>6, <1>7, <1>8, <1>9 DEF Next

(* The cache as its constructor leaves it satisfies the invariant.         *)
LEMMA InitIndInv == Init => IndInv
<1> SUFFICES ASSUME Init PROVE IndInv
  OBVIOUS
<1>1. /\ c \in CacheType /\ c.blocked = {} /\ ~c.portBlocked
      /\ ~c.mustSendRetry /\ ~c.retryScheduled /\ ~c.failed /\ ~c.noTarget
      /\ c.allocated = [q \in Queues |-> 0]
  BY DEF Init, CacheType
<1>2. \A q \in Queues : ~isFull(c, q)
  BY <1>1, FullMeaning
<1> QED
  BY <1>1, <1>2, BlockingAssumption DEF Init, IndInv, CacheInv, Queues

(* The inductive invariant implies each of the invariants of the module.   *)
LEMMA IndInvImplies ==
    IndInv => /\ TypeOK /\ NoLostWakeup /\ NoUnexpectedRetry
              /\ BlockedExactlyWhenExhausted /\ AssertionsHold
              /\ MSHRsWithinLimit
<1> SUFFICES ASSUME IndInv
             PROVE  /\ TypeOK /\ NoLostWakeup /\ NoUnexpectedRetry
                    /\ BlockedExactlyWhenExhausted /\ AssertionsHold
                    /\ MSHRsWithinLimit
  OBVIOUS
<1>1. TypeOK
  BY DEF IndInv, CacheInv, CacheType, TypeOK
<1>2. NoLostWakeup /\ NoUnexpectedRetry
  BY DEF IndInv, CacheInv, NoLostWakeup, NoUnexpectedRetry
<1>3. BlockedExactlyWhenExhausted /\ AssertionsHold /\ MSHRsWithinLimit
  BY DEF IndInv, CacheInv, BlockedExactlyWhenExhausted, AssertionsHold,
         MSHRsWithinLimit
<1> QED
  BY <1>1, <1>2, <1>3

(* So the invariant holds in every state of every behaviour.               *)
LEMMA SpecIndInv == Spec => []IndInv
  BY InitIndInv, StepKeepsIndInv, PTL DEF Spec

(* The variables keep their types, for every size of the two queues.       *)
THEOREM TypeCorrect == Spec => []TypeOK
  BY SpecIndInv, IndInvImplies, PTL

(* No lost wake-up (CacheSlavePort::setBlocked and clearBlocked): a refused *)
(* master always has a cause to wait for or a scheduled retry.             *)
THEOREM RefusedMasterIsRetried == Spec => []NoLostWakeup
  BY SpecIndInv, IndInvImplies, PTL

(* Retries are owed exactly to a refused master, and never sent while the  *)
(* port is blocked (CacheSlavePort::processSendRetry).                     *)
THEOREM RetryOnlyWhenOwed == Spec => []NoUnexpectedRetry
  BY SpecIndInv, IndInvImplies, PTL

(* The blocked mask is exact (BaseCache::setBlocked and clearBlocked, as   *)
(* called by allocateBufferInternal, markInServiceInternal,                *)
(* recvTimingReq, recvTimingResp and getTimingPacket).                     *)
THEOREM MaskIsExact == Spec => []BlockedExactlyWhenExhausted
  BY SpecIndInv, IndInvImplies, PTL

(* No assert of the blocking code can fail.                                *)
THEOREM NoAssertFails == Spec => []AssertionsHold
  BY SpecIndInv, IndInvImplies, PTL

(* The MSHR queue stays within its nominal size although it is built with  *)
(* reserve entries (MSHRQueue::isFull, allocateBufferInternal).            *)
THEOREM NominalSizeKept == Spec => []MSHRsWithinLimit
  BY SpecIndInv, IndInvImplies, PTL

(* A prefetch issued by Cache::getNextMSHR neither blocks the cache nor    *)
(* touches the MSHRs reserved for demand misses.                           *)
THEOREM PrefetchLeavesDemandMSHRs == Spec => PrefetchNeverBlocks
<1> DEFINE Step == IssuePrefetch =>
                     /\ c'.blocked = c.blocked
                     /\ c'.allocated["MSHRs"] + DemandMshrReserve < Mshrs
<1>1. ASSUME IndInv, [Next]_vars PROVE [Step]_vars
  <2> SUFFICES ASSUME IssuePrefetch
               PROVE  /\ c'.blocked = c.blocked
                      /\ c'.allocated["MSHRs"] + DemandMshrReserve < Mshrs
    OBVIOUS
  <2> DEFINE r == allocateBufferInternal(c, "MSHRs")
  <2>1. /\ CacheInv(c) /\ c \in CacheType /\ "MSHRs" \in Queues
        /\ c.allocated["MSHRs"] \in Nat /\ c' = r
    BY <1>1 DEF IndInv, CacheInv, CacheType, Queues, IssuePrefetch
  <2>2. c.allocated["MSHRs"] + 1 + DemandMshrReserve < Mshrs
    BY <2>1, BlockingAssumption
    DEF IssuePrefetch, canPrefetch, numEntries, num_entries, numReserve,
        demandReserve
  <2>3. /\ c.allocated["MSHRs"] < numEntries("MSHRs")
        /\ c.allocated["MSHRs"] < Mshrs
    BY <2>1, <2>2, BlockingAssumption DEF numEntries, num_entries, numReserve
  <2>4. /\ CacheInv(r) /\ r.allocated = [c.allocated EXCEPT !["MSHRs"] = @ + 1]
        /\ ~isFull(c, "MSHRs") /\ ~isFull(r, "MSHRs") => r.blocked = c.blocked
    BY <2>1, <2>3, AllocateKeepsInv
  <2>5. r.allocated["MSHRs"] = c.allocated["MSHRs"] + 1
    BY <2>1, <2>4 DEF CacheType
  <2>6. r \in CacheType /\ num_entries("MSHRs") = Mshrs
    BY <2>4 DEF CacheInv, num_entries
  <2> HIDE DEF r
  <2>7. ~isFull(c, "MSHRs") /\ ~isFull(r, "MSHRs")
    <3>1. isFull(c, "MSHRs") <=> c.allocated["MSHRs"] >= Mshrs
      BY <2>1, <2>6, FullMeaning
    <3>2. isFull(r, "MSHRs") <=> r.allocated["MSHRs"] >= Mshrs
      BY <2>1, <2>6, FullMeaning
    <3> QED
      BY <3>1, <3>2, <2>1, <2>2, <2>5, BlockingAssumption
  <2> QED
    BY <2>1, <2>2, <2>4, <2>5, <2>7
<1> QED
  BY <1>1, SpecIndInv, PTL DEF Spec, PrefetchNeverBlocks
=============================================================================
