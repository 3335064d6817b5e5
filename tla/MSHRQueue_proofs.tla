-------------------------- MODULE MSHRQueue_proofs --------------------------
(***************************************************************************)
(* Proofs about MSHRQueue, for every number of entries, reserve, set of    *)
(* blocks, latency and number of requests.                                 *)
(***************************************************************************)
EXTENDS MSHRQueue, MSHR_proofs, FiniteSetTheorems, SequenceTheorems, WellFoundedInduction

N == NumEntries + Reserve - 1
Ids == 1 .. N
Blocks == Addrs \cup {"none"}

(* A queue whose registers are members of R.                               *)
QueueOf(R) ==
    [numEntries : {N}, numReserve : {Reserve}, demandReserve : {DemandReserve},
     registers : [Ids -> R], freeList : Seq(Ids),
     allocatedList : Seq(Ids), readyList : Seq(Ids), allocated : Nat,
     inServiceEntries : Nat, failed : BOOLEAN]

(* What the lists of a queue depend on in its registers.                   *)
Typed(R) ==
    FreeMSHR \in R /\ \A m \in R : m.readyTime \in Nat /\ m.inService \in BOOLEAN

Injective(l) == \A j, k \in DOMAIN l : l[j] = l[k] => j = k
Elements(l) == {l[k] : k \in DOMAIN l}
InService(s) == {i \in Ids : s.registers[i].inService}

(* Each register is free or allocated, once; it is in service or on the    *)
(* ready list when it is allocated; the counters count.                    *)
Lists(s) ==
    /\ Injective(s.freeList) /\ Injective(s.allocatedList) /\ Injective(s.readyList)
    /\ \A i \in Ids : i \in Elements(s.freeList) <=> i \notin Elements(s.allocatedList)
    /\ \A i \in Ids : i \in Elements(s.readyList) <=>
           i \in Elements(s.allocatedList) /\ ~s.registers[i].inService
    /\ Len(s.freeList) + Len(s.allocatedList) = N
    /\ s.allocated = Len(s.allocatedList)
    /\ s.inServiceEntries = Cardinality(InService(s))

(* A free register is as new.                                              *)
Clean(s) == \A i \in Elements(s.freeList) : s.registers[i] = FreeMSHR

Sorted(s) ==
    \A j, k \in DOMAIN s.readyList :
        j < k => s.registers[s.readyList[j]].readyTime
                    <= s.registers[s.readyList[k]].readyTime

(* The lists of any queue, whatever its registers hold.                    *)
Base(R, s) == s \in QueueOf(R) /\ ~s.failed /\ Lists(s) /\ Clean(s) /\ Sorted(s)

(* An allocated register of the MSHR queue has targets and is the only one *)
(* of its block.                                                           *)
Contents(s, ord) ==
    /\ \A i \in Elements(s.allocatedList) :
           RegisterOK(s.registers[i], ord) /\ hasTargets(s.registers[i])
    /\ \A i, j \in Elements(s.allocatedList) :
           s.registers[i].blkAddr = s.registers[j].blkAddr => i = j

QueueInv(s, ord) == Base(Registers(Blocks), s) /\ Contents(s, ord)

IInv == QueueInv(q, order) /\ order \in 0 .. MaxOrder

-----------------------------------------------------------------------------

(* Every set of naturals that is not empty has a least element.            *)
LEMMA MinFacts ==
    ASSUME NEW T \in SUBSET Nat, T # {}
    PROVE  Min(T) \in T /\ \A y \in T : Min(T) <= y
<1>1. PICK x \in T : \A y \in T : ~(<<y, x>> \in OpToRel(<, Nat))
  BY NatLessThanWellFounded, WFMin
<1>2. \A y \in T : ~(y < x)
  BY <1>1 DEF OpToRel
<1>3. \A y \in T : x <= y
  BY <1>2
<1> QED BY <1>3 DEF Min

(* The elements of a list.                                                 *)
LEMMA ListType ==
    ASSUME NEW S, NEW l \in Seq(S)
    PROVE  /\ Len(l) \in Nat /\ DOMAIN l = 1 .. Len(l)
           /\ \A k \in DOMAIN l : l[k] \in S
           /\ Elements(l) \subseteq S
           /\ l = <<>> <=> Len(l) = 0
<1>1. Len(l) \in Nat /\ DOMAIN l = 1 .. Len(l) /\ (l = <<>> <=> Len(l) = 0)
      /\ \A k \in DOMAIN l : l[k] \in S
  OBVIOUS
<1> QED BY <1>1 DEF Elements

(* push_back of a register that is not on the list.                        *)
LEMMA PushBack ==
    ASSUME NEW S, NEW l \in Seq(S), NEW x \in S, x \notin Elements(l), Injective(l)
    PROVE  /\ Append(l, x) \in Seq(S) /\ Len(Append(l, x)) = Len(l) + 1
           /\ Elements(Append(l, x)) = Elements(l) \cup {x}
           /\ Injective(Append(l, x))
<1> DEFINE r == Append(l, x)
           n == Len(l)
<1>1. /\ r \in Seq(S) /\ n \in Nat /\ DOMAIN l = 1 .. n /\ DOMAIN r = 1 .. n + 1
      /\ Len(r) = n + 1 /\ r[n + 1] = x /\ \A k \in 1 .. n : r[k] = l[k]
  OBVIOUS
<1> HIDE DEF r, n
<1>2. \A k \in 1 .. n + 1 : k \in 1 .. n \/ k = n + 1
  BY <1>1
<1>3. Elements(r) = Elements(l) \cup {x}
  <2>1. \A y \in Elements(r) : y \in Elements(l) \cup {x}
    BY <1>1, <1>2 DEF Elements
  <2>2. \A y \in Elements(l) : y \in Elements(r)
    BY <1>1 DEF Elements
  <2>3. x \in Elements(r)
    BY <1>1 DEF Elements
  <2> QED BY <2>1, <2>2, <2>3
<1>4. \A k \in 1 .. n : l[k] # x
  BY <1>1 DEF Elements
<1>5. Injective(r)
  BY <1>1, <1>2, <1>4 DEF Injective
<1> QED BY <1>1, <1>3, <1>5 DEF r, n

(* push_front of a register that is not on the list.                       *)
LEMMA PushFront ==
    ASSUME NEW S, NEW l \in Seq(S), NEW x \in S, x \notin Elements(l), Injective(l)
    PROVE  /\ <<x>> \o l \in Seq(S) /\ Len(<<x>> \o l) = Len(l) + 1
           /\ Elements(<<x>> \o l) = Elements(l) \cup {x}
           /\ Injective(<<x>> \o l)
<1> DEFINE r == <<x>> \o l
           n == Len(l)
<1>1. /\ r \in Seq(S) /\ n \in Nat /\ DOMAIN l = 1 .. n /\ DOMAIN r = 1 .. n + 1
      /\ Len(r) = n + 1 /\ r[1] = x /\ \A k \in 2 .. n + 1 : r[k] = l[k - 1]
  OBVIOUS
<1> HIDE DEF r, n
<1>2. \A k \in 1 .. n + 1 : k = 1 \/ (k \in 2 .. n + 1 /\ k - 1 \in 1 .. n)
  BY <1>1
<1>3. \A k \in 1 .. n : k + 1 \in 2 .. n + 1 /\ k + 1 \in 1 .. n + 1 /\ (k + 1) - 1 = k
  BY <1>1
<1>4. Elements(r) = Elements(l) \cup {x}
  <2>1. \A y \in Elements(r) : y \in Elements(l) \cup {x}
    BY <1>1, <1>2 DEF Elements
  <2>2. \A k \in 1 .. n : l[k] = r[k + 1]
    BY <1>1, <1>3
  <2>3. ASSUME NEW y \in Elements(l) PROVE y \in Elements(r)
    <3>1. PICK k \in 1 .. n : y = l[k]
      BY <1>1 DEF Elements
    <3>2. y = r[k + 1] /\ k + 1 \in DOMAIN r
      BY <1>1, <1>3, <2>2, <3>1
    <3> QED BY <3>2 DEF Elements
  <2>4. x \in Elements(r)
    BY <1>1 DEF Elements
  <2> QED BY <2>1, <2>3, <2>4
<1>5. \A k \in 1 .. n : l[k] # x
  BY <1>1 DEF Elements
<1>6. ASSUME NEW j \in 1 .. n + 1, NEW k \in 1 .. n + 1, r[j] = r[k]
      PROVE  j = k
  <2>1. CASE j = 1 \/ k = 1
    BY <1>1, <1>2, <1>5, <1>6, <2>1
  <2>2. CASE j # 1 /\ k # 1
    <3>1. j - 1 \in 1 .. n /\ k - 1 \in 1 .. n /\ l[j - 1] = l[k - 1]
      BY <1>1, <1>2, <1>6, <2>2
    <3>2. j - 1 = k - 1
      BY <1>1, <3>1 DEF Injective
    <3> QED BY <3>2
  <2> QED BY <2>1, <2>2
<1> QED BY <1>1, <1>4, <1>6 DEF r, n, Injective

(* pop_front.                                                              *)
LEMMA PopFront ==
    ASSUME NEW S, NEW l \in Seq(S), l # <<>>, Injective(l)
    PROVE  /\ Head(l) \in S /\ Head(l) \in Elements(l)
           /\ Tail(l) \in Seq(S) /\ Len(Tail(l)) = Len(l) - 1
           /\ Elements(Tail(l)) = Elements(l) \ {Head(l)}
           /\ Injective(Tail(l))
<1> DEFINE r == Tail(l)
           n == Len(l)
<1>1. /\ r \in Seq(S) /\ n \in Nat /\ n > 0 /\ DOMAIN l = 1 .. n /\ DOMAIN r = 1 .. n - 1
      /\ Len(r) = n - 1 /\ Head(l) = l[1] /\ l[1] \in S
      /\ \A k \in 1 .. n - 1 : r[k] = l[k + 1]
  OBVIOUS
<1> HIDE DEF r, n
<1>2. \A k \in 1 .. n - 1 : k + 1 \in 1 .. n /\ k + 1 # 1
  BY <1>1
<1>3. \A k \in 1 .. n : k # 1 => k - 1 \in 1 .. n - 1 /\ (k - 1) + 1 = k
  BY <1>1
<1>4. 1 \in 1 .. n
  BY <1>1
<1>5. \A k \in 1 .. n : k # 1 => l[k] # l[1] /\ l[k] = r[k - 1]
  BY <1>1, <1>3, <1>4 DEF Injective
<1>6. Elements(r) = Elements(l) \ {l[1]}
  <2>1. ASSUME NEW y \in Elements(r) PROVE y \in Elements(l) \ {l[1]}
    <3>1. PICK k \in 1 .. n - 1 : y = r[k]
      BY <1>1 DEF Elements
    <3>2. y = l[k + 1] /\ k + 1 \in DOMAIN l /\ y # l[1]
      BY <1>1, <1>2, <1>5, <3>1
    <3> QED BY <3>2 DEF Elements
  <2>2. ASSUME NEW y \in Elements(l), y # l[1] PROVE y \in Elements(r)
    <3>1. PICK k \in 1 .. n : y = l[k]
      BY <1>1 DEF Elements
    <3>2. y = r[k - 1] /\ k - 1 \in DOMAIN r
      BY <1>1, <1>3, <1>5, <2>2, <3>1
    <3> QED BY <3>2 DEF Elements
  <2> QED BY <2>1, <2>2
<1>7. ASSUME NEW j \in 1 .. n - 1, NEW k \in 1 .. n - 1, r[j] = r[k]
      PROVE  j = k
  <2>1. j + 1 = k + 1
    BY <1>1, <1>2, <1>7 DEF Injective
  <2> QED BY <2>1
<1>8. l[1] \in Elements(l)
  BY <1>1, <1>4 DEF Elements
<1> QED BY <1>1, <1>6, <1>7, <1>8 DEF r, n, Injective

(* The two halves of a list that is cut before position p.                 *)
LEMMA CutFacts ==
    ASSUME NEW S, NEW l \in Seq(S), NEW p \in 1 .. Len(l) + 1
    PROVE  /\ SubSeq(l, 1, p - 1) \in Seq(S) /\ Len(SubSeq(l, 1, p - 1)) = p - 1
           /\ \A k \in 1 .. p - 1 : SubSeq(l, 1, p - 1)[k] = l[k]
           /\ SubSeq(l, p, Len(l)) \in Seq(S)
           /\ Len(SubSeq(l, p, Len(l))) = Len(l) - p + 1
           /\ \A k \in 1 .. Len(l) - p + 1 : SubSeq(l, p, Len(l))[k] = l[k + p - 1]
<1>1. Len(l) \in Nat /\ \A k \in 1 .. Len(l) : l[k] \in S
  OBVIOUS
<1>2. /\ p - 1 \in Int /\ p \in Int
      /\ \A k \in 1 .. p - 1 : l[k] \in S
      /\ \A k \in p .. Len(l) : l[k] \in S
  BY <1>1
<1>3. /\ SubSeq(l, 1, p - 1) \in Seq(S)
      /\ Len(SubSeq(l, 1, p - 1)) = IF 1 <= p - 1 THEN (p - 1) - 1 + 1 ELSE 0
      /\ \A k \in 1 .. (p - 1) - 1 + 1 : SubSeq(l, 1, p - 1)[k] = l[1 + k - 1]
  BY <1>2, SubSeqProperties
<1>4. /\ SubSeq(l, p, Len(l)) \in Seq(S)
      /\ Len(SubSeq(l, p, Len(l))) = IF p <= Len(l) THEN Len(l) - p + 1 ELSE 0
      /\ \A k \in 1 .. Len(l) - p + 1 : SubSeq(l, p, Len(l))[k] = l[p + k - 1]
  BY <1>1, <1>2, SubSeqProperties
<1> QED BY <1>1, <1>2, <1>3, <1>4

(* erase(iterator): the place of a register of the list is found and taken *)
(* out, the others keep their order.                                       *)
LEMMA Erase ==
    ASSUME NEW S, NEW l \in Seq(S), NEW x \in Elements(l), Injective(l)
    PROVE  /\ RemoveFirst(l, x) \in Seq(S) /\ Len(RemoveFirst(l, x)) = Len(l) - 1
           /\ Elements(RemoveFirst(l, x)) = Elements(l) \ {x}
           /\ Injective(RemoveFirst(l, x))
           /\ \E p \in 1 .. Len(l) :
                 /\ \A k \in 1 .. Len(l) - 1 :
                      RemoveFirst(l, x)[k] = IF k < p THEN l[k] ELSE l[k + 1]
<1> DEFINE n == Len(l)
           r == RemoveFirst(l, x)
<1>1. n \in Nat /\ DOMAIN l = 1 .. n
  OBVIOUS
<1>2. PICK p \in 1 .. n : l[p] = x
  BY <1>1 DEF Elements
<1>3. \A j \in 1 .. n : l[j] = x => j = p
  BY <1>1, <1>2 DEF Injective
<1>4. r = RemoveAt(l, p)
  <2>1. {j \in 1 .. Len(l) : l[j] = x} = {p}
    BY <1>2, <1>3
  <2>2. Min({p}) = p
    BY DEF Min
  <2>3. SelectInSeq(l, LAMBDA v : v = x) = p
    BY <2>1, <2>2 DEF SelectInSeq
  <2> QED BY <1>2, <2>3 DEF RemoveFirst
<1> DEFINE a == SubSeq(l, 1, p - 1)
           b == SubSeq(l, p + 1, Len(l))
<1>5. /\ a \in Seq(S) /\ Len(a) = p - 1 /\ \A k \in 1 .. p - 1 : a[k] = l[k]
  BY <1>1, CutFacts
<1>6. /\ b \in Seq(S) /\ Len(b) = n - p /\ \A k \in 1 .. n - p : b[k] = l[k + p]
  <2>1. p + 1 \in 1 .. Len(l) + 1
    BY <1>1
  <2>2. /\ b \in Seq(S) /\ Len(b) = Len(l) - (p + 1) + 1
        /\ \A k \in 1 .. Len(l) - (p + 1) + 1 : b[k] = l[k + (p + 1) - 1]
    BY <2>1, CutFacts
  <2> HIDE DEF b, n
  <2>3. Len(b) = n - p /\ Len(l) = n
    BY <1>1, <2>2 DEF n
  <2>4. ASSUME NEW k \in 1 .. n - p PROVE b[k] = l[k + p]
    <3>1. k \in 1 .. Len(l) - (p + 1) + 1 /\ k + (p + 1) - 1 = k + p
      BY <1>1, <2>3
    <3> QED BY <2>2, <3>1
  <2> QED BY <2>2, <2>3, <2>4
<1>7. r = a \o b
  BY <1>4 DEF RemoveAt
<1> HIDE DEF a, b, r, n
<1>8. /\ r \in Seq(S) /\ Len(r) = n - 1 /\ DOMAIN r = 1 .. n - 1
  <2>1. r \in Seq(S) /\ Len(r) = Len(a) + Len(b)
    BY <1>5, <1>6, <1>7, ConcatProperties
  <2>2. Len(r) = n - 1
    BY <1>1, <1>5, <1>6, <2>1
  <2> QED BY <2>1, <2>2, LenProperties
<1>9. \A k \in 1 .. n - 1 : r[k] = IF k < p THEN l[k] ELSE l[k + 1]
  <2>1. \A k \in 1 .. n - 1 : r[k] = IF k <= p - 1 THEN a[k] ELSE b[k - (p - 1)]
    BY <1>1, <1>5, <1>6, <1>7, ConcatProperties
  <2>2. ASSUME NEW k \in 1 .. n - 1, k < p
        PROVE  r[k] = l[k]
    BY <1>1, <1>5, <2>1, <2>2
  <2>3. ASSUME NEW k \in 1 .. n - 1, ~(k < p)
        PROVE  r[k] = l[k + 1]
    <3>1. k - (p - 1) \in 1 .. n - p /\ (k - (p - 1)) + p = k + 1
      BY <1>1, <2>3
    <3> QED BY <1>1, <1>6, <2>1, <2>3, <3>1
  <2> QED BY <2>2, <2>3
<1>10. Elements(r) = Elements(l) \ {x}
  <2>1. ASSUME NEW y \in Elements(r) PROVE y \in Elements(l) \ {x}
    <3>1. PICK k \in 1 .. n - 1 : y = r[k]
      BY <1>8 DEF Elements
    <3>2. CASE k < p
      <4>1. y = l[k] /\ k \in 1 .. n /\ k # p
        BY <1>1, <1>9, <3>1, <3>2
      <4> QED BY <1>1, <1>3, <4>1 DEF Elements
    <3>3. CASE ~(k < p)
      <4>1. y = l[k + 1] /\ k + 1 \in 1 .. n /\ k + 1 # p
        BY <1>1, <1>9, <3>1, <3>3
      <4> QED BY <1>1, <1>3, <4>1 DEF Elements
    <3> QED BY <3>2, <3>3
  <2>2. ASSUME NEW y \in Elements(l), y # x PROVE y \in Elements(r)
    <3>1. PICK k \in 1 .. n : y = l[k] /\ k # p
      BY <1>1, <1>2, <2>2 DEF Elements
    <3>2. CASE k < p
      <4>1. k \in 1 .. n - 1 /\ r[k] = y
        BY <1>1, <1>9, <3>1, <3>2
      <4> QED BY <1>8, <4>1 DEF Elements
    <3>3. CASE k > p
      <4>1. k - 1 \in 1 .. n - 1 /\ ~(k - 1 < p) /\ (k - 1) + 1 = k
        BY <1>1, <3>1, <3>3
      <4>2. r[k - 1] = y
        BY <1>9, <3>1, <4>1
      <4> QED BY <1>8, <4>1, <4>2 DEF Elements
    <3> QED BY <1>1, <3>1, <3>2, <3>3
  <2> QED BY <2>1, <2>2
<1>11. ASSUME NEW j \in 1 .. n - 1, NEW k \in 1 .. n - 1, r[j] = r[k]
       PROVE  j = k
  <2> DEFINE f(i) == IF i < p THEN i ELSE i + 1
  <2>1. f(j) \in 1 .. n /\ f(k) \in 1 .. n /\ r[j] = l[f(j)] /\ r[k] = l[f(k)]
    BY <1>1, <1>9
  <2>2. f(j) = f(k)
    BY <1>1, <1>11, <2>1 DEF Injective
  <2> QED BY <1>1, <2>2
<1> QED BY <1>8, <1>9, <1>10, <1>11 DEF r, n, Injective

(* insert before position p, or push_back when p is behind the end.        *)
Inserted(l, p, x) == IF p = Len(l) + 1 THEN Append(l, x) ELSE InsertAt(l, p, x)

(* The register is at its place and the others keep their order.           *)
LEMMA InsertFacts ==
    ASSUME NEW S, NEW l \in Seq(S), NEW x \in S, NEW p \in 1 .. Len(l) + 1,
           x \notin Elements(l), Injective(l), NEW r, r = Inserted(l, p, x)
    PROVE  /\ r \in Seq(S) /\ Len(r) = Len(l) + 1
           /\ Elements(r) = Elements(l) \cup {x} /\ Injective(r)
           /\ \A k \in 1 .. Len(l) + 1 :
                 /\ k < p => r[k] = l[k]
                 /\ k = p => r[k] = x
                 /\ k > p => r[k] = l[k - 1]
<1> DEFINE n == Len(l)
<1>1. n \in Nat /\ DOMAIN l = 1 .. n /\ p \in 1 .. n + 1
  OBVIOUS
<1>2. /\ r \in Seq(S) /\ Len(r) = n + 1
      /\ \A k \in 1 .. n + 1 : /\ k < p => r[k] = l[k]
                               /\ k = p => r[k] = x
                               /\ k > p => r[k] = l[k - 1]
  <2>1. CASE p = n + 1
    <3>1. r = Append(l, x)
      BY <2>1 DEF Inserted
    <3> QED BY <1>1, <2>1, <3>1, AppendFacts
  <2>2. CASE p # n + 1
    <3> DEFINE a == SubSeq(l, 1, p - 1)
               b == SubSeq(l, p, Len(l))
               c == a \o <<x>>
    <3>1. /\ a \in Seq(S) /\ Len(a) = p - 1 /\ \A k \in 1 .. p - 1 : a[k] = l[k]
          /\ b \in Seq(S) /\ Len(b) = n - p + 1
          /\ \A k \in 1 .. n - p + 1 : b[k] = l[k + p - 1]
      BY CutFacts
    <3>2. r = c \o b
      BY <2>2 DEF Inserted, InsertAt
    <3> HIDE DEF a, b, n
    <3>3. c \in Seq(S) /\ Len(c) = p /\ c[p] = x /\ \A k \in 1 .. p - 1 : c[k] = l[k]
      <4>1. /\ <<x>> \in Seq(S) /\ Len(<<x>>) = 1 /\ <<x>>[1] = x
        OBVIOUS
      <4>2. /\ c \in Seq(S) /\ Len(c) = Len(a) + 1
            /\ \A k \in 1 .. Len(a) + 1 : c[k] = IF k <= Len(a) THEN a[k]
                                                 ELSE <<x>>[k - Len(a)]
        BY <3>1, <4>1, ConcatProperties
      <4>3. Len(c) = p
        BY <1>1, <3>1, <4>2
      <4>4. \A k \in 1 .. p - 1 : c[k] = l[k]
        BY <1>1, <3>1, <4>2
      <4>5. c[p] = x
        <5>1. p - Len(a) = 1 /\ p \in 1 .. Len(a) + 1 /\ ~(p <= Len(a))
          BY <1>1, <3>1
        <5> QED BY <4>1, <4>2, <5>1
      <4> QED BY <4>2, <4>3, <4>4, <4>5
    <3> HIDE DEF c
    <3>4. /\ r \in Seq(S) /\ Len(r) = Len(c) + Len(b)
          /\ \A k \in 1 .. Len(c) + Len(b) :
                r[k] = IF k <= Len(c) THEN c[k] ELSE b[k - Len(c)]
      <4>1. c \in Seq(S) /\ b \in Seq(S)
        BY <3>1, <3>3
      <4> QED BY ONLY <4>1, <3>2, ConcatProperties
    <3>5. /\ Len(r) = n + 1
          /\ \A k \in 1 .. n + 1 : r[k] = IF k <= p THEN c[k] ELSE b[k - p]
      <4>1. Len(c) = p /\ Len(c) + Len(b) = n + 1
        BY <1>1, <3>1, <3>3
      <4> QED BY <3>4, <4>1
    <3>6. ASSUME NEW k \in 1 .. n + 1, k > p PROVE r[k] = l[k - 1]
      <4>1. k - p \in 1 .. n - p + 1 /\ (k - p) + p - 1 = k - 1
        BY <1>1, <3>6
      <4>2. r[k] = b[k - p]
        BY <1>1, <3>5, <3>6
      <4>3. b[k - p] = l[(k - p) + p - 1]
        BY <3>1, <4>1
      <4> QED BY <4>1, <4>2, <4>3
    <3>7. ASSUME NEW k \in 1 .. n + 1, k < p PROVE r[k] = l[k]
      BY <1>1, <3>3, <3>5, <3>7
    <3>8. r[p] = x
      BY <1>1, <3>3, <3>5
    <3> QED BY <3>4, <3>5, <3>6, <3>7, <3>8
  <2> QED BY <2>1, <2>2
<1> HIDE DEF n
<1>3. DOMAIN r = 1 .. n + 1
  BY <1>2, LenProperties
<1>4. \A k \in 1 .. n : l[k] # x
  BY <1>1 DEF Elements
<1>5. Elements(r) = Elements(l) \cup {x}
  <2>1. ASSUME NEW y \in Elements(r) PROVE y \in Elements(l) \cup {x}
    <3>1. PICK k \in 1 .. n + 1 : y = r[k]
      BY <1>3 DEF Elements
    <3>2. CASE k < p
      <4>1. k \in 1 .. n /\ y = l[k]
        BY <1>1, <1>2, <3>1, <3>2
      <4> QED BY <1>1, <4>1 DEF Elements
    <3>3. CASE k > p
      <4>1. k - 1 \in 1 .. n /\ y = l[k - 1]
        BY <1>1, <1>2, <3>1, <3>3
      <4> QED BY <1>1, <4>1 DEF Elements
    <3>4. CASE k = p
      BY <1>2, <3>1, <3>4
    <3> QED BY <1>1, <3>2, <3>3, <3>4
  <2>2. ASSUME NEW y \in Elements(l) PROVE y \in Elements(r)
    <3>1. PICK k \in 1 .. n : y = l[k]
      BY <1>1 DEF Elements
    <3>2. CASE k < p
      <4>1. k \in 1 .. n + 1 /\ r[k] = y
        BY <1>1, <1>2, <3>1, <3>2
      <4> QED BY <1>3, <4>1 DEF Elements
    <3>3. CASE ~(k < p)
      <4>1. k + 1 \in 1 .. n + 1 /\ k + 1 > p /\ (k + 1) - 1 = k
        BY <1>1, <3>3
      <4>2. r[k + 1] = y
        BY <1>2, <3>1, <4>1
      <4> QED BY <1>3, <4>1, <4>2 DEF Elements
    <3> QED BY <3>2, <3>3
  <2>3. x \in Elements(r)
    BY <1>1, <1>2, <1>3 DEF Elements
  <2> QED BY <2>1, <2>2, <2>3
<1>6. ASSUME NEW j \in 1 .. n + 1, NEW k \in 1 .. n + 1, r[j] = r[k]
      PROVE  j = k
  <2> DEFINE f(i) == IF i < p THEN i ELSE i - 1
  <2>1. \A i \in 1 .. n + 1 : i # p => f(i) \in 1 .. n /\ r[i] = l[f(i)]
    BY <1>1, <1>2
  <2>2. CASE j = p \/ k = p
    BY <1>1, <1>2, <1>4, <1>6, <2>1, <2>2
  <2>3. CASE j # p /\ k # p
    <3>1. f(j) \in 1 .. n /\ f(k) \in 1 .. n /\ l[f(j)] = l[f(k)]
      BY <1>6, <2>1, <2>3
    <3> HIDE DEF f
    <3>2. f(j) = f(k)
      BY <1>1, <3>1 DEF Injective
    <3> QED BY <1>1, <2>3, <3>2 DEF f
  <2> QED BY <2>2, <2>3
<1> QED BY <1>2, <1>3, <1>5, <1>6 DEF n, Injective

-----------------------------------------------------------------------------
(* The queue's fields.                                                     *)

(* The number of registers.                                                *)
LEMMA SizeFacts == N \in Nat /\ IsFiniteSet(Ids) /\ Cardinality(Ids) = N
<1>1. N \in Nat /\ N \in Int /\ 1 \in Int
  BY QueueAssumption DEF N
<1> QED BY <1>1, FS_Interval DEF Ids

(* The fields of a queue.                                                  *)
LEMMA QueueFacts ==
    ASSUME NEW R, NEW s \in QueueOf(R)
    PROVE  /\ s.registers \in [Ids -> R]
           /\ \A i \in Ids : s.registers[i] \in R
           /\ s.freeList \in Seq(Ids) /\ s.allocatedList \in Seq(Ids)
           /\ s.readyList \in Seq(Ids)
           /\ Elements(s.freeList) \subseteq Ids
           /\ Elements(s.allocatedList) \subseteq Ids
           /\ Elements(s.readyList) \subseteq Ids
           /\ s.allocated \in Nat /\ s.inServiceEntries \in Nat
           /\ s.numEntries = N /\ s.numReserve = Reserve
<1>1. /\ s.registers \in [Ids -> R]
      /\ s.freeList \in Seq(Ids) /\ s.allocatedList \in Seq(Ids)
      /\ s.readyList \in Seq(Ids)
      /\ s.allocated \in Nat /\ s.inServiceEntries \in Nat
      /\ s.numEntries = N /\ s.numReserve = Reserve
  BY DEF QueueOf
<1> QED BY <1>1, ListType

(* A check that holds leaves no trace.                                     *)
LEMMA CheckFacts ==
    ASSUME NEW R, NEW s \in QueueOf(R), NEW c, c
    PROVE  Check(s, c) = s
<1>1. s.failed \in BOOLEAN
  BY DEF QueueOf
<1>2. (s.failed \/ ~c) = s.failed
  BY <1>1
<1>3. Check(s, c) = [s EXCEPT !.failed = s.failed]
  BY <1>2 DEF Check
<1> QED BY <1>3 DEF QueueOf

(* The number of registers in service moves with the one that changes.     *)
LEMMA CountFacts ==
    ASSUME NEW R, NEW s \in QueueOf(R), NEW t \in QueueOf(R), NEW i \in Ids,
           \A j \in Ids : j # i => t.registers[j].inService = s.registers[j].inService
    PROVE  /\ Cardinality(InService(s)) \in Nat /\ Cardinality(InService(t)) \in Nat
           /\ t.registers[i].inService = s.registers[i].inService
                => Cardinality(InService(t)) = Cardinality(InService(s))
           /\ t.registers[i].inService /\ ~s.registers[i].inService
                => Cardinality(InService(t)) = Cardinality(InService(s)) + 1
           /\ ~t.registers[i].inService /\ s.registers[i].inService
                => Cardinality(InService(t)) = Cardinality(InService(s)) - 1
<1>1. IsFiniteSet(Ids)
  BY SizeFacts
<1>2. IsFiniteSet(InService(s)) /\ IsFiniteSet(InService(t))
  BY <1>1, FS_Subset DEF InService
<1>3. Cardinality(InService(s)) \in Nat /\ Cardinality(InService(t)) \in Nat
  BY <1>2, FS_CardinalityType
<1>4. CASE t.registers[i].inService = s.registers[i].inService
  <2>1. InService(t) = InService(s)
    BY <1>4 DEF InService
  <2> QED BY <1>3, <1>4, <2>1
<1>5. CASE t.registers[i].inService /\ ~s.registers[i].inService
  <2>1. InService(t) = InService(s) \cup {i} /\ i \notin InService(s)
    BY <1>5 DEF InService
  <2>2. Cardinality(InService(t)) = Cardinality(InService(s)) + 1
    BY <1>2, <2>1, FS_AddElement
  <2> QED BY <1>3, <1>5, <2>2
<1>6. CASE ~t.registers[i].inService /\ s.registers[i].inService
  <2>1. InService(t) = InService(s) \ {i} /\ i \in InService(s)
    BY <1>6 DEF InService
  <2>2. Cardinality(InService(t)) = Cardinality(InService(s)) - 1
    BY <1>2, <2>1, FS_RemoveElement
  <2> QED BY <1>3, <1>6, <2>2
<1> QED BY <1>3, <1>4, <1>5, <1>6

(* addToReadyList: the register goes to its place, the list stays sorted.  *)
LEMMA AddToReady ==
    ASSUME NEW R, Typed(R), NEW s \in QueueOf(R), NEW i \in Ids,
           i \notin Elements(s.readyList), Injective(s.readyList), Sorted(s), NEW t, t = addToReadyList(s, i)
    PROVE  /\ t \in QueueOf(R) /\ t = [s EXCEPT !.readyList = t.readyList]
           /\ Elements(t.readyList) = Elements(s.readyList) \cup {i}
           /\ Injective(t.readyList) /\ Sorted(t)
           /\ KeepsTurns(s, t)
<1> DEFINE l == s.readyList
           n == Len(l)
           time(k) == s.registers[k].readyTime
           I == {k \in 1 .. n : time(l[k]) > time(i)}
           later == SelectInSeq(l, LAMBDA r : time(r) > time(i))
           p == IF later = 0 THEN n + 1 ELSE later
           r == IF later = 0 THEN Append(l, i) ELSE InsertAt(l, later, i)
<1>1. /\ l \in Seq(Ids) /\ n \in Nat /\ DOMAIN l = 1 .. n
      /\ \A k \in 1 .. n : l[k] \in Ids
  BY QueueFacts, ListType
<1>2. \A k \in Ids : time(k) \in Nat
  BY QueueFacts DEF Typed
<1>3. later = IF I # {} THEN Min(I) ELSE 0
  BY DEF SelectInSeq
<1>4. I # {} => Min(I) \in I /\ \A k \in I : Min(I) <= k
  <2>1. I \in SUBSET Nat
    BY <1>1
  <2> QED BY <2>1, MinFacts
<1>5. t = [s EXCEPT !.readyList = r]
  BY DEF addToReadyList
<1> HIDE DEF later, time, n
<1>6. /\ p \in 1 .. n + 1 /\ (p = n + 1 <=> later = 0)
      /\ \A k \in 1 .. n : k < p => ~(time(l[k]) > time(i))
      /\ p # n + 1 => time(l[p]) > time(i)
  <2>1. CASE I = {}
    <3>1. later = 0 /\ p = n + 1
      BY <1>3, <2>1
    <3> QED BY <1>1, <2>1, <3>1
  <2>2. CASE I # {}
    <3>1. later \in 1 .. n /\ time(l[later]) > time(i)
          /\ \A k \in 1 .. n : time(l[k]) > time(i) => later <= k
      BY <1>3, <1>4, <2>2
    <3> QED BY <1>1, <3>1
  <2> QED BY <2>1, <2>2
<1>7. r = Inserted(l, p, i)
  BY <1>6 DEF n, Inserted
<1> HIDE DEF p, r
<1>8. /\ r \in Seq(Ids) /\ Len(r) = n + 1
      /\ Elements(r) = Elements(l) \cup {i} /\ Injective(r)
      /\ \A k \in 1 .. n + 1 : /\ k < p => r[k] = l[k]
                               /\ k = p => r[k] = i
                               /\ k > p => r[k] = l[k - 1]
  <2>1. p \in 1 .. Len(l) + 1 /\ i \notin Elements(l) /\ Injective(l) /\ Len(l) = n
    BY <1>6 DEF n
  <2> HIDE DEF l
  <2>2. /\ r \in Seq(Ids) /\ Len(r) = Len(l) + 1
        /\ Elements(r) = Elements(l) \cup {i} /\ Injective(r)
        /\ \A k \in 1 .. Len(l) + 1 : /\ k < p => r[k] = l[k]
                                      /\ k = p => r[k] = i
                                      /\ k > p => r[k] = l[k - 1]
    BY ONLY i \in Ids, <1>1, <1>7, <2>1, InsertFacts
  <2> QED BY <2>1, <2>2
<1>9. /\ t \in QueueOf(R) /\ t.readyList = r /\ t.registers = s.registers
  BY <1>5, <1>8 DEF QueueOf
<1>10. t = [s EXCEPT !.readyList = t.readyList]
  BY <1>5, <1>9
<1>11. \A j, k \in 1 .. n : j < k => time(l[j]) <= time(l[k])
  BY <1>1 DEF Sorted, time
<1>12. ASSUME NEW j \in 1 .. n + 1, NEW k \in 1 .. n + 1, j < k
       PROVE  time(r[j]) <= time(r[k])
  <2>1. CASE k < p
    <3>1. j \in 1 .. n /\ k \in 1 .. n /\ r[j] = l[j] /\ r[k] = l[k]
      BY <1>1, <1>6, <1>8, <1>12, <2>1
    <3> QED BY <1>11, <1>12, <3>1
  <2>2. CASE k = p
    <3>1. j \in 1 .. n /\ j < p /\ r[j] = l[j] /\ r[k] = i
      BY <1>1, <1>6, <1>8, <1>12, <2>2
    <3>2. ~(time(l[j]) > time(i)) /\ time(l[j]) \in Nat /\ time(i) \in Nat
      BY <1>1, <1>2, <1>6, <3>1
    <3> QED BY <3>1, <3>2
  <2>3. CASE k > p
    <3>1. k - 1 \in 1 .. n /\ r[k] = l[k - 1] /\ p \in 1 .. n /\ p # n + 1
      BY <1>1, <1>6, <1>8, <1>12, <2>3
    <3>2. CASE j < p
      <4>1. j \in 1 .. n /\ j < k - 1 /\ r[j] = l[j]
        BY <1>1, <1>6, <1>8, <2>3, <3>2
      <4> QED BY <1>11, <3>1, <4>1
    <3>3. CASE j = p
      <4>1. time(l[p]) <= time(l[k - 1])
        <5>1. CASE p = k - 1
          BY <1>1, <1>2, <3>1, <5>1
        <5>2. CASE p # k - 1
          <6>1. p < k - 1
            BY <1>1, <1>6, <2>3, <5>2
          <6> QED BY <1>11, <3>1, <6>1
        <5> QED BY <5>1, <5>2
      <4>2. time(l[p]) \in Nat /\ time(l[k - 1]) \in Nat /\ time(i) \in Nat
        BY <1>1, <1>2, <3>1
      <4>3. time(l[p]) > time(i) /\ r[j] = i
        BY <1>6, <1>8, <3>1, <3>3
      <4> QED BY <3>1, <4>1, <4>2, <4>3
    <3>4. CASE j > p
      <4>1. j - 1 \in 1 .. n /\ r[j] = l[j - 1] /\ j - 1 < k - 1
        BY <1>1, <1>6, <1>8, <1>12, <3>4
      <4> QED BY <1>11, <3>1, <4>1
    <3> QED BY <1>6, <3>2, <3>3, <3>4
  <2> QED BY <1>6, <2>1, <2>2, <2>3
<1>13. Sorted(t)
  <2>1. DOMAIN r = 1 .. n + 1
    BY <1>8, LenProperties
  <2> QED BY <1>9, <1>12, <2>1 DEF Sorted, time
<1>14. KeepsTurns(s, t)
  <2>1. DOMAIN r = 1 .. n + 1 /\ \A k \in 1 .. n : l[k] # i
    BY <1>1, <1>8, LenProperties DEF Elements
  <2> DEFINE h(x) == IF x < p THEN x ELSE x - 1
  <2>2. \A x \in 1 .. n + 1 : x # p => h(x) \in 1 .. n /\ r[x] = l[h(x)]
    BY <1>1, <1>6, <1>8
  <2>3. \A x, y \in 1 .. n + 1 : x < y /\ x # p /\ y # p => h(x) < h(y)
    BY <1>1, <1>6
  <2> HIDE DEF h
  <2>4. ASSUME NEW j \in Ids, NEW k \in Ids, j # i, k # i, Before(r, j, k)
        PROVE  Before(l, j, k)
    <3>1. PICK x, y \in 1 .. n + 1 : x < y /\ r[x] = j /\ r[y] = k
      BY <2>1, <2>4 DEF Before
    <3>2. x # p /\ y # p
      BY <1>8, <2>4, <3>1
    <3>3. h(x) \in DOMAIN l /\ h(y) \in DOMAIN l /\ l[h(x)] = j /\ l[h(y)] = k /\ h(x) < h(y)
      BY <1>1, <2>2, <2>3, <3>1, <3>2
    <3> QED BY <3>3 DEF Before
  <2>5. ASSUME NEW k \in Elements(l), time(k) = time(i)
        PROVE  Before(r, k, i)
    <3>1. PICK x \in 1 .. n : l[x] = k
      BY <1>1 DEF Elements
    <3>2. x < p
      <4>1. CASE p = n + 1
        BY <1>1, <4>1
      <4>2. CASE p # n + 1 /\ ~(x < p)
        <5>1. p \in 1 .. n /\ (p = x \/ p < x)
          BY <1>1, <1>6, <4>2
        <5>2. time(l[p]) \in Nat /\ time(l[x]) \in Nat /\ time(i) \in Nat
          BY <1>1, <1>2, <5>1
        <5>3. time(l[p]) <= time(l[x])
          BY <1>11, <5>1, <5>2
        <5> QED BY <1>6, <2>5, <3>1, <4>2, <5>2, <5>3
      <4> QED BY <4>1, <4>2
    <3>3. x \in 1 .. n + 1 /\ p \in 1 .. n + 1 /\ r[x] = k /\ r[p] = i
      BY <1>1, <1>6, <1>8, <3>1, <3>2
    <3> QED BY <2>1, <3>2, <3>3 DEF Before
  <2>6. ToSet(s.readyList) = Elements(l) /\ ToSet(t.readyList) = Elements(r)
    BY <1>9 DEF ToSet, Elements
  <2>7. Elements(l) \subseteq Ids /\ i \notin Elements(l)
    BY <1>1, ListType
  <2>8. \A k \in Ids : t.registers[k].readyTime = time(k)
    BY <1>9 DEF time
  <2> QED BY <1>8, <1>9, <2>4, <2>5, <2>6, <2>7, <2>8 DEF KeepsTurns
<1> QED BY <1>8, <1>9, <1>10, <1>13, <1>14

(* The turns are kept when the ready list stays, or loses a register.      *)
LEMMA SameTurns ==
    ASSUME NEW s, NEW t, t.readyList = s.readyList
    PROVE  KeepsTurns(s, t)
  BY DEF KeepsTurns

LEMMA ErasedTurns ==
    ASSUME NEW s, NEW t, s.readyList \in Seq(Ids), NEW i \in Elements(s.readyList),
           Injective(s.readyList), t.readyList = RemoveFirst(s.readyList, i)
    PROVE  KeepsTurns(s, t)
<1> DEFINE l == s.readyList
           r == t.readyList
           n == Len(l)
<1>1. /\ l \in Seq(Ids) /\ i \in Elements(l) /\ Injective(l) /\ r = RemoveFirst(l, i)
  OBVIOUS
<1>2. n \in Nat /\ DOMAIN l = 1 .. n
  BY <1>1, ListType
<1> HIDE DEF l, r
<1>3. /\ r \in Seq(Ids) /\ Len(r) = Len(l) - 1 /\ Elements(r) = Elements(l) \ {i}
      /\ \E p \in 1 .. Len(l) :
            \A k \in 1 .. Len(l) - 1 : r[k] = IF k < p THEN l[k] ELSE l[k + 1]
  BY ONLY <1>1, Erase
<1>4. PICK p \in 1 .. n : \A k \in 1 .. n - 1 : r[k] = IF k < p THEN l[k] ELSE l[k + 1]
  BY <1>3
<1>5. DOMAIN r = 1 .. n - 1
  BY <1>3, ListType
<1>6. ASSUME NEW j, NEW k, Before(r, j, k)
      PROVE  Before(l, j, k)
  <2>1. PICK x, y \in 1 .. n - 1 : x < y /\ r[x] = j /\ r[y] = k
    BY <1>5, <1>6 DEF Before
  <2> DEFINE h(z) == IF z < p THEN z ELSE z + 1
  <2>2. /\ h(x) \in DOMAIN l /\ h(y) \in DOMAIN l /\ h(x) < h(y)
        /\ l[h(x)] = j /\ l[h(y)] = k
    BY <1>2, <1>4, <2>1
  <2> HIDE DEF h
  <2> QED BY <2>2 DEF Before
<1>7. ToSet(s.readyList) = Elements(l) /\ ToSet(t.readyList) = Elements(r)
  BY DEF ToSet, Elements, l, r
<1> QED BY <1>3, <1>6, <1>7 DEF KeepsTurns, l, r

(* The ready list stays sorted when a register is erased.                  *)
LEMMA ErasedSorted ==
    ASSUME NEW R, NEW s \in QueueOf(R), NEW t \in QueueOf(R), NEW i \in Elements(s.readyList),
           Injective(s.readyList), Sorted(s), t.readyList = RemoveFirst(s.readyList, i),
           \A j \in Ids : j # i => t.registers[j].readyTime = s.registers[j].readyTime
    PROVE  Sorted(t)
<1> DEFINE l == s.readyList
           r == t.readyList
           n == Len(l)
           time(k) == s.registers[k].readyTime
<1>1. l \in Seq(Ids) /\ i \in Elements(l) /\ Injective(l) /\ r = RemoveFirst(l, i)
  BY QueueFacts
<1>2. n \in Nat /\ DOMAIN l = 1 .. n
  BY <1>1, ListType
<1>3. \A j, k \in 1 .. n : j < k => time(l[j]) <= time(l[k])
  BY <1>2 DEF Sorted
<1> HIDE DEF l, r
<1>4. /\ r \in Seq(Ids) /\ Len(r) = Len(l) - 1 /\ Elements(r) = Elements(l) \ {i}
      /\ \E p \in 1 .. Len(l) :
            \A k \in 1 .. Len(l) - 1 : r[k] = IF k < p THEN l[k] ELSE l[k + 1]
  BY ONLY <1>1, Erase
<1>5. PICK p \in 1 .. n : \A k \in 1 .. n - 1 : r[k] = IF k < p THEN l[k] ELSE l[k + 1]
  BY <1>4
<1>6. DOMAIN r = 1 .. n - 1
  BY <1>4, ListType
<1>7. \A k \in DOMAIN r : r[k] \in Ids /\ r[k] # i
  <2>1. \A k \in DOMAIN r : r[k] \in Ids
    BY <1>4, ListType
  <2>2. \A k \in DOMAIN r : r[k] \in Elements(r)
    BY DEF Elements
  <2> QED BY <1>4, <2>1, <2>2
<1> HIDE DEF n, time
<1>8. ASSUME NEW j \in 1 .. n - 1, NEW k \in 1 .. n - 1, j < k
      PROVE  time(r[j]) <= time(r[k])
  <2> DEFINE h(x) == IF x < p THEN x ELSE x + 1
  <2>1. /\ h(j) \in 1 .. n /\ h(k) \in 1 .. n /\ h(j) < h(k)
        /\ r[j] = l[h(j)] /\ r[k] = l[h(k)]
    BY <1>2, <1>5, <1>8
  <2> HIDE DEF h
  <2> QED BY <1>3, <2>1
<1>9. \A j, k \in DOMAIN r :
          j < k => t.registers[r[j]].readyTime <= t.registers[r[k]].readyTime
  BY <1>6, <1>7, <1>8 DEF time
<1> QED BY <1>9 DEF Sorted, r

-----------------------------------------------------------------------------
(* The operations of the queue keep its lists, whatever its registers hold. *)

(* A queue with another record in one register.                            *)
Put(s, i, m) == [s EXCEPT !.registers[i] = m]

LEMMA PutFacts ==
    ASSUME NEW R, NEW s \in QueueOf(R), NEW i \in Ids, NEW m \in R
    PROVE  /\ Put(s, i, m) \in QueueOf(R) /\ Put(s, i, m).registers[i] = m
           /\ \A j \in Ids : j # i => Put(s, i, m).registers[j] = s.registers[j]
           /\ Put(s, i, m).freeList = s.freeList
           /\ Put(s, i, m).allocatedList = s.allocatedList
           /\ Put(s, i, m).readyList = s.readyList /\ Put(s, i, m).allocated = s.allocated
           /\ Put(s, i, m).inServiceEntries = s.inServiceEntries
           /\ Put(s, i, m).failed = s.failed
<1> DEFINE f == [s.registers EXCEPT ![i] = m]
           t == Put(s, i, m)
<1>1. /\ f \in [Ids -> R] /\ f[i] = m
      /\ \A j \in Ids : j # i => f[j] = s.registers[j]
  BY QueueFacts
<1>2. t = [s EXCEPT !.registers = f]
  BY DEF f, Put
<1> HIDE DEF f, t
<1>3. /\ t \in QueueOf(R) /\ t.registers = f
      /\ t.freeList = s.freeList /\ t.allocatedList = s.allocatedList
      /\ t.readyList = s.readyList /\ t.allocated = s.allocated
      /\ t.inServiceEntries = s.inServiceEntries /\ t.failed = s.failed
  BY <1>1, <1>2 DEF QueueOf
<1> QED BY <1>1, <1>3 DEF t

(* The last record put in a register counts.                               *)
LEMMA PutPut ==
    ASSUME NEW R, NEW s \in QueueOf(R), NEW i \in Ids, NEW x, NEW y
    PROVE  Put(Put(s, i, x), i, y) = Put(s, i, y)
  BY DEF Put, QueueOf

(* What a queue in Base is made of.                                        *)
LEMMA BaseFacts ==
    ASSUME NEW R, NEW s, Base(R, s)
    PROVE  /\ s \in QueueOf(R) /\ ~s.failed /\ Lists(s) /\ Clean(s) /\ Sorted(s)
           /\ s.registers \in [Ids -> R] /\ \A i \in Ids : s.registers[i] \in R
           /\ s.freeList \in Seq(Ids) /\ s.allocatedList \in Seq(Ids)
           /\ s.readyList \in Seq(Ids)
           /\ Elements(s.freeList) \subseteq Ids
           /\ Elements(s.allocatedList) \subseteq Ids
           /\ Elements(s.readyList) \subseteq Ids
           /\ Injective(s.freeList) /\ Injective(s.allocatedList) /\ Injective(s.readyList)
           /\ s.allocated \in Nat /\ s.inServiceEntries \in Nat
<1>1. s \in QueueOf(R) /\ ~s.failed /\ Lists(s) /\ Clean(s) /\ Sorted(s)
  BY DEF Base
<1> QED BY <1>1, QueueFacts DEF Lists

(* An allocated register changes in a way that the lists do not depend on: *)
(* a request joins it, a snoop is saved, a prefetch is dropped.            *)
LEMMA BaseUpdate ==
    ASSUME NEW R, NEW s, Base(R, s), NEW i \in Elements(s.allocatedList), NEW m \in R,
           m.inService = s.registers[i].inService, m.readyTime = s.registers[i].readyTime
    PROVE  Base(R, Put(s, i, m))
<1> DEFINE t == Put(s, i, m)
<1>1. /\ s \in QueueOf(R) /\ ~s.failed /\ Lists(s) /\ Clean(s) /\ Sorted(s) /\ i \in Ids
      /\ Elements(s.freeList) \subseteq Ids /\ s.readyList \in Seq(Ids)
  BY BaseFacts
<1>2. /\ t \in QueueOf(R) /\ t.registers[i] = m
      /\ \A j \in Ids : j # i => t.registers[j] = s.registers[j]
      /\ t.freeList = s.freeList /\ t.allocatedList = s.allocatedList
      /\ t.readyList = s.readyList /\ t.allocated = s.allocated
      /\ t.inServiceEntries = s.inServiceEntries /\ t.failed = s.failed
  BY ONLY m \in R, <1>1, PutFacts
<1> HIDE DEF t
<1>3. \A j \in Ids : /\ t.registers[j].inService = s.registers[j].inService
                     /\ t.registers[j].readyTime = s.registers[j].readyTime
  BY <1>2
<1>4. Lists(t)
  <2>1. InService(t) = InService(s)
    BY <1>3 DEF InService
  <2> QED BY <1>1, <1>2, <1>3, <2>1 DEF Lists
<1>5. Clean(t)
  BY <1>1, <1>2 DEF Clean, Lists
<1>6. Sorted(t)
  <2>1. \A k \in DOMAIN s.readyList : s.readyList[k] \in Ids
    BY <1>1, ListType
  <2> QED BY <1>1, <1>2, <1>3, <2>1 DEF Sorted
<1> QED BY <1>1, <1>2, <1>4, <1>5, <1>6 DEF Base, t

(* What an operation does to a queue: only register i changes, it is given *)
(* back, becomes the allocated w, leaves the ready list or returns to it.  *)
Only(s, t, i) == \A j \in Ids : j # i => t.registers[j] = s.registers[j]

Frees(s, t, i) ==
    /\ Only(s, t, i) /\ t.registers[i] = FreeMSHR
    /\ Elements(t.allocatedList) = Elements(s.allocatedList) \ {i}
    /\ Elements(t.readyList) = Elements(s.readyList) \ {i}
    /\ s.allocated > 0 /\ t.allocated = s.allocated - 1
    /\ KeepsTurns(s, t)

Takes(s, t, i, w) ==
    /\ Only(s, t, i) /\ t.registers[i] = w /\ i \in Ids \ Elements(s.allocatedList)
    /\ Elements(t.allocatedList) = Elements(s.allocatedList) \cup {i}
    /\ Elements(t.readyList) = Elements(s.readyList) \cup {i}
    /\ t.allocated = s.allocated + 1 /\ KeepsTurns(s, t)

Puts(s, t, i, w) ==
    /\ Only(s, t, i) /\ t.registers[i] = w
    /\ t.allocatedList = s.allocatedList /\ t.allocated = s.allocated

SameReady(s, t) == t.readyList = s.readyList

Starts(s, t, i, w) ==
    /\ Puts(s, t, i, w) /\ Elements(t.readyList) = Elements(s.readyList) \ {i}
    /\ KeepsTurns(s, t)

Restarts(s, t, i, w) ==
    /\ Puts(s, t, i, w) /\ Elements(t.readyList) = Elements(s.readyList) \cup {i}
    /\ KeepsTurns(s, t)

(* The targets of the register x, which is m now, have all been answered.  *)
Done(m, x) ==
    m.inService = x.inService /\ m.targets.list = <<>> /\ IsReset(m.deferredTargets)

(* deallocateOne of a register whose targets have all been answered.       *)
LEMMA BaseDeallocate ==
    ASSUME NEW R, Typed(R), NEW s, Base(R, s), NEW i \in Elements(s.allocatedList),
           NEW m, Done(m, s.registers[i]), NEW t, t = deallocateOne(Put(s, i, m), i)
    PROVE  /\ Base(R, t)
           /\ Frees(s, t, i)
<1> DEFINE u == Put(s, i, m)
           a == RemoveFirst(s.allocatedList, i)
           f == <<i>> \o s.freeList
           r == IF m.inService THEN s.readyList ELSE RemoveFirst(s.readyList, i)
           c == IF m.inService THEN s.inServiceEntries - 1 ELSE s.inServiceEntries
           g == Put(s, i, FreeMSHR)
<1>0. /\ m.inService = s.registers[i].inService /\ m.targets.list = <<>>
      /\ IsReset(m.deferredTargets)
  BY DEF Done
<1>1. /\ s \in QueueOf(R) /\ ~s.failed /\ Lists(s) /\ Clean(s) /\ Sorted(s)
      /\ Elements(s.freeList) \subseteq Ids /\ Elements(s.allocatedList) \subseteq Ids
      /\ Elements(s.readyList) \subseteq Ids
      /\ s.freeList \in Seq(Ids) /\ s.allocatedList \in Seq(Ids) /\ s.readyList \in Seq(Ids)
      /\ Injective(s.freeList) /\ Injective(s.allocatedList) /\ Injective(s.readyList)
  BY BaseFacts
<1>2. i \in Ids /\ FreeMSHR \in R /\ FreeMSHR.inService = FALSE
  BY <1>1 DEF Typed, FreeMSHR
<1>3. /\ u \in QueueOf(R \cup {m}) /\ u.registers[i] = m
      /\ u.freeList = s.freeList /\ u.allocatedList = s.allocatedList
      /\ u.readyList = s.readyList /\ u.allocated = s.allocated
      /\ u.inServiceEntries = s.inServiceEntries
  <2>1. s \in QueueOf(R \cup {m}) /\ m \in R \cup {m}
    BY <1>1 DEF QueueOf
  <2> QED BY ONLY <1>2, <2>1, PutFacts
<1>4. m.inService \in BOOLEAN
  BY <1>0, <1>1, <1>2, QueueFacts DEF Typed
<1>5. t = [u EXCEPT !.registers[i] = FreeMSHR, !.allocatedList = a, !.freeList = f,
                    !.allocated = s.allocated - 1, !.inServiceEntries = c, !.readyList = r]
  <2>1. Check(u, m.targets.list = <<>> /\ IsReset(m.deferredTargets)) = u
    BY <1>0, <1>3, CheckFacts
  <2> QED BY <1>3, <2>1 DEF deallocateOne
<1>6. /\ i \notin Elements(s.freeList)
      /\ i \in Elements(s.readyList) <=> ~m.inService
  BY <1>0, <1>1, <1>2, <1>4 DEF Lists
<1>7. /\ f \in Seq(Ids) /\ Len(f) = Len(s.freeList) + 1
      /\ Elements(f) = Elements(s.freeList) \cup {i} /\ Injective(f)
  BY ONLY <1>1, <1>2, <1>6, PushFront
<1>8. /\ a \in Seq(Ids) /\ Len(a) = Len(s.allocatedList) - 1
      /\ Elements(a) = Elements(s.allocatedList) \ {i} /\ Injective(a)
  BY ONLY i \in Elements(s.allocatedList), <1>1, <1>6, Erase
<1>9. /\ r \in Seq(Ids) /\ Elements(r) = Elements(s.readyList) \ {i} /\ Injective(r)
  <2>1. CASE m.inService
    <3>1. r = s.readyList /\ i \notin Elements(s.readyList)
      BY <1>6, <2>1
    <3> HIDE DEF r
    <3> QED BY ONLY <1>1, <3>1
  <2>2. CASE ~m.inService
    <3>1. r = RemoveFirst(s.readyList, i) /\ i \in Elements(s.readyList)
      BY <1>6, <2>2
    <3> HIDE DEF r
    <3> QED BY ONLY <1>1, <3>1, Erase
  <2> QED BY <2>1, <2>2
<1>10. /\ Len(s.freeList) \in Nat /\ Len(s.allocatedList) \in Nat /\ Len(a) \in Nat
       /\ s.allocated = Len(s.allocatedList) /\ s.allocated - 1 \in Nat /\ s.allocated > 0
       /\ Len(s.freeList) + Len(s.allocatedList) = N
  <2>1. Len(s.freeList) \in Nat /\ Len(s.allocatedList) \in Nat /\ Len(a) \in Nat
    BY <1>1, <1>8, ListType
  <2>2. \A x, y \in Nat : y = x - 1 => x - 1 \in Nat /\ x > 0
    OBVIOUS
  <2>3. s.allocated = Len(s.allocatedList) /\ Len(s.freeList) + Len(s.allocatedList) = N
    BY <1>1 DEF Lists
  <2> QED BY <1>8, <2>1, <2>2, <2>3
<1>11. /\ g \in QueueOf(R) /\ g.registers[i] = FreeMSHR
       /\ \A j \in Ids : j # i => g.registers[j] = s.registers[j]
       /\ g.failed = s.failed
  BY ONLY <1>1, <1>2, PutFacts
<1>12. Put(u, i, FreeMSHR) = g
  BY <1>1, <1>2, PutPut
<1> HIDE DEF g
<1>13. /\ c \in Nat /\ c = Cardinality(InService(g))
  <2>1. /\ s.inServiceEntries = Cardinality(InService(s)) /\ s.inServiceEntries \in Nat
    BY <1>1, QueueFacts DEF Lists
  <2>2. \A j \in Ids : j # i => g.registers[j].inService = s.registers[j].inService
    BY <1>11
  <2>3. Cardinality(InService(g)) \in Nat
    BY ONLY <1>1, <1>2, <1>11, <2>2, CountFacts
  <2>4. CASE m.inService
    <3>1. Cardinality(InService(g)) = Cardinality(InService(s)) - 1
      <4>1. s.registers[i].inService /\ ~g.registers[i].inService
        BY <1>0, <1>2, <1>11, <2>4
      <4> QED BY ONLY <1>1, <1>2, <1>11, <2>2, <4>1, CountFacts
    <3> QED BY <2>1, <2>3, <2>4, <3>1
  <2>5. CASE ~m.inService
    <3>1. g.registers[i].inService = s.registers[i].inService
      BY <1>0, <1>2, <1>4, <1>11, <2>5
    <3>2. Cardinality(InService(g)) = Cardinality(InService(s))
      BY ONLY <1>1, <1>2, <1>11, <2>2, <3>1, CountFacts
    <3> QED BY <2>1, <2>3, <2>5, <3>2
  <2> QED BY <2>4, <2>5
<1> HIDE DEF a, f, r, c
<1>14. t = [g EXCEPT !.allocatedList = a, !.freeList = f, !.allocated = s.allocated - 1,
                     !.inServiceEntries = c, !.readyList = r]
  <2>1. t = [Put(u, i, FreeMSHR) EXCEPT !.allocatedList = a, !.freeList = f,
                !.allocated = s.allocated - 1, !.inServiceEntries = c, !.readyList = r]
    <3> HIDE DEF u
    <3> QED BY <1>3, <1>5 DEF QueueOf, Put
  <2> QED BY <1>12, <2>1
<1>15. /\ t \in QueueOf(R) /\ t.registers = g.registers /\ t.failed = g.failed
       /\ t.allocatedList = a /\ t.freeList = f /\ t.allocated = s.allocated - 1
       /\ t.inServiceEntries = c /\ t.readyList = r
  BY <1>7, <1>8, <1>9, <1>10, <1>11, <1>13, <1>14 DEF QueueOf
<1>16. ~t.failed
  BY <1>1, <1>11, <1>15
<1>17. \A j \in Ids : j # i => t.registers[j] = s.registers[j]
  BY <1>11, <1>15
<1>18. Lists(t)
  <2>1. InService(t) = InService(g)
    BY <1>15 DEF InService
  <2>2. \A j \in Ids : j \in Elements(f) <=> j \notin Elements(a)
    BY <1>1, <1>7, <1>8 DEF Lists
  <2>3. \A j \in Ids : j \in Elements(r) <=> j \in Elements(a) /\ ~t.registers[j].inService
    BY <1>1, <1>8, <1>9, <1>17 DEF Lists
  <2>4. Len(f) + Len(a) = N /\ s.allocated - 1 = Len(a)
    <3> HIDE DEF N
    <3>1. Len(f) = Len(s.freeList) + 1 /\ Len(a) = Len(s.allocatedList) - 1
      BY <1>7, <1>8
    <3>2. \A x, y \in Nat : (x + 1) + (y - 1) = x + y
      OBVIOUS
    <3>3. (Len(s.freeList) + 1) + (Len(s.allocatedList) - 1) = N
      BY <1>10, <3>2
    <3> QED BY <1>10, <3>1, <3>3
  <2> QED BY <1>7, <1>8, <1>9, <1>13, <1>15, <2>1, <2>2, <2>3, <2>4 DEF Lists
<1>19. Clean(t)
  BY <1>1, <1>6, <1>7, <1>11, <1>15, <1>17 DEF Clean
<1>20. Sorted(t)
  <2>1. CASE m.inService
    <3>1. t.readyList = s.readyList /\ i \notin Elements(s.readyList)
      BY <1>6, <1>15, <2>1 DEF r
    <3>2. \A k \in DOMAIN s.readyList : s.readyList[k] \in Ids /\ s.readyList[k] # i
      BY <1>1, <3>1 DEF Elements
    <3> QED BY <1>1, <1>17, <3>1, <3>2 DEF Sorted
  <2>2. CASE ~m.inService
    <3>1. t.readyList = RemoveFirst(s.readyList, i) /\ i \in Elements(s.readyList)
      BY <1>6, <1>15, <2>2 DEF r
    <3>2. \A j \in Ids : j # i => t.registers[j].readyTime = s.registers[j].readyTime
      BY <1>17
    <3> QED BY ONLY <1>1, <1>15, <3>1, <3>2, ErasedSorted
  <2> QED BY <1>4, <2>1, <2>2
<1>21. KeepsTurns(s, t)
  <2>1. CASE m.inService
    <3>1. t.readyList = s.readyList
      BY <1>15, <2>1 DEF r
    <3> QED BY <3>1, SameTurns
  <2>2. CASE ~m.inService
    <3>1. t.readyList = RemoveFirst(s.readyList, i) /\ i \in Elements(s.readyList)
      BY <1>6, <1>15, <2>2 DEF r
    <3> QED BY ONLY <1>1, <3>1, ErasedTurns
  <2> QED BY <1>4, <2>1, <2>2
<1> QED BY <1>8, <1>9, <1>10, <1>11, <1>15, <1>16, <1>17, <1>18, <1>19, <1>20, <1>21
         DEF Base, Frees, Only

(* allocate: a free register takes the record w of a new request.          *)
LEMMA BaseAllocate ==
    ASSUME NEW R, Typed(R), NEW s, Base(R, s), s.freeList # <<>>,
           NEW blk, NEW cmd, NEW when, NEW ord,
           NEW w \in R, w = MSHR_allocate(blk, cmd, when, ord), ~w.inService, NEW t,
           t = MSHRQueue_allocate(s, blk, cmd, when, ord)
    PROVE  /\ Base(R, t)
           /\ Takes(s, t, Head(s.freeList), w)
<1> DEFINE i == Head(s.freeList)
           f == Tail(s.freeList)
           a == Append(s.allocatedList, i)
           g == Put(s, i, w)
           h == [g EXCEPT !.freeList = f, !.allocatedList = a, !.allocated = s.allocated + 1]
<1>1. /\ s \in QueueOf(R) /\ ~s.failed /\ Lists(s) /\ Clean(s) /\ Sorted(s)
      /\ Elements(s.freeList) \subseteq Ids /\ Elements(s.allocatedList) \subseteq Ids
      /\ Elements(s.readyList) \subseteq Ids
      /\ s.freeList \in Seq(Ids) /\ s.allocatedList \in Seq(Ids) /\ s.readyList \in Seq(Ids)
      /\ Injective(s.freeList) /\ Injective(s.allocatedList) /\ Injective(s.readyList)
      /\ s.allocated \in Nat
  BY BaseFacts
<1>2. /\ i \in Ids /\ i \in Elements(s.freeList)
      /\ f \in Seq(Ids) /\ Len(f) = Len(s.freeList) - 1
      /\ Elements(f) = Elements(s.freeList) \ {i} /\ Injective(f)
  BY ONLY <1>1, s.freeList # <<>>, PopFront
<1>3. i \notin Elements(s.allocatedList) /\ i \notin Elements(s.readyList)
  BY <1>1, <1>2 DEF Lists
<1>4. s.registers[i] = FreeMSHR /\ FreeMSHR.inService = FALSE /\ w.inService = FALSE
  BY <1>1, <1>2 DEF Clean, FreeMSHR, Typed
<1> HIDE DEF i, f
<1>5. /\ a \in Seq(Ids) /\ Len(a) = Len(s.allocatedList) + 1
      /\ Elements(a) = Elements(s.allocatedList) \cup {i} /\ Injective(a)
  BY ONLY <1>1, <1>2, <1>3, PushBack
<1> HIDE DEF a
<1>6. /\ g \in QueueOf(R) /\ g.registers[i] = w
      /\ \A j \in Ids : j # i => g.registers[j] = s.registers[j]
      /\ g.freeList = s.freeList /\ g.allocatedList = s.allocatedList
      /\ g.readyList = s.readyList /\ g.allocated = s.allocated
      /\ g.inServiceEntries = s.inServiceEntries /\ g.failed = s.failed
  BY ONLY w \in R, <1>1, <1>2, PutFacts
<1>7. t = addToReadyList(h, i)
  <2> DEFINE c == /\ s.freeList # <<>>
                  /\ getNumTargets(s.registers[i]) = 0
                  /\ IsReset(s.registers[i].targets)
                  /\ IsReset(s.registers[i].deferredTargets)
  <2>1. c
    <3>1. FreeMSHR.targets = EmptyTargets /\ FreeMSHR.deferredTargets = EmptyTargets
      BY DEF FreeMSHR
    <3>2. getNumTargets(FreeMSHR) = 0
      BY <3>1 DEF getNumTargets, EmptyTargets
    <3> QED BY <1>4, <3>1, <3>2, FreeFacts
  <2>2. Check(s, c) = s
    BY <1>1, <2>1, CheckFacts
  <2>3. t = addToReadyList([Check(s, c) EXCEPT !.registers[i] = w, !.freeList = Tail(@),
                              !.allocatedList = Append(@, i), !.allocated = @ + 1], i)
    BY DEF MSHRQueue_allocate, NextFree, i
  <2> HIDE DEF c
  <2>4. [s EXCEPT !.registers[i] = w, !.freeList = Tail(@), !.allocatedList = Append(@, i),
                  !.allocated = @ + 1] = h
    BY <1>1 DEF QueueOf, Put, f, a
  <2> QED BY <2>2, <2>3, <2>4
<1> HIDE DEF g
<1>8. /\ h \in QueueOf(R) /\ h.registers = g.registers /\ h.freeList = f
      /\ h.allocatedList = a /\ h.readyList = s.readyList
      /\ h.allocated = s.allocated + 1 /\ h.failed = s.failed
      /\ h.inServiceEntries = s.inServiceEntries
  <2>1. s.allocated + 1 \in Nat
    BY <1>1
  <2> QED BY <1>2, <1>5, <1>6, <2>1 DEF QueueOf
<1> HIDE DEF h
<1>9. Sorted(h)
  <2>1. \A k \in DOMAIN s.readyList : s.readyList[k] \in Ids /\ s.readyList[k] # i
    BY <1>1, <1>3 DEF Elements
  <2> QED BY <1>1, <1>6, <1>8, <2>1 DEF Sorted
<1>10. /\ t \in QueueOf(R) /\ t = [h EXCEPT !.readyList = t.readyList]
       /\ Elements(t.readyList) = Elements(s.readyList) \cup {i}
       /\ Injective(t.readyList) /\ Sorted(t) /\ KeepsTurns(h, t)
  <2>1. i \notin Elements(h.readyList) /\ Injective(h.readyList) /\ i \in Ids
    BY <1>1, <1>2, <1>3, <1>8
  <2>2. /\ t \in QueueOf(R) /\ t = [h EXCEPT !.readyList = t.readyList]
        /\ Elements(t.readyList) = Elements(h.readyList) \cup {i}
        /\ Injective(t.readyList) /\ Sorted(t) /\ KeepsTurns(h, t)
    BY ONLY Typed(R), <1>7, <1>8, <1>9, <2>1, AddToReady
  <2> QED BY <1>8, <2>2
<1>11. /\ t.registers[i] = w /\ \A j \in Ids : j # i => t.registers[j] = s.registers[j]
       /\ t.freeList = f /\ t.allocatedList = a /\ t.allocated = s.allocated + 1
       /\ t.failed = s.failed /\ t.inServiceEntries = s.inServiceEntries
  <2>1. /\ t.registers = h.registers /\ t.freeList = h.freeList
        /\ t.allocatedList = h.allocatedList /\ t.allocated = h.allocated
        /\ t.failed = h.failed /\ t.inServiceEntries = h.inServiceEntries
    BY <1>8, <1>10 DEF QueueOf
  <2> QED BY <1>6, <1>8, <2>1
<1>12. Lists(t)
  <2>1. t.inServiceEntries = Cardinality(InService(t))
    <3>1. \A j \in Ids : t.registers[j].inService = s.registers[j].inService
      BY <1>4, <1>11
    <3>2. InService(t) = InService(s)
      BY <3>1 DEF InService
    <3> QED BY <1>1, <1>11, <3>2 DEF Lists
  <2>2. \A j \in Ids : j \in Elements(f) <=> j \notin Elements(a)
    BY <1>1, <1>2, <1>3, <1>5 DEF Lists
  <2>3. \A j \in Ids : j \in Elements(t.readyList) <=>
            j \in Elements(a) /\ ~t.registers[j].inService
    BY <1>1, <1>3, <1>4, <1>5, <1>10, <1>11 DEF Lists
  <2>4. Len(f) + Len(a) = N /\ t.allocated = Len(a)
    <3>1. /\ Len(s.freeList) \in Nat /\ Len(s.allocatedList) \in Nat
          /\ Len(s.freeList) + Len(s.allocatedList) = N
          /\ s.allocated = Len(s.allocatedList)
      BY <1>1, ListType DEF Lists
    <3>2. \A x, y \in Nat : (x - 1) + (y + 1) = x + y
      OBVIOUS
    <3>3. (Len(s.freeList) - 1) + (Len(s.allocatedList) + 1) = N
      BY <3>1, <3>2
    <3> QED BY <1>2, <1>5, <1>11, <3>1, <3>3
  <2> QED BY <1>2, <1>5, <1>10, <1>11, <2>1, <2>2, <2>3, <2>4 DEF Lists
<1>13. Clean(t)
  BY <1>1, <1>2, <1>11 DEF Clean
<1>14. Base(R, t)
  BY <1>1, <1>10, <1>11, <1>12, <1>13 DEF Base
<1>15. KeepsTurns(s, t)
  BY <1>8, <1>10 DEF KeepsTurns
<1> QED BY <1>2, <1>3, <1>5, <1>10, <1>11, <1>14, <1>15 DEF i, Takes, Only

(* markInService of a request that is answered: its register leaves the    *)
(* ready list.                                                             *)
LEMMA BaseMark ==
    ASSUME NEW R, Typed(R), NEW s, Base(R, s), NEW i \in Elements(s.readyList),
           NEW f \in R, ~f.inService, ~isForwardNoResponse(f), NEW pd,
           NEW w \in R, w = MSHR_markInService(f, pd), w.inService, NEW t,
           t = MSHRQueue_markInService(Put(s, i, f), i, pd)
    PROVE  /\ Base(R, t)
           /\ Starts(s, t, i, w)
<1> DEFINE u == Put(s, i, f)
           r == RemoveFirst(s.readyList, i)
           g == Put(s, i, w)
<1>1. /\ s \in QueueOf(R) /\ ~s.failed /\ Lists(s) /\ Clean(s) /\ Sorted(s) /\ i \in Ids
      /\ Elements(s.freeList) \subseteq Ids /\ s.readyList \in Seq(Ids)
      /\ Injective(s.readyList) /\ s.inServiceEntries \in Nat
  BY BaseFacts
<1>2. /\ i \in Elements(s.allocatedList) /\ ~s.registers[i].inService
      /\ i \notin Elements(s.freeList)
  BY <1>1 DEF Lists
<1>3. /\ u \in QueueOf(R) /\ u.registers[i] = f /\ u.readyList = s.readyList
      /\ u.inServiceEntries = s.inServiceEntries
  BY ONLY f \in R, <1>1, PutFacts
<1>4. /\ g \in QueueOf(R) /\ g.registers[i] = w
      /\ \A j \in Ids : j # i => g.registers[j] = s.registers[j]
      /\ g.freeList = s.freeList /\ g.allocatedList = s.allocatedList
      /\ g.readyList = s.readyList /\ g.allocated = s.allocated
      /\ g.inServiceEntries = s.inServiceEntries /\ g.failed = s.failed
  BY ONLY w \in R, <1>1, PutFacts
<1>5. Put(u, i, w) = g
  BY <1>1, PutPut
<1> HIDE DEF u, g
<1>6. t = [g EXCEPT !.readyList = r, !.inServiceEntries = s.inServiceEntries + 1]
  <2>1. Check(u, ~u.registers[i].inService) = u
    BY <1>3, CheckFacts
  <2>2. t = [u EXCEPT !.registers[i] = w, !.readyList = RemoveFirst(@, i),
                      !.inServiceEntries = @ + 1]
    BY <1>3, <2>1 DEF MSHRQueue_markInService, u
  <2>3. t = [u EXCEPT !.registers[i] = w, !.readyList = r,
                      !.inServiceEntries = s.inServiceEntries + 1]
    BY <1>3, <2>2
  <2> HIDE DEF r
  <2>4. t = [Put(u, i, w) EXCEPT !.readyList = r,
                                 !.inServiceEntries = s.inServiceEntries + 1]
    BY <1>3, <2>3 DEF Put, QueueOf
  <2> QED BY <1>5, <2>4
<1>7. /\ r \in Seq(Ids) /\ Elements(r) = Elements(s.readyList) \ {i} /\ Injective(r)
  BY ONLY i \in Elements(s.readyList), <1>1, Erase
<1> HIDE DEF r
<1>8. /\ t \in QueueOf(R) /\ t.registers = g.registers
      /\ t.freeList = s.freeList /\ t.allocatedList = s.allocatedList
      /\ t.readyList = r /\ t.allocated = s.allocated
      /\ t.inServiceEntries = s.inServiceEntries + 1 /\ t.failed = s.failed
  <2>1. s.inServiceEntries + 1 \in Nat
    BY <1>1
  <2> QED BY <1>4, <1>6, <1>7, <2>1 DEF QueueOf
<1>9. t.registers[i] = w /\ \A j \in Ids : j # i => t.registers[j] = s.registers[j]
  BY <1>4, <1>8
<1>10. Lists(t)
  <2>1. t.inServiceEntries = Cardinality(InService(t))
    <3>1. t.registers[i].inService /\ ~s.registers[i].inService
      BY <1>2, <1>9
    <3>2. \A j \in Ids : j # i => t.registers[j].inService = s.registers[j].inService
      BY <1>9
    <3>3. Cardinality(InService(t)) = Cardinality(InService(s)) + 1
      BY ONLY <1>1, <1>8, <3>1, <3>2, CountFacts
    <3> QED BY <1>1, <1>8, <3>3 DEF Lists
  <2>2. \A j \in Ids : j \in Elements(r) <=>
            j \in Elements(s.allocatedList) /\ ~t.registers[j].inService
    BY <1>1, <1>2, <1>7, <1>9 DEF Lists
  <2> QED BY <1>1, <1>7, <1>8, <2>1, <2>2 DEF Lists
<1>11. Clean(t)
  BY <1>1, <1>2, <1>8, <1>9 DEF Clean
<1>12. Sorted(t)
  <2>1. \A j \in Ids : j # i => t.registers[j].readyTime = s.registers[j].readyTime
    BY <1>9
  <2>2. t.readyList = RemoveFirst(s.readyList, i)
    BY <1>8 DEF r
  <2> QED BY ONLY i \in Elements(s.readyList), <1>1, <1>8, <2>1, <2>2, ErasedSorted
<1>13. Base(R, t)
  BY <1>1, <1>8, <1>10, <1>11, <1>12 DEF Base
<1>14. KeepsTurns(s, t)
  <2>1. t.readyList = RemoveFirst(s.readyList, i)
    BY <1>8 DEF r
  <2> QED BY ONLY i \in Elements(s.readyList), <1>1, <2>1, ErasedTurns
<1> QED BY <1>7, <1>8, <1>9, <1>13, <1>14 DEF Starts, Puts, Only

(* markPending: a register in service, with the record p, waits again.     *)
LEMMA BasePending ==
    ASSUME NEW R, Typed(R), NEW s, Base(R, s), NEW i \in Elements(s.allocatedList),
           s.registers[i].inService, NEW p \in R, p.inService,
           NEW w \in R, w = [p EXCEPT !.inService = FALSE], ~w.inService, NEW t,
           t = markPending(Put(s, i, p), i)
    PROVE  /\ Base(R, t)
           /\ Restarts(s, t, i, w)
<1> DEFINE v == Put(s, i, p)
           g == Put(s, i, w)
           h == [g EXCEPT !.inServiceEntries = s.inServiceEntries - 1]
<1>1. /\ s \in QueueOf(R) /\ ~s.failed /\ Lists(s) /\ Clean(s) /\ Sorted(s) /\ i \in Ids
      /\ Elements(s.freeList) \subseteq Ids /\ s.readyList \in Seq(Ids)
      /\ Injective(s.readyList) /\ s.inServiceEntries \in Nat
  BY BaseFacts
<1>2. i \notin Elements(s.readyList) /\ i \notin Elements(s.freeList)
  BY <1>1 DEF Lists
<1>3. /\ v \in QueueOf(R) /\ v.registers[i] = p
      /\ v.inServiceEntries = s.inServiceEntries
  BY ONLY p \in R, <1>1, PutFacts
<1>4. /\ g \in QueueOf(R) /\ g.registers[i] = w
      /\ \A j \in Ids : j # i => g.registers[j] = s.registers[j]
      /\ g.freeList = s.freeList /\ g.allocatedList = s.allocatedList
      /\ g.readyList = s.readyList /\ g.allocated = s.allocated
      /\ g.inServiceEntries = s.inServiceEntries /\ g.failed = s.failed
  BY ONLY w \in R, <1>1, PutFacts
<1>5. Put(v, i, w) = g
  BY <1>1, PutPut
<1>6. t = addToReadyList(h, i)
  <2>1. Check(v, v.registers[i].inService) = v
    BY <1>3, CheckFacts
  <2> HIDE DEF v
  <2>2. t = addToReadyList([v EXCEPT !.registers[i].inService = FALSE,
                                     !.inServiceEntries = @ - 1], i)
    BY <2>1 DEF markPending, v
  <2>3. [v EXCEPT !.registers[i].inService = FALSE, !.inServiceEntries = @ - 1]
          = [Put(v, i, w) EXCEPT !.inServiceEntries = s.inServiceEntries - 1]
    BY <1>1, <1>3 DEF Put, QueueOf
  <2> HIDE DEF g
  <2> QED BY <1>5, <2>2, <2>3
<1> HIDE DEF g
<1>7. /\ s.inServiceEntries - 1 \in Nat
      /\ s.inServiceEntries - 1 = Cardinality(InService(g))
  <2>1. s.registers[i].inService /\ ~g.registers[i].inService
    BY <1>4
  <2>2. \A j \in Ids : j # i => g.registers[j].inService = s.registers[j].inService
    BY <1>4
  <2>3. /\ Cardinality(InService(g)) = Cardinality(InService(s)) - 1
        /\ Cardinality(InService(g)) \in Nat
    BY ONLY <1>1, <1>4, <2>1, <2>2, CountFacts
  <2> QED BY <1>1, <2>3 DEF Lists
<1>8. /\ h \in QueueOf(R) /\ h.registers = g.registers /\ h.freeList = s.freeList
      /\ h.allocatedList = s.allocatedList /\ h.readyList = s.readyList
      /\ h.allocated = s.allocated /\ h.failed = s.failed
      /\ h.inServiceEntries = s.inServiceEntries - 1
  BY <1>4, <1>7 DEF QueueOf
<1> HIDE DEF h
<1>9. Sorted(h)
  <2>1. \A k \in DOMAIN s.readyList : s.readyList[k] \in Ids /\ s.readyList[k] # i
    BY <1>1, <1>2 DEF Elements
  <2> QED BY <1>1, <1>4, <1>8, <2>1 DEF Sorted
<1>10. /\ t \in QueueOf(R) /\ t = [h EXCEPT !.readyList = t.readyList]
       /\ Elements(t.readyList) = Elements(s.readyList) \cup {i}
       /\ Injective(t.readyList) /\ Sorted(t) /\ KeepsTurns(h, t)
  <2>1. i \notin Elements(h.readyList) /\ Injective(h.readyList) /\ i \in Ids
    BY <1>1, <1>2, <1>8
  <2>2. /\ t \in QueueOf(R) /\ t = [h EXCEPT !.readyList = t.readyList]
        /\ Elements(t.readyList) = Elements(h.readyList) \cup {i}
        /\ Injective(t.readyList) /\ Sorted(t) /\ KeepsTurns(h, t)
    BY ONLY Typed(R), <1>6, <1>8, <1>9, <2>1, AddToReady
  <2> QED BY <1>8, <2>2
<1>11. /\ t.registers[i] = w /\ \A j \in Ids : j # i => t.registers[j] = s.registers[j]
       /\ t.freeList = s.freeList /\ t.allocatedList = s.allocatedList
       /\ t.allocated = s.allocated /\ t.failed = s.failed
       /\ t.inServiceEntries = s.inServiceEntries - 1 /\ t.registers = g.registers
  <2>1. /\ t.registers = h.registers /\ t.freeList = h.freeList
        /\ t.allocatedList = h.allocatedList /\ t.allocated = h.allocated
        /\ t.failed = h.failed /\ t.inServiceEntries = h.inServiceEntries
    BY <1>8, <1>10 DEF QueueOf
  <2> QED BY <1>4, <1>8, <2>1
<1>12. Lists(t)
  <2>1. t.inServiceEntries = Cardinality(InService(t))
    BY <1>7, <1>11 DEF InService
  <2>2. \A j \in Ids : j \in Elements(t.readyList) <=>
            j \in Elements(s.allocatedList) /\ ~t.registers[j].inService
    <3>1. \A j \in Ids : j \in Elements(s.readyList) <=>
              j \in Elements(s.allocatedList) /\ ~s.registers[j].inService
      BY <1>1 DEF Lists
    <3>2. i \in Elements(s.allocatedList) /\ ~t.registers[i].inService
      BY <1>11
    <3>3. \A j \in Ids : j # i => t.registers[j].inService = s.registers[j].inService
      BY <1>11
    <3> QED BY ONLY <1>10, <3>1, <3>2, <3>3
  <2> QED BY <1>1, <1>10, <1>11, <2>1, <2>2 DEF Lists
<1>13. Clean(t)
  BY <1>1, <1>2, <1>11 DEF Clean
<1>14. Base(R, t)
  BY <1>1, <1>10, <1>11, <1>12, <1>13 DEF Base
<1>15. KeepsTurns(s, t)
  BY <1>8, <1>10 DEF KeepsTurns
<1> QED BY <1>10, <1>11, <1>14, <1>15 DEF Restarts, Puts, Only

(* Time passes: the order of the ready list is that of the ready times.    *)
LEMMA BaseTick ==
    ASSUME NEW R, Typed(R), NEW s, Base(R, s), OlderMSHR(FreeMSHR) = FreeMSHR,
           \A m \in R : /\ OlderMSHR(m) \in R /\ OlderMSHR(m).inService = m.inService
                        /\ OlderMSHR(m).readyTime = Sooner(m.readyTime),
           NEW t, t = QueueTick(s)
    PROVE  /\ Base(R, t)
           /\ \A j \in Ids : t.registers[j] = OlderMSHR(s.registers[j])
           /\ t.allocatedList = s.allocatedList /\ t.readyList = s.readyList
           /\ t.freeList = s.freeList /\ t.allocated = s.allocated
<1> DEFINE f == [j \in Ids |-> OlderMSHR(s.registers[j])]
<1>1. /\ s \in QueueOf(R) /\ ~s.failed /\ Lists(s) /\ Clean(s) /\ Sorted(s)
      /\ Elements(s.freeList) \subseteq Ids /\ DOMAIN s.registers = Ids
      /\ s.readyList \in Seq(Ids) /\ \A j \in Ids : s.registers[j] \in R
  BY BaseFacts
<1>2. \A j \in Ids : /\ f[j] \in R /\ f[j].inService = s.registers[j].inService
                     /\ f[j].readyTime = Sooner(s.registers[j].readyTime)
                     /\ s.registers[j] = FreeMSHR => f[j] = FreeMSHR
  BY <1>1
<1>3. f \in [Ids -> R]
  BY <1>2
<1>4. t = [s EXCEPT !.registers = f]
  BY <1>1 DEF QueueTick
<1>5. \A j \in Ids : f[j] = OlderMSHR(s.registers[j])
  OBVIOUS
<1> HIDE DEF f
<1>6. /\ t \in QueueOf(R) /\ t.registers = f /\ t.freeList = s.freeList
      /\ t.allocatedList = s.allocatedList /\ t.readyList = s.readyList
      /\ t.allocated = s.allocated /\ t.inServiceEntries = s.inServiceEntries
      /\ t.failed = s.failed
  BY <1>1, <1>3, <1>4 DEF QueueOf
<1>7. Lists(t)
  <2>1. InService(t) = InService(s)
    BY <1>2, <1>6 DEF InService
  <2> QED BY <1>1, <1>2, <1>6, <2>1 DEF Lists
<1>8. Clean(t)
  BY <1>1, <1>2, <1>6 DEF Clean
<1>9. Sorted(t)
  <2>1. \A x, y \in Nat : x <= y => Sooner(x) <= Sooner(y)
    BY DEF Sooner
  <2>2. \A j \in Ids : s.registers[j].readyTime \in Nat
    BY <1>1 DEF Typed
  <2>3. \A k \in DOMAIN s.readyList : s.readyList[k] \in Ids
    BY <1>1, ListType
  <2> QED BY <1>1, <1>2, <1>6, <2>1, <2>2, <2>3 DEF Sorted
<1> QED BY <1>1, <1>5, <1>6, <1>7, <1>8, <1>9 DEF Base

(* A new queue: every register is free.                                    *)
LEMMA BaseNew ==
    ASSUME NEW R, Typed(R), NEW s, s = NewQueue(NumEntries, Reserve, DemandReserve)
    PROVE  /\ Base(R, s) /\ s.allocatedList = <<>> /\ s.readyList = <<>>
           /\ s.allocated = 0 /\ \A i \in Ids : s.registers[i] = FreeMSHR
<1> DEFINE f == [i \in Ids |-> i]
           g == [i \in Ids |-> FreeMSHR]
<1>1. N \in Nat /\ Reserve \in Nat /\ DemandReserve \in Nat
  BY SizeFacts, QueueAssumption
<1>2. /\ f \in Seq(Ids) /\ Len(f) = N /\ Injective(f) /\ Elements(f) = Ids
  <2>1. f \in [1 .. N -> Ids] /\ DOMAIN f = 1 .. N
    BY DEF Ids
  <2>2. Injective(f) /\ Elements(f) = Ids
    BY DEF Injective, Elements
  <2> HIDE DEF f, N
  <2> QED BY <1>1, <2>1, <2>2
<1>3. g \in [Ids -> R]
  BY DEF Typed
<1>4. s = [numEntries |-> N, numReserve |-> Reserve, demandReserve |-> DemandReserve,
           registers |-> g, freeList |-> f, allocatedList |-> <<>>, readyList |-> <<>>,
           allocated |-> 0, inServiceEntries |-> 0, failed |-> FALSE]
  BY DEF NewQueue, N, Ids
<1> HIDE DEF f
<1>5. s \in QueueOf(R)
  <2>1. <<>> \in Seq(Ids)
    OBVIOUS
  <2> HIDE DEF g, N
  <2> QED BY <1>1, <1>2, <1>3, <1>4, <2>1 DEF QueueOf
<1>6. Elements(<<>>) = {} /\ Injective(<<>>) /\ Len(<<>>) = 0
  BY DEF Elements, Injective
<1>7. \A i \in Ids : s.registers[i] = FreeMSHR
  BY <1>4
<1> HIDE DEF g
<1>8. /\ s.freeList = f /\ s.allocatedList = <<>> /\ s.readyList = <<>>
      /\ s.allocated = 0 /\ s.inServiceEntries = 0 /\ ~s.failed
  BY <1>4
<1>9. Lists(s)
  <2>1. InService(s) = {}
    BY <1>7, FreeFacts DEF InService
  <2>2. Cardinality(InService(s)) = 0
    BY <2>1, FS_EmptySet
  <2>3. Len(s.freeList) + Len(s.allocatedList) = N
    BY <1>1, <1>2, <1>6, <1>8
  <2> QED BY <1>2, <1>6, <1>8, <2>2, <2>3 DEF Lists
<1>10. Clean(s) /\ Sorted(s)
  BY <1>2, <1>7, <1>8 DEF Clean, Sorted
<1> QED BY <1>5, <1>7, <1>8, <1>9, <1>10 DEF Base


-----------------------------------------------------------------------------
(* The operations of the MSHR queue keep QueueInv.  Their lemmas also say  *)
(* what they change, for the modules that use the queue.                   *)

LEMMA RegistersTyped == Typed(Registers(Blocks))
<1>1. "none" \in Blocks
  BY DEF Blocks
<1> QED BY <1>1, FreeFacts, RegisterFacts DEF Typed

(* The allocated registers of the queue.                                   *)
LEMMA InvFacts ==
    \A s, ord :
        QueueInv(s, ord) =>
            /\ Base(Registers(Blocks), s) /\ Contents(s, ord) /\ s.allocated \in Nat
            /\ Elements(s.readyList) \subseteq Elements(s.allocatedList)
            /\ \A i \in Elements(s.allocatedList) :
                   /\ i \in Ids /\ s.registers[i] \in Registers(Blocks)
                   /\ RegisterOK(s.registers[i], ord) /\ hasTargets(s.registers[i])
<1> SUFFICES ASSUME NEW s, NEW ord, QueueInv(s, ord)
             PROVE  /\ Base(Registers(Blocks), s) /\ Contents(s, ord) /\ s.allocated \in Nat
                    /\ Elements(s.readyList) \subseteq Elements(s.allocatedList)
                    /\ \A i \in Elements(s.allocatedList) :
                           /\ i \in Ids /\ s.registers[i] \in Registers(Blocks)
                           /\ RegisterOK(s.registers[i], ord) /\ hasTargets(s.registers[i])
  OBVIOUS
<1>1. Base(Registers(Blocks), s) /\ Contents(s, ord)
  BY DEF QueueInv
<1>2. /\ Elements(s.allocatedList) \subseteq Ids /\ Lists(s) /\ s.allocated \in Nat
      /\ Elements(s.readyList) \subseteq Ids
      /\ \A i \in Ids : s.registers[i] \in Registers(Blocks)
  BY <1>1, BaseFacts
<1>3. Elements(s.readyList) \subseteq Elements(s.allocatedList)
  BY <1>2 DEF Lists
<1> QED BY <1>1, <1>2, <1>3 DEF Contents

(* One register has changed, or has been given back.                       *)
LEMMA ContentsKept ==
    ASSUME NEW s, NEW ord \in Nat, QueueInv(s, ord), NEW i \in Ids, NEW t,
           NEW o \in {ord, ord + 1}, Only(s, t, i),
           Elements(t.allocatedList) \subseteq Elements(s.allocatedList) \cup {i},
           i \in Elements(t.allocatedList) =>
               /\ RegisterOK(t.registers[i], o) /\ hasTargets(t.registers[i])
               /\ \A j \in Elements(s.allocatedList) :
                      j # i => s.registers[j].blkAddr # t.registers[i].blkAddr
    PROVE  Contents(t, o)
<1>1. \A j \in Elements(s.allocatedList) :
          /\ j \in Ids /\ s.registers[j] \in Registers(Blocks)
          /\ RegisterOK(s.registers[j], ord) /\ hasTargets(s.registers[j])
  BY InvFacts
<1>2. \A j \in Elements(s.allocatedList) : RegisterOK(s.registers[j], o)
  BY <1>1, LaterOK
<1>3. \A j \in Elements(t.allocatedList) : j # i =>
          j \in Elements(s.allocatedList) /\ t.registers[j] = s.registers[j]
  BY <1>1 DEF Only
<1>4. \A j, k \in Elements(s.allocatedList) :
          s.registers[j].blkAddr = s.registers[k].blkAddr => j = k
  BY DEF QueueInv, Contents
<1>5. \A j \in Elements(t.allocatedList) :
          RegisterOK(t.registers[j], o) /\ hasTargets(t.registers[j])
  BY <1>1, <1>2, <1>3
<1>6. ASSUME NEW j \in Elements(t.allocatedList), NEW k \in Elements(t.allocatedList),
             t.registers[j].blkAddr = t.registers[k].blkAddr
      PROVE  j = k
  BY <1>3, <1>4, <1>6
<1> QED BY <1>5, <1>6 DEF Contents

(* A new queue: every register is free.                                    *)
LEMMA NewOK ==
    \A s : s = NewQueue(NumEntries, Reserve, DemandReserve) =>
        /\ QueueInv(s, 0) /\ Elements(s.allocatedList) = {} /\ s.readyList = <<>>
        /\ s.allocated = 0 /\ \A i \in Ids : s.registers[i] = FreeMSHR
<1> SUFFICES ASSUME NEW s, s = NewQueue(NumEntries, Reserve, DemandReserve)
             PROVE  /\ QueueInv(s, 0) /\ Elements(s.allocatedList) = {}
                    /\ s.readyList = <<>> /\ s.allocated = 0
                    /\ \A i \in Ids : s.registers[i] = FreeMSHR
  OBVIOUS
<1>1. /\ Base(Registers(Blocks), s) /\ s.allocatedList = <<>> /\ s.readyList = <<>>
      /\ s.allocated = 0 /\ \A i \in Ids : s.registers[i] = FreeMSHR
  BY RegistersTyped, BaseNew
<1>2. Elements(s.allocatedList) = {}
  BY <1>1 DEF Elements
<1> QED BY <1>1, <1>2 DEF QueueInv, Contents

(* An allocated register changes in a way that the lists do not depend on. *)
LEMMA UpdateOK ==
    ASSUME NEW s, NEW ord \in Nat, QueueInv(s, ord), NEW i \in Elements(s.allocatedList),
           NEW m \in Registers(Blocks), SamePlace(m, s.registers[i]), hasTargets(m),
           NEW o \in {ord, ord + 1}, RegisterOK(m, o), NEW t, t = Put(s, i, m)
    PROVE  QueueInv(t, o) /\ Puts(s, t, i, m) /\ t.readyList = s.readyList
<1>1. /\ Base(Registers(Blocks), s) /\ i \in Ids
  BY InvFacts
<1>2. Base(Registers(Blocks), t)
  BY <1>1, BaseUpdate DEF SamePlace
<1>3. /\ t.registers[i] = m /\ \A j \in Ids : j # i => t.registers[j] = s.registers[j]
      /\ t.allocatedList = s.allocatedList /\ t.readyList = s.readyList
      /\ t.allocated = s.allocated
  BY <1>1, BaseFacts, PutFacts
<1>4. Only(s, t, i)
  BY <1>3 DEF Only
<1>5. \A j \in Elements(s.allocatedList) : j # i => s.registers[j].blkAddr # m.blkAddr
  BY DEF QueueInv, Contents, SamePlace
<1>6. Contents(t, o)
  BY <1>1, <1>3, <1>4, <1>5, ContentsKept
<1> QED BY <1>2, <1>3, <1>4, <1>6 DEF QueueInv, Puts

(* deallocateOne of a register whose targets have all been answered.       *)
LEMMA DeallocateOK ==
    ASSUME NEW s, NEW ord \in Nat, QueueInv(s, ord), NEW i \in Elements(s.allocatedList),
           NEW m, Done(m, s.registers[i]), NEW t, t = deallocateOne(Put(s, i, m), i)
    PROVE  QueueInv(t, ord) /\ Frees(s, t, i)
<1>1. Base(Registers(Blocks), s) /\ i \in Ids
  BY InvFacts
<1>2. Base(Registers(Blocks), t) /\ Frees(s, t, i)
  BY <1>1, RegistersTyped, BaseDeallocate
<1>3. /\ ord \in {ord, ord + 1} /\ i \notin Elements(t.allocatedList) /\ Only(s, t, i)
      /\ Elements(t.allocatedList) \subseteq Elements(s.allocatedList) \cup {i}
  BY <1>2 DEF Frees
<1>4. Contents(t, ord)
  BY <1>1, <1>3, ContentsKept
<1> QED BY <1>2, <1>4 DEF QueueInv

(* The first register of a list for a block, or 0.                         *)
LEMMA FirstFacts ==
    ASSUME NEW R, NEW s \in QueueOf(R), NEW l \in Seq(Ids), NEW a
    PROVE  LET x == FirstFor(s, l, a)
           IN  IF x = 0 THEN \A j \in Elements(l) : s.registers[j].blkAddr # a
               ELSE x \in Elements(l) /\ s.registers[x].blkAddr = a
<1> DEFINE I == {k \in 1 .. Len(l) : s.registers[l[k]].blkAddr = a}
           p == SelectInSeq(l, LAMBDA r : s.registers[r].blkAddr = a)
           x == FirstFor(s, l, a)
<1>1. /\ Len(l) \in Nat /\ DOMAIN l = 1 .. Len(l) /\ \A k \in DOMAIN l : l[k] \in Ids
  BY ListType
<1>2. p = IF I # {} THEN Min(I) ELSE 0
  BY DEF SelectInSeq
<1>3. I # {} => Min(I) \in I
  <2>1. I \in SUBSET Nat
    BY <1>1
  <2> QED BY <2>1, MinFacts
<1>4. x = IF p = 0 THEN 0 ELSE l[p]
  BY DEF FirstFor
<1> HIDE DEF p, x
<1>5. CASE I = {}
  <2>1. x = 0
    BY <1>2, <1>4, <1>5
  <2>2. \A j \in Elements(l) : s.registers[j].blkAddr # a
    BY <1>1, <1>5 DEF Elements
  <2> QED BY <2>1, <2>2 DEF x
<1>6. CASE I # {}
  <2>1. p \in 1 .. Len(l) /\ s.registers[l[p]].blkAddr = a
    BY <1>2, <1>3, <1>6
  <2>2. p # 0 /\ l[p] \in Elements(l) /\ l[p] # 0
    BY <1>1, <2>1 DEF Elements, Ids
  <2>3. x = l[p]
    BY <1>4, <2>2
  <2> QED BY <2>1, <2>2, <2>3 DEF x
<1> QED BY <1>5, <1>6

(* findMatch, findPending and getNextMSHR return what they look for.       *)
LEMMA FindOK ==
    \A R, s, a : Base(R, s) =>
        /\ IF findMatch(s, a) = 0
           THEN \A j \in Elements(s.allocatedList) : s.registers[j].blkAddr # a
           ELSE /\ findMatch(s, a) \in Elements(s.allocatedList)
                /\ s.registers[findMatch(s, a)].blkAddr = a
        /\ findPending(s, a) # 0 => /\ findPending(s, a) \in Elements(s.readyList)
                                    /\ s.registers[findPending(s, a)].blkAddr = a
<1> SUFFICES ASSUME NEW R, NEW s, NEW a, Base(R, s)
             PROVE  /\ IF findMatch(s, a) = 0
                       THEN \A j \in Elements(s.allocatedList) : s.registers[j].blkAddr # a
                       ELSE /\ findMatch(s, a) \in Elements(s.allocatedList)
                            /\ s.registers[findMatch(s, a)].blkAddr = a
                    /\ findPending(s, a) # 0 =>
                          /\ findPending(s, a) \in Elements(s.readyList)
                          /\ s.registers[findPending(s, a)].blkAddr = a
  OBVIOUS
<1>1. s \in QueueOf(R) /\ s.allocatedList \in Seq(Ids) /\ s.readyList \in Seq(Ids)
  BY BaseFacts
<1> QED BY <1>1, FirstFacts DEF findMatch, findPending

LEMMA NextOK ==
    \A R, s : Typed(R) /\ Base(R, s) =>
        /\ getNextMSHR(s) # 0 => /\ getNextMSHR(s) \in Elements(s.readyList)
                                 /\ s.readyList # <<>>
        /\ s.readyList # <<>> => Head(s.readyList) \in Elements(s.readyList)
        /\ \A j \in Elements(s.readyList) :
               /\ s.readyList # <<>>
               /\ s.registers[Head(s.readyList)].readyTime <= s.registers[j].readyTime
        /\ \A j \in Elements(s.readyList) :
               j \in Elements(s.allocatedList) /\ j \in Ids /\ ~s.registers[j].inService
<1> SUFFICES ASSUME NEW R, NEW s, Typed(R), Base(R, s)
             PROVE  /\ getNextMSHR(s) # 0 => /\ getNextMSHR(s) \in Elements(s.readyList)
                                             /\ s.readyList # <<>>
                    /\ s.readyList # <<>> => Head(s.readyList) \in Elements(s.readyList)
                    /\ \A j \in Elements(s.readyList) :
                           /\ s.readyList # <<>>
                           /\ s.registers[Head(s.readyList)].readyTime
                                 <= s.registers[j].readyTime
                    /\ \A j \in Elements(s.readyList) :
                           /\ j \in Elements(s.allocatedList) /\ j \in Ids
                           /\ ~s.registers[j].inService
  OBVIOUS
<1> DEFINE l == s.readyList
<1>1. /\ l \in Seq(Ids) /\ Injective(l) /\ Lists(s) /\ Sorted(s) /\ Elements(l) \subseteq Ids
  BY BaseFacts
<1>2. l # <<>> => Head(l) \in Elements(l)
  BY ONLY <1>1, PopFront
<1>3. \A j \in Elements(l) :
         j \in Elements(s.allocatedList) /\ j \in Ids /\ ~s.registers[j].inService
  BY <1>1 DEF Lists
<1>4. ASSUME NEW j \in Elements(l)
      PROVE  l # <<>> /\ s.registers[Head(l)].readyTime <= s.registers[j].readyTime
  <2>1. Len(l) \in Nat /\ DOMAIN l = 1 .. Len(l)
    BY <1>1, ListType
  <2>2. PICK k \in DOMAIN l : j = l[k]
    BY DEF Elements
  <2>3. l # <<>> /\ Head(l) = l[1] /\ 1 \in DOMAIN l
    BY <1>1, <2>1, <2>2
  <2>4. CASE k = 1
    <3>1. s.registers[j] \in R /\ s.registers[j].readyTime \in Nat
      BY <1>1, BaseFacts DEF Typed
    <3> QED BY <2>2, <2>3, <2>4, <3>1
  <2>5. CASE k # 1
    <3>1. 1 < k
      BY <2>1, <2>5
    <3> QED BY <1>1, <2>2, <2>3, <3>1 DEF Sorted
  <2> QED BY <2>4, <2>5
<1>5. getNextMSHR(s) # 0 => l # <<>> /\ getNextMSHR(s) = Head(l)
  BY DEF getNextMSHR
<1> QED BY <1>2, <1>3, <1>4, <1>5

(* A queue with fewer allocated registers than it has, and therefore one   *)
(* that is not full, has a free one.                                       *)
LEMMA RoomOK ==
    \A R, s : Base(R, s) =>
        /\ s.allocated \in Nat /\ N \in Nat /\ s.allocated <= N
        /\ isFull(s) <=> s.allocated >= NumEntries
        /\ canPrefetch(s) <=> s.allocated + DemandReserve + 1 < NumEntries
        /\ s.freeList # <<>> <=> s.allocated < N
<1> SUFFICES ASSUME NEW R, NEW s, Base(R, s)
             PROVE  /\ s.allocated \in Nat /\ N \in Nat /\ s.allocated <= N
                    /\ isFull(s) <=> s.allocated >= NumEntries
                    /\ canPrefetch(s) <=> s.allocated + DemandReserve + 1 < NumEntries
                    /\ s.freeList # <<>> <=> s.allocated < N
  OBVIOUS
<1>1. /\ s \in QueueOf(R) /\ s.allocated \in Nat /\ s.freeList \in Seq(Ids) /\ Lists(s)
  BY BaseFacts
<1>2. /\ s.allocated = Len(s.allocatedList) /\ Len(s.freeList) + Len(s.allocatedList) = N
  BY <1>1 DEF Lists
<1>3. s.numEntries = N /\ s.numReserve = Reserve /\ s.demandReserve = DemandReserve
  BY <1>1 DEF QueueOf
<1>4. /\ NumEntries \in Nat /\ Reserve \in Nat \ {0} /\ DemandReserve \in Nat /\ N \in Nat
      /\ N = NumEntries + Reserve - 1
  BY QueueAssumption, SizeFacts DEF N
<1>5. Len(s.freeList) \in Nat /\ (s.freeList = <<>> <=> Len(s.freeList) = 0)
  BY <1>1, ListType
<1> DEFINE x == Len(s.freeList)
           y == s.allocated
<1>6. x \in Nat /\ y \in Nat /\ x + y = N /\ (s.freeList = <<>> <=> x = 0)
  BY <1>1, <1>2, <1>5
<1>7. isFull(s) <=> y + Reserve > N
  BY <1>3 DEF isFull
<1>8. canPrefetch(s) <=> y + Reserve + DemandReserve < N
  BY <1>3 DEF canPrefetch
<1> HIDE DEF x, N, isFull, canPrefetch
<1>9. y <= N /\ (s.freeList # <<>> <=> y < N)
  BY <1>4, <1>6
<1>10. isFull(s) <=> y >= NumEntries
  BY <1>4, <1>6, <1>7
<1>11. canPrefetch(s) <=> y + DemandReserve + 1 < NumEntries
  BY <1>4, <1>6, <1>8
<1> QED BY <1>4, <1>6, <1>9, <1>10, <1>11

(* What a register keeps while its request waits or is in service: its     *)
(* block, whether it is only forwarded, and whether it began as a prefetch.*)
Alike(w, m) ==
    /\ w.blkAddr = m.blkAddr /\ w.isForward = m.isForward
    /\ FirstCmd(w) = "HardPFReq" <=> FirstCmd(m) = "HardPFReq"

Defers(m) == m.deferredTargets.list # <<>>

(* A register that waits to send a request for its first target.           *)
Requests(w, blk, cmd, when) ==
    /\ w.blkAddr = blk /\ ~w.inService /\ w.readyTime = when /\ ~w.isForward
    /\ ~Defers(w) /\ FirstCmd(w) = cmd

(* allocate: a free register becomes the MSHR of a block without one.      *)
LEMMA AllocateQueueOK ==
    \A s, ord, blk, cmd, when, t :
        /\ QueueInv(s, ord) /\ ord \in Nat /\ s.allocated < N
        /\ blk \in Blocks /\ cmd \in Commands /\ when \in Nat
        /\ \A j \in Elements(s.allocatedList) : s.registers[j].blkAddr # blk
        /\ t = MSHRQueue_allocate(s, blk, cmd, when, ord)
        => \E i \in Ids : \E w : /\ QueueInv(t, ord + 1) /\ Takes(s, t, i, w)
                                 /\ Requests(w, blk, cmd, when)
                                 /\ w = MSHR_allocate(blk, cmd, when, ord)
<1> SUFFICES ASSUME NEW s, NEW ord, NEW blk, NEW cmd, NEW when, NEW t,
                    QueueInv(s, ord), ord \in Nat, s.allocated < N,
                    blk \in Blocks, cmd \in Commands, when \in Nat,
                    \A j \in Elements(s.allocatedList) : s.registers[j].blkAddr # blk,
                    t = MSHRQueue_allocate(s, blk, cmd, when, ord)
             PROVE  \E i \in Ids : \E w : /\ QueueInv(t, ord + 1) /\ Takes(s, t, i, w)
                                          /\ Requests(w, blk, cmd, when)
                                          /\ w = MSHR_allocate(blk, cmd, when, ord)
  OBVIOUS
<1> DEFINE i == Head(s.freeList)
           w == MSHR_allocate(blk, cmd, when, ord)
<1>1. Base(Registers(Blocks), s)
  BY InvFacts
<1>2. s.freeList # <<>>
  BY <1>1, RoomOK
<1>3. /\ w \in Registers(Blocks) /\ w.blkAddr = blk /\ ~w.inService
      /\ RegisterOK(w, ord + 1) /\ hasTargets(w) /\ w.readyTime = when /\ ~w.isForward
      /\ w.deferredTargets = EmptyTargets /\ FirstCmd(w) = cmd
  BY ONLY blk \in Blocks, cmd \in Commands, when \in Nat, ord \in Nat, AllocateOK
<1>4. Base(Registers(Blocks), t) /\ Takes(s, t, i, w)
  <2> DEFINE v == w
  <2>1. v \in Registers(Blocks) /\ v = MSHR_allocate(blk, cmd, when, ord) /\ ~v.inService
    BY <1>3
  <2> HIDE DEF v
  <2>2. Base(Registers(Blocks), t) /\ Takes(s, t, i, v)
    BY <1>1, <1>2, <2>1, RegistersTyped, BaseAllocate
  <2> QED BY <2>2 DEF v
<1> HIDE DEF i, w
<1>5. /\ Only(s, t, i) /\ t.registers[i] = w /\ i \in Ids
      /\ Elements(t.allocatedList) \subseteq Elements(s.allocatedList) \cup {i}
  BY <1>4 DEF Takes
<1>6. Contents(t, ord + 1)
  BY <1>3, <1>5, ContentsKept
<1>7. Requests(w, blk, cmd, when)
  BY <1>3 DEF Requests, Defers, EmptyTargets
<1>8. w = MSHR_allocate(blk, cmd, when, ord)
  BY DEF w
<1> QED BY <1>4, <1>5, <1>6, <1>7, <1>8 DEF QueueInv

(* A request of the CPU side joins an allocated register.                  *)
LEMMA CoalesceOK ==
    \A s, ord, i, cmd, when, t :
        /\ QueueInv(s, ord) /\ ord \in Nat /\ i \in Elements(s.allocatedList)
        /\ cmd \in CpuCommands /\ when \in Nat
        /\ t = Put(s, i, MSHR_allocateTarget(s.registers[i], cmd, when, ord))
        => /\ QueueInv(t, ord + 1) /\ Puts(s, t, i, t.registers[i])
           /\ SameReady(s, t) /\ SamePlace(t.registers[i], s.registers[i])
           /\ Alike(t.registers[i], s.registers[i])
<1> TAKE s, ord, i, cmd, when, t
<1> HAVE /\ QueueInv(s, ord) /\ ord \in Nat /\ i \in Elements(s.allocatedList)
         /\ cmd \in CpuCommands /\ when \in Nat
         /\ t = Put(s, i, MSHR_allocateTarget(s.registers[i], cmd, when, ord))
<1> DEFINE m == s.registers[i]
           w == MSHR_allocateTarget(m, cmd, when, ord)
<1>1. m \in Registers(Blocks) /\ RegisterOK(m, ord) /\ hasTargets(m)
  BY InvFacts
<1>0. cmd \in Commands \ {"HardPFReq"}
  BY DEF CpuCommands, Commands
<1>2. /\ w \in Registers(Blocks) /\ SamePlace(w, m) /\ RegisterOK(w, ord + 1)
      /\ hasTargets(w) /\ w.isForward = m.isForward /\ FirstCmd(w) = FirstCmd(m)
  BY <1>0, <1>1, AllocateTargetOK
<1> HIDE DEF w
<1>3. QueueInv(t, ord + 1) /\ Puts(s, t, i, w) /\ t.readyList = s.readyList
  BY <1>2, UpdateOK DEF w
<1>4. t.registers[i] = w
  BY <1>3 DEF Puts
<1> QED BY <1>2, <1>3, <1>4 DEF Alike, SamePlace, SameReady

(* A snoop meets an allocated register.                                    *)
LEMMA SnoopOK ==
    \A s, ord, i, cmd, t :
        /\ QueueInv(s, ord) /\ ord \in Nat /\ i \in Elements(s.allocatedList)
        /\ cmd \in SnoopCommands
        /\ t = Put(s, i, MSHR_handleSnoop(s.registers[i], cmd, ord).mshr)
        => /\ QueueInv(t, ord + 1) /\ Puts(s, t, i, t.registers[i])
           /\ SameReady(s, t) /\ SamePlace(t.registers[i], s.registers[i])
           /\ Alike(t.registers[i], s.registers[i])
           /\ Defers(t.registers[i]) <=> Defers(s.registers[i])
<1> TAKE s, ord, i, cmd, t
<1> HAVE /\ QueueInv(s, ord) /\ ord \in Nat /\ i \in Elements(s.allocatedList)
         /\ cmd \in SnoopCommands
         /\ t = Put(s, i, MSHR_handleSnoop(s.registers[i], cmd, ord).mshr)
<1> DEFINE m == s.registers[i]
           w == MSHR_handleSnoop(m, cmd, ord).mshr
<1>1. m \in Registers(Blocks) /\ RegisterOK(m, ord) /\ hasTargets(m)
  BY InvFacts
<1>2. cmd \in Commands \ {"HardPFReq", "WriteReq"}
  BY DEF SnoopCommands, Commands
<1>3. /\ w \in Registers(Blocks) /\ SamePlace(w, m) /\ RegisterOK(w, ord + 1)
      /\ hasTargets(w) /\ w.isForward = m.isForward
      /\ w.deferredTargets.list = <<>> <=> m.deferredTargets.list = <<>>
      /\ FirstCmd(w) = "HardPFReq" <=> FirstCmd(m) = "HardPFReq"
  BY <1>1, <1>2, HandleSnoopOK
<1> HIDE DEF w
<1>4. QueueInv(t, ord + 1) /\ Puts(s, t, i, w) /\ t.readyList = s.readyList
  BY <1>3, UpdateOK DEF w
<1>5. t.registers[i] = w
  BY <1>4 DEF Puts
<1> QED BY <1>3, <1>4, <1>5 DEF Alike, SamePlace, Defers, SameReady

(* The register of a request that is only forwarded, or not.               *)
Forwarded(m, fwd) == [m EXCEPT !.isForward = fwd]

Marked(w, m, fwd, pd) ==
    /\ w = MSHR_markInService(Forwarded(m, fwd), pd)
    /\ w.inService /\ w.isForward = fwd /\ w.blkAddr = m.blkAddr
    /\ w.targets = m.targets /\ w.deferredTargets = m.deferredTargets

(* markInService of a request that waited on the ready list.  Every        *)
(* command of a miss is answered, so the register is never given back.     *)
LEMMA MarkInServiceQueueOK ==
    \A s, ord, i, fwd, pd, u, t :
        /\ QueueInv(s, ord) /\ ord \in Nat /\ i \in Elements(s.readyList)
        /\ fwd \in BOOLEAN /\ pd \in BOOLEAN
        /\ u = Put(s, i, Forwarded(s.registers[i], fwd))
        /\ t = MSHRQueue_markInService(u, i, pd)
        => /\ QueueInv(t, ord) /\ Starts(s, t, i, t.registers[i])
           /\ Marked(t.registers[i], s.registers[i], fwd, pd)
<1> TAKE s, ord, i, fwd, pd, u, t
<1> HAVE /\ QueueInv(s, ord) /\ ord \in Nat /\ i \in Elements(s.readyList)
         /\ fwd \in BOOLEAN /\ pd \in BOOLEAN
         /\ u = Put(s, i, Forwarded(s.registers[i], fwd))
         /\ t = MSHRQueue_markInService(u, i, pd)
<1> DEFINE m == s.registers[i]
           f == Forwarded(m, fwd)
           w == MSHR_markInService(f, pd)
<1>1. /\ Base(Registers(Blocks), s) /\ i \in Elements(s.allocatedList) /\ i \in Ids
      /\ m \in Registers(Blocks) /\ RegisterOK(m, ord) /\ hasTargets(m)
  BY InvFacts
<1>2. ~m.inService
  BY <1>1, RegistersTyped, NextOK
<1> HIDE DEF m
<1>3. /\ f \in Registers(Blocks) /\ f.inService = m.inService /\ f.targets = m.targets
      /\ f.deferredTargets = m.deferredTargets
  BY <1>1 DEF Registers, Forwarded
<1>4. /\ w \in Registers(Blocks) /\ w.blkAddr = m.blkAddr /\ w.inService
      /\ RegisterOK(w, ord) /\ w.targets = m.targets
      /\ w.deferredTargets = m.deferredTargets /\ w.isForward = fwd
  <2> DEFINE g == f
  <2>1. g = [m EXCEPT !.isForward = fwd]
    BY DEF Forwarded
  <2> DEFINE z == MSHR_markInService(g, pd)
  <2> HIDE DEF g
  <2>2. /\ z \in Registers(Blocks) /\ z.blkAddr = m.blkAddr /\ z.inService
        /\ RegisterOK(z, ord) /\ z.targets = m.targets
        /\ z.deferredTargets = m.deferredTargets /\ z.isForward = fwd
    BY <1>1, <1>2, <2>1, MarkInServiceOK
  <2> QED BY <2>2 DEF g
<1> HIDE DEF f
<1>5. ~isForwardNoResponse(f)
  <2>1. m.targets.list # <<>> /\ m.targets.list \in Seq(Targets)
    BY <1>1, RegisterFacts, ListFacts DEF hasTargets
  <2>2. Head(m.targets.list) \in Targets
    BY <2>1
  <2>3. Head(m.targets.list).cmd \in Commands
    BY <2>2 DEF Targets
  <2> QED BY <1>3, <2>3 DEF isForwardNoResponse, getTarget, NeedsResponse, Commands
<1>6. Base(Registers(Blocks), t) /\ Starts(s, t, i, w)
  <2>1. t = MSHRQueue_markInService(Put(s, i, f), i, pd)
    BY DEF f, m
  <2>2. ~f.inService
    BY <1>2, <1>3
  <2> DEFINE v == w
  <2>3. v \in Registers(Blocks) /\ v.inService /\ v = MSHR_markInService(f, pd)
    BY <1>4
  <2> HIDE DEF v
  <2>4. Base(Registers(Blocks), t) /\ Starts(s, t, i, v)
    BY <1>1, <1>3, <1>5, <2>1, <2>2, <2>3, RegistersTyped, BaseMark
  <2> QED BY <2>4 DEF v
<1> HIDE DEF w
<1>7. t.registers[i] = w /\ Only(s, t, i) /\ t.allocatedList = s.allocatedList
  BY <1>6 DEF Starts, Puts
<1>8. /\ ord \in {ord, ord + 1}
      /\ \A j \in Elements(s.allocatedList) : j # i => s.registers[j].blkAddr # w.blkAddr
  <2>1. \A j, k \in Elements(s.allocatedList) :
            s.registers[j].blkAddr = s.registers[k].blkAddr => j = k
    BY DEF QueueInv, Contents
  <2> QED BY <1>1, <1>4, <2>1 DEF m
<1>9. hasTargets(w)
  BY <1>1, <1>4 DEF hasTargets
<1>10. Contents(t, ord)
  <2>1. Elements(t.allocatedList) \subseteq Elements(s.allocatedList) \cup {i}
    BY <1>7
  <2> QED BY <1>1, <1>4, <1>7, <1>8, <1>9, <2>1, ContentsKept
<1>11. t.registers[i] = MSHR_markInService(Forwarded(s.registers[i], fwd), pd)
  BY <1>7 DEF w, f, m
<1> QED BY <1>4, <1>6, <1>7, <1>10, <1>11 DEF QueueInv, Marked, m

(* The same for a request that is not only forwarded.                      *)
Sent(w, m, pd) == w = MSHR_markInService(m, pd)
LEMMA SendOK ==
    \A s, ord, i, pd, t :
        /\ QueueInv(s, ord) /\ ord \in Nat /\ i \in Elements(s.readyList)
        /\ ~s.registers[i].isForward /\ pd \in BOOLEAN
        /\ t = MSHRQueue_markInService(s, i, pd)
        => /\ QueueInv(t, ord) /\ Starts(s, t, i, t.registers[i])
           /\ t.registers[i].inService /\ Alike(t.registers[i], s.registers[i])
           /\ Defers(t.registers[i]) <=> Defers(s.registers[i])
           /\ Sent(t.registers[i], s.registers[i], pd)
<1> SUFFICES ASSUME NEW s, NEW ord, NEW i, NEW pd, NEW t,
                    QueueInv(s, ord), ord \in Nat, i \in Elements(s.readyList),
                    ~s.registers[i].isForward, pd \in BOOLEAN,
                    t = MSHRQueue_markInService(s, i, pd)
             PROVE  /\ QueueInv(t, ord) /\ Starts(s, t, i, t.registers[i])
                    /\ t.registers[i].inService /\ Alike(t.registers[i], s.registers[i])
                    /\ Defers(t.registers[i]) <=> Defers(s.registers[i])
                    /\ Sent(t.registers[i], s.registers[i], pd)
  OBVIOUS
<1> DEFINE m == s.registers[i]
           no == FALSE
           u == Put(s, i, Forwarded(s.registers[i], no))
<1>1. /\ s \in QueueOf(Registers(Blocks)) /\ i \in Ids /\ m \in Registers(Blocks)
  BY InvFacts, BaseFacts
<1>2. m.isForward = FALSE
  BY <1>1, RegisterFacts
<1>3. Forwarded(s.registers[i], no) = m
  BY <1>1, <1>2 DEF Registers, Forwarded
<1>4. u = s
  BY <1>1, <1>3 DEF Put, QueueOf
<1>5. /\ t = MSHRQueue_markInService(u, i, pd) /\ no \in BOOLEAN
      /\ u = Put(s, i, Forwarded(s.registers[i], no))
  BY <1>4
<1> HIDE DEF u, no, m
<1>6. /\ QueueInv(t, ord) /\ Starts(s, t, i, t.registers[i])
      /\ Marked(t.registers[i], s.registers[i], no, pd)
  BY ONLY QueueInv(s, ord), ord \in Nat, i \in Elements(s.readyList), pd \in BOOLEAN,
          <1>5, MarkInServiceQueueOK
<1>7. Sent(t.registers[i], s.registers[i], pd)
  BY <1>3, <1>6 DEF Marked, Sent, m
<1>8. /\ t.registers[i].inService /\ Alike(t.registers[i], s.registers[i])
      /\ Defers(t.registers[i]) <=> Defers(s.registers[i])
  BY ONLY <1>2, <1>6 DEF Alike, FirstCmd, Defers, Marked, no, m
<1> QED BY <1>6, <1>7, <1>8

(* A register that is reused for its deferred targets.                     *)
Again(w, m) ==
    /\ w.blkAddr = m.blkAddr /\ ~w.inService /\ w.isForward = m.isForward
    /\ ~Defers(w) /\ FirstCmd(w) # "HardPFReq"
Reused(w, f) == w = Resumed(Emptied(f))

(* The register with the deferred targets that the fill takes.             *)
FilledAs(w, m, fill, shared) == w = IF fill THEN MSHR_handleFill(m, shared) ELSE m

(* A response: the register is given back, or reused for the targets that  *)
(* waited behind it.                                                       *)
LEMMA RespondOK ==
    \A s, ord, i, fill, shared, f, t :
        /\ QueueInv(s, ord) /\ ord \in Nat /\ i \in Elements(s.allocatedList)
        /\ s.registers[i].inService /\ fill \in BOOLEAN /\ shared \in BOOLEAN
        /\ fill => ~s.registers[i].isForward
        /\ f = Filled(s, i, fill, shared) /\ t = Answered(f, i)
        => /\ QueueInv(t, ord)
           /\ Defers(f.registers[i]) =>
                 /\ Restarts(s, t, i, t.registers[i]) /\ Defers(s.registers[i])
                 /\ Again(t.registers[i], s.registers[i])
                 /\ Reused(t.registers[i], f.registers[i])
           /\ ~Defers(f.registers[i]) => Frees(s, t, i)
           /\ FilledAs(f.registers[i], s.registers[i], fill, shared)
<1> TAKE s, ord, i, fill, shared, filled, t
<1> HAVE /\ QueueInv(s, ord) /\ ord \in Nat /\ i \in Elements(s.allocatedList)
         /\ s.registers[i].inService /\ fill \in BOOLEAN /\ shared \in BOOLEAN
         /\ fill => ~s.registers[i].isForward
         /\ filled = Filled(s, i, fill, shared) /\ t = Answered(filled, i)
<1> DEFINE m == s.registers[i]
           f == IF fill THEN MSHR_handleFill(m, shared) ELSE m
           a == [f EXCEPT !.targets.list = <<>>]
           p == promoteDeferredTargets(a)
           w == [p EXCEPT !.inService = FALSE]
<1>1. /\ Base(Registers(Blocks), s) /\ i \in Ids /\ m \in Registers(Blocks)
      /\ RegisterOK(m, ord) /\ s \in QueueOf(Registers(Blocks))
  BY InvFacts, BaseFacts
<1>2. m.isForward \in BOOLEAN
  BY <1>1, RegisterFacts
<1>3. filled = Put(s, i, f)
  <2>1. fill /\ FillTakesDeferred(m, shared) => ~m.targets.needsExclusive
    BY <1>1, FillAllowed
  <2>2. Check(s, (fill /\ FillTakesDeferred(m, shared)) => ~m.targets.needsExclusive) = s
    BY <1>1, <2>1, CheckFacts
  <2> QED BY <2>2 DEF Filled, Put
<1>4. f \in {m, MSHR_handleFill(m, shared)}
  OBVIOUS
<1>4a. a = Emptied(f) /\ ord \in Nat /\ shared \in BOOLEAN
  BY DEF Emptied
<1>4b. w = Resumed(a)
  BY DEF Resumed
<1> HIDE DEF m, f, a
<1>5. /\ a \in Registers(Blocks) /\ SamePlace(a, m) /\ a.targets.list = <<>>
      /\ a.deferredTargets.list = <<>> => IsReset(a.deferredTargets)
      /\ Below(a.deferredTargets.list, ord) /\ Ordered(a.deferredTargets.list)
      /\ NoSnoop(a.deferredTargets.list) /\ NoPrefetch(a.deferredTargets.list)
      /\ SameForward(a, m) /\ a.deferredTargets = f.deferredTargets
      /\ a.deferredTargets.list # <<>> => m.deferredTargets.list # <<>>
  BY ONLY <1>1, <1>4, <1>4a, FillFacts
<1>6. [Put(s, i, f) EXCEPT !.registers[i].targets.list = <<>>] = Put(s, i, a)
  BY <1>1 DEF Put, QueueOf, a
<1>7. filled.registers[i] = f
  BY <1>1, <1>3 DEF Put, QueueOf
<1>8. Put(s, i, a).registers[i] = a
  BY ONLY <1>1, <1>5, PutFacts
<1>9. t = IF a.deferredTargets.list # <<>> THEN markPending(Put(Put(s, i, a), i, p), i)
                                           ELSE deallocateOne(Put(s, i, a), i)
  <2> DEFINE d == [filled EXCEPT !.registers[i].targets.list = <<>>]
  <2>1. d = Put(s, i, a)
    BY <1>3, <1>6
  <2>2. d.registers[i] = a
    BY <1>8, <2>1
  <2>3. t = IF d.registers[i].deferredTargets.list # <<>>
           THEN markPending([d EXCEPT !.registers[i] =
                               promoteDeferredTargets(d.registers[i])], i)
           ELSE deallocateOne(d, i)
    BY DEF Answered
  <2> HIDE DEF d
  <2>4. t = IF a.deferredTargets.list # <<>>
            THEN markPending(Put(d, i, p), i) ELSE deallocateOne(d, i)
    BY <2>2, <2>3 DEF Put
  <2> QED BY <2>1, <2>4
<1>10. Defers(filled.registers[i]) <=> a.deferredTargets.list # <<>>
  BY <1>5, <1>7 DEF Defers
<1>10a. FilledAs(filled.registers[i], s.registers[i], fill, shared)
  BY <1>7 DEF FilledAs, f, m
<1>10b. w = Resumed(Emptied(filled.registers[i]))
  BY <1>4a, <1>4b, <1>7
<1>11. CASE a.deferredTargets.list # <<>>
  <2>1. /\ w \in Registers(Blocks) /\ w.blkAddr = a.blkAddr /\ ~w.inService
        /\ RegisterOK(w, ord) /\ hasTargets(w) /\ SameForward(w, a)
        /\ w.targets = a.deferredTargets /\ w.deferredTargets = EmptyTargets
    <3> HIDE DEF w
    <3> QED BY ONLY <1>4a, <1>4b, <1>5, <1>11, PromoteOK
  <2>2. p \in Registers(Blocks) /\ p.inService
    <3>1. a.inService
      BY <1>5 DEF SamePlace, m
    <3>2. a.deferredTargets \in TargetLists /\ a.deferredTargets.list \in Seq(Targets)
      BY <1>5, RegisterFacts, ListFacts
    <3>3. Head(a.deferredTargets.list) \in Targets
      BY <1>11, <3>2
    <3>4. /\ Head(a.deferredTargets.list).order \in Nat
          /\ Head(a.deferredTargets.list).readyTime \in Nat
      BY <3>3 DEF Targets
    <3>5. EmptyTargets \in TargetLists
      BY FreeFacts
    <3> QED BY <1>5, <3>1, <3>2, <3>4, <3>5 DEF promoteDeferredTargets, Registers
  <2>3. w.blkAddr = m.blkAddr
    BY <1>5, <2>1 DEF SamePlace
  <2>4. Again(w, m)
    <3>1. w.targets.list # <<>> /\ w.targets.list \in Seq(Targets)
      BY <1>11, <2>1, RegisterFacts, ListFacts
    <3>2. 1 \in DOMAIN w.targets.list
      BY <3>1
    <3>3. FirstCmd(w) # "HardPFReq"
      BY <1>5, <2>1, <3>2 DEF FirstCmd, NoPrefetch
    <3> QED BY <1>5, <2>1, <2>3, <3>3 DEF Again, Defers, EmptyTargets, SameForward
  <2>5. Put(Put(s, i, a), i, p) = Put(s, i, p)
    BY <1>1, PutPut
  <2>6. t = markPending(Put(s, i, p), i)
    BY <1>9, <1>11, <2>5
  <2> HIDE DEF p
  <2>7. w = [p EXCEPT !.inService = FALSE]
    OBVIOUS
  <2> HIDE DEF w
  <2>8. Base(Registers(Blocks), t) /\ Restarts(s, t, i, w)
    BY <1>1, <2>1, <2>2, <2>6, <2>7, RegistersTyped, BasePending DEF m
  <2>9. Only(s, t, i) /\ t.registers[i] = w /\ t.allocatedList = s.allocatedList
    BY <2>8 DEF Restarts, Puts
  <2>10. /\ ord \in {ord, ord + 1}
         /\ \A j \in Elements(s.allocatedList) : j # i => s.registers[j].blkAddr # w.blkAddr
    BY <2>3 DEF QueueInv, Contents, m
  <2>11. Elements(t.allocatedList) \subseteq Elements(s.allocatedList) \cup {i}
    BY <2>9
  <2>12. Contents(t, ord)
    BY <1>1, <2>1, <2>9, <2>10, <2>11, ContentsKept
  <2>13. Defers(s.registers[i])
    BY <1>5, <1>11 DEF Defers, m
  <2>14. Reused(t.registers[i], filled.registers[i])
    BY <1>10b, <2>9 DEF Reused
  <2> QED BY <1>10, <1>10a, <1>11, <2>4, <2>8, <2>9, <2>12, <2>13, <2>14 DEF QueueInv, m
<1>12. CASE a.deferredTargets.list = <<>>
  <2>1. Done(a, s.registers[i])
    BY <1>5, <1>12 DEF SamePlace, Done, m
  <2>2. t = deallocateOne(Put(s, i, a), i)
    BY <1>9, <1>12
  <2>3. QueueInv(t, ord) /\ Frees(s, t, i)
    BY <2>1, <2>2, DeallocateOK
  <2> QED BY <1>10, <1>10a, <1>12, <2>3
<1> QED BY <1>11, <1>12

(* A prefetch that is squashed before it is sent: the register is given    *)
(* back unless requests have joined it, and never had deferred targets.    *)
LEMMA SquashOK ==
    ASSUME NEW s, NEW ord \in Nat, QueueInv(s, ord), NEW i \in Elements(s.allocatedList),
           ~s.registers[i].inService
    PROVE  /\ QueueInv(forceDeallocateTarget(s, i), ord)
           /\ KeepsTurns(s, forceDeallocateTarget(s, i))
<1> DEFINE m == s.registers[i]
           x == MSHR_popTarget(m)
<1>1. Base(Registers(Blocks), s) /\ s \in QueueOf(Registers(Blocks)) /\ ~s.failed
  BY InvFacts, BaseFacts
<1>2. i \in Ids /\ m \in Registers(Blocks)
  BY InvFacts
<1>3. RegisterOK(m, ord) /\ hasTargets(m)
  BY InvFacts
<1> HIDE DEF m
<1>4. /\ x \in Registers(Blocks) /\ SamePlace(x, m) /\ RegisterOK(x, ord)
      /\ x.deferredTargets = EmptyTargets
  BY <1>2, <1>3, PopTargetOK DEF m
<1>5. Check(s, hasTargets(m)) = s
  BY <1>1, <1>3, CheckFacts
<1>6. x.deferredTargets.list = <<>> /\ IsReset(x.deferredTargets)
  BY <1>4, FreeFacts
<1> HIDE DEF x
<1>7. forceDeallocateTarget(s, i) = IF hasTargets(x) THEN Put(s, i, x)
                                    ELSE deallocateOne(Put(s, i, x), i)
  BY <1>5, <1>6 DEF forceDeallocateTarget, Put, x, m
<1>8. Put(s, i, x) = [s EXCEPT !.registers[i] = x]
  BY DEF Put
<1>9. CASE hasTargets(x)
  <2>1. SamePlace(x, s.registers[i]) /\ ord \in {ord, ord + 1}
    BY <1>4 DEF m
  <2>2. QueueInv(Put(s, i, x), ord) /\ Put(s, i, x).readyList = s.readyList
    BY <1>4, <1>8, <1>9, <2>1, UpdateOK
  <2>3. KeepsTurns(s, Put(s, i, x))
    BY <2>2, SameTurns
  <2> QED BY <1>7, <1>9, <2>2, <2>3
<1>10. CASE ~hasTargets(x)
  <2>1. Done(x, s.registers[i])
    BY <1>4, <1>6, <1>10 DEF hasTargets, SamePlace, Done, m
  <2> DEFINE t == deallocateOne(Put(s, i, x), i)
  <2>2. QueueInv(t, ord) /\ Frees(s, t, i)
    BY <2>1, DeallocateOK
  <2> QED BY <1>7, <1>10, <2>2 DEF Frees
<1> QED BY <1>9, <1>10

(* As time passes nothing but the ready times of a list changes.           *)
LEMMA SoonerFacts ==
    ASSUME NEW l \in TargetLists, NEW r, r = SoonerAll(l)
    PROVE  /\ r \in TargetLists /\ DOMAIN r.list = DOMAIN l.list
           /\ r.needsExclusive = l.needsExclusive /\ r.hasUpgrade = l.hasUpgrade
           /\ r.list = <<>> <=> l.list = <<>>
           /\ l = EmptyTargets => r = EmptyTargets
           /\ \A k \in DOMAIN l.list : /\ r.list[k].cmd = l.list[k].cmd
                                       /\ r.list[k].source = l.list[k].source
                                       /\ r.list[k].order = l.list[k].order
<1> DEFINE n == Len(l.list)
           f == [k \in DOMAIN l.list |-> OlderTarget(l.list[k])]
<1>1. \A t \in Targets : /\ OlderTarget(t) \in Targets /\ OlderTarget(t).cmd = t.cmd
                         /\ OlderTarget(t).source = t.source /\ OlderTarget(t).order = t.order
  BY DEF Targets, Sooner, OlderTarget
<1>2. /\ n \in Nat /\ DOMAIN l.list = 1 .. n /\ \A k \in 1 .. n : l.list[k] \in Targets
      /\ l = [list |-> l.list, needsExclusive |-> l.needsExclusive,
              hasUpgrade |-> l.hasUpgrade]
      /\ l.needsExclusive \in BOOLEAN /\ l.hasUpgrade \in BOOLEAN
      /\ l.list = <<>> <=> n = 0
  BY ListFacts
<1>3. r = [l EXCEPT !.list = f]
  BY DEF SoonerAll
<1> HIDE DEF n
<1>4. /\ DOMAIN f = 1 .. n /\ f \in [1 .. n -> Targets]
      /\ \A k \in 1 .. n : f[k] = OlderTarget(l.list[k])
  BY <1>1, <1>2
<1> HIDE DEF f
<1>5. f \in Seq(Targets) /\ Len(f) = n
  BY <1>2, <1>4
<1>6. f = <<>> <=> n = 0
  BY <1>5
<1>7. r = [list |-> f, needsExclusive |-> l.needsExclusive, hasUpgrade |-> l.hasUpgrade]
  BY <1>2, <1>3
<1>8. r \in TargetLists
  BY <1>2, <1>5, <1>7 DEF TargetLists
<1>9. l = EmptyTargets => r = EmptyTargets
  <2>1. ASSUME l = EmptyTargets PROVE r = EmptyTargets
    <3>1. l.list = <<>> /\ l.needsExclusive = FALSE /\ l.hasUpgrade = FALSE
      BY <2>1 DEF EmptyTargets
    <3> QED BY <1>2, <1>6, <1>7, <3>1 DEF EmptyTargets
  <2> QED BY <2>1
<1> QED BY <1>1, <1>2, <1>4, <1>6, <1>7, <1>8, <1>9

(* The register a tick later.                                              *)
LEMMA OlderFacts ==
    ASSUME NEW A, NEW m \in Registers(A), NEW r, r = OlderMSHR(m)
    PROVE  /\ r \in Registers(A) /\ r.blkAddr = m.blkAddr /\ r.inService = m.inService
           /\ r.readyTime = Sooner(m.readyTime)
           /\ m = FreeMSHR => r = FreeMSHR
           /\ hasTargets(m) => hasTargets(r)
           /\ hasTargets(m) => Alike(r, m)
           /\ Defers(r) <=> Defers(m)
           /\ \A ord : RegisterOK(m, ord) => RegisterOK(r, ord)
<1> DEFINE x == SoonerAll(m.targets)
           y == SoonerAll(m.deferredTargets)
           z == Sooner(m.readyTime)
<1>1. /\ m.readyTime \in Nat /\ m.targets \in TargetLists /\ m.deferredTargets \in TargetLists
  BY RegisterFacts
<1>2. z \in Nat
  BY <1>1 DEF Sooner
<1>3. /\ x \in TargetLists /\ DOMAIN x.list = DOMAIN m.targets.list
      /\ x.needsExclusive = m.targets.needsExclusive
      /\ x.list = <<>> <=> m.targets.list = <<>>
      /\ m.targets = EmptyTargets => x = EmptyTargets
      /\ \A k \in DOMAIN m.targets.list : /\ x.list[k].cmd = m.targets.list[k].cmd
                                          /\ x.list[k].source = m.targets.list[k].source
                                          /\ x.list[k].order = m.targets.list[k].order
  BY <1>1, SoonerFacts
<1>4. /\ y \in TargetLists /\ DOMAIN y.list = DOMAIN m.deferredTargets.list
      /\ y.needsExclusive = m.deferredTargets.needsExclusive
      /\ y.hasUpgrade = m.deferredTargets.hasUpgrade
      /\ y.list = <<>> <=> m.deferredTargets.list = <<>>
      /\ m.deferredTargets = EmptyTargets => y = EmptyTargets
      /\ \A k \in DOMAIN m.deferredTargets.list :
             /\ y.list[k].cmd = m.deferredTargets.list[k].cmd
             /\ y.list[k].source = m.deferredTargets.list[k].source
             /\ y.list[k].order = m.deferredTargets.list[k].order
  BY <1>1, SoonerFacts
<1>5. r = [m EXCEPT !.readyTime = z, !.targets = x, !.deferredTargets = y]
  BY DEF OlderMSHR
<1> HIDE DEF x, y, z
<1>6. /\ r \in Registers(A) /\ r.blkAddr = m.blkAddr /\ r.inService = m.inService
      /\ r.readyTime = z /\ r.targets = x /\ r.deferredTargets = y
      /\ r.postInvalidate = m.postInvalidate /\ r.postDowngrade = m.postDowngrade
      /\ r.pendingDirty = m.pendingDirty /\ r.isForward = m.isForward
  BY <1>2, <1>3, <1>4, <1>5 DEF Registers
<1>7. m = FreeMSHR => r = FreeMSHR
  <2> SUFFICES ASSUME m = FreeMSHR PROVE r = FreeMSHR
    OBVIOUS
  <2>1. m.targets = EmptyTargets /\ m.deferredTargets = EmptyTargets /\ m.readyTime = 0
    BY DEF FreeMSHR
  <2>2. z = 0 /\ x = EmptyTargets /\ y = EmptyTargets
    BY <1>3, <1>4, <2>1 DEF Sooner, z
  <2> QED BY <1>5, <2>2 DEF FreeMSHR
<1>8. hasTargets(m) => hasTargets(r)
  BY <1>3, <1>6 DEF hasTargets
<1>9. ASSUME NEW ord, RegisterOK(m, ord) PROVE RegisterOK(r, ord)
  <2>1. InOrder(r, ord)
    <3>1. Below(x.list, ord) /\ Below(y.list, ord)
      BY <1>3, <1>4, <1>9 DEF RegisterOK, InOrder, Below
    <3>2. Ordered(x.list) /\ Ordered(y.list)
      BY <1>3, <1>4, <1>9 DEF RegisterOK, InOrder, Ordered
    <3>3. Precedes(x.list, y.list)
      BY <1>3, <1>4, <1>9 DEF RegisterOK, InOrder, Precedes
    <3> QED BY <1>6, <3>1, <3>2, <3>3 DEF InOrder
  <2>2. InEffect(r.targets.list)
    BY <1>3, <1>6, <1>9 DEF RegisterOK, InEffect
  <2>3. Remembered(r)
    BY <1>3, <1>6, <1>9 DEF RegisterOK, Remembered
  <2>4. Plain(r)
    BY <1>3, <1>4, <1>6, <1>9 DEF RegisterOK, Plain, NoSnoop
  <2>5. Summarised(r.deferredTargets)
    BY <1>4, <1>6, <1>9 DEF RegisterOK, Summarised, NoSnoop, NoPrefetch,
                                   NoUpgrade, IsReset
  <2>6. Claims(r)
    BY <1>3, <1>4, <1>6, <1>9 DEF RegisterOK, Claims
  <2>7. Fresh(r)
    BY <1>4, <1>6, <1>9 DEF RegisterOK, Fresh, NoUpgrade
  <2> QED BY <2>1, <2>2, <2>3, <2>4, <2>5, <2>6, <2>7 DEF RegisterOK
<1>10. hasTargets(m) => Alike(r, m)
  <2>1. hasTargets(m) => 1 \in DOMAIN m.targets.list
    BY <1>1, ListFacts DEF hasTargets
  <2> QED BY <1>3, <1>6, <2>1 DEF Alike, FirstCmd
<1>11. Defers(r) <=> Defers(m)
  BY <1>4, <1>6 DEF Defers
<1> QED BY <1>6, <1>7, <1>8, <1>9, <1>10, <1>11 DEF z

(* The registers a tick later.                                             *)
Aged(w, m) ==
    /\ w.inService = m.inService /\ w.readyTime = Sooner(m.readyTime)
    /\ Alike(w, m) /\ (Defers(w) <=> Defers(m)) /\ w = OlderMSHR(m)

Ages(s, t) ==
    /\ t.allocatedList = s.allocatedList /\ t.readyList = s.readyList
    /\ t.allocated = s.allocated
    /\ \A j \in Elements(s.allocatedList) : Aged(t.registers[j], s.registers[j])

(* Time passes: the order of the ready list is that of the ready times.    *)
LEMMA TickOK ==
    \A s, ord, t : QueueInv(s, ord) /\ t = QueueTick(s) => QueueInv(t, ord) /\ Ages(s, t)
<1> SUFFICES ASSUME NEW s, NEW ord, NEW t, QueueInv(s, ord), t = QueueTick(s)
             PROVE  QueueInv(t, ord) /\ Ages(s, t)
  OBVIOUS
<1> DEFINE R == Registers(Blocks)
<1>1. /\ Base(R, s) /\ Contents(s, ord) /\ Typed(R)
      /\ \A j \in Elements(s.allocatedList) :
             /\ j \in Ids /\ s.registers[j] \in R
             /\ RegisterOK(s.registers[j], ord) /\ hasTargets(s.registers[j])
  BY InvFacts, RegistersTyped
<1>2. \A m \in R : /\ OlderMSHR(m) \in R /\ OlderMSHR(m).inService = m.inService
                   /\ OlderMSHR(m).readyTime = Sooner(m.readyTime)
                   /\ OlderMSHR(m).blkAddr = m.blkAddr
                   /\ m = FreeMSHR => OlderMSHR(m) = FreeMSHR
                   /\ hasTargets(m) => hasTargets(OlderMSHR(m)) /\ Alike(OlderMSHR(m), m)
                   /\ Defers(OlderMSHR(m)) <=> Defers(m)
                   /\ RegisterOK(m, ord) => RegisterOK(OlderMSHR(m), ord)
  BY OlderFacts
<1>3. FreeMSHR \in R
  BY <1>1 DEF Typed
<1>4. OlderMSHR(FreeMSHR) = FreeMSHR
  BY <1>2, <1>3
<1> HIDE DEF R
<1>5. /\ Base(R, t) /\ \A j \in Ids : t.registers[j] = OlderMSHR(s.registers[j])
      /\ t.allocatedList = s.allocatedList /\ t.readyList = s.readyList
      /\ t.allocated = s.allocated
  BY <1>1, <1>2, <1>4, BaseTick
<1>6. Contents(t, ord)
  BY <1>1, <1>2, <1>5 DEF Contents
<1>7. \A j \in Elements(s.allocatedList) : Aged(t.registers[j], s.registers[j])
  BY <1>1, <1>2, <1>5 DEF Aged
<1> QED BY <1>5, <1>6, <1>7 DEF QueueInv, Ages, R

-----------------------------------------------------------------------------
(* The queue is created with every register free.                          *)
LEMMA InitIInv == Init => IInv
<1> SUFFICES ASSUME Init PROVE IInv
  OBVIOUS
<1>1. QueueInv(q, 0) /\ order = 0
  BY NewOK DEF Init
<1> QED BY <1>1, QueueAssumption DEF IInv

(* There is a register left for a request when the queue is not full.      *)
LEMMA Room ==
    ASSUME NEW R, NEW s, Base(R, s), ~isFull(s) \/ canPrefetch(s)
    PROVE  s.allocated < N
<1>1. /\ NumEntries \in Nat /\ Reserve \in Nat \ {0} /\ DemandReserve \in Nat
      /\ N = NumEntries + Reserve - 1 /\ s.allocated \in Nat
  BY QueueAssumption, RoomOK DEF N
<1>2. s.allocated < NumEntries
  BY <1>1, RoomOK
<1> QED BY <1>1, <1>2

(* Every step of the cache keeps the invariant, and the turns of the MSHRs *)
(* that wait.                                                              *)
LEMMA NextIInv == IInv /\ [Next]_vars => IInv' /\ KeepsTurns(q, q')
<1> SUFFICES ASSUME IInv, [Next]_vars PROVE IInv' /\ KeepsTurns(q, q')
  OBVIOUS
<1>1. /\ QueueInv(q, order) /\ Base(Registers(Blocks), q)
      /\ order \in Nat /\ order \in 0 .. MaxOrder /\ MaxOrder \in Nat
  BY QueueAssumption DEF IInv, QueueInv
<1>2. SUFFICES QueueInv(q', order') /\ order' \in 0 .. MaxOrder /\ KeepsTurns(q, q')
  BY DEF IInv
<1>3. Counted => order' = order + 1 /\ order' \in 0 .. MaxOrder
  BY <1>1 DEF Counted
<1>4. CpuCommands \subseteq Commands /\ "HardPFReq" \in Commands
      /\ SnoopCommands \subseteq Commands \ {"HardPFReq", "WriteReq"}
  BY DEF CpuCommands, SnoopCommands, Commands
<1>5. Latencies \subseteq Nat /\ Addrs \subseteq Blocks /\ 0 \in Nat
  BY QueueAssumption DEF Blocks
<1>6. Allocated = Elements(q.allocatedList)
  BY DEF Allocated, ToSet, Elements
<1>7. q \in QueueOf(Registers(Blocks)) /\ q.readyList \in Seq(Ids)
      /\ Elements(q.allocatedList) \subseteq Ids
  BY <1>1, BaseFacts
<1>8. CASE \E a \in Addrs, cmd \in CpuCommands, when \in Latencies : Miss(a, cmd, when)
  <2>1. PICK a \in Addrs, cmd \in CpuCommands, when \in Latencies : Miss(a, cmd, when)
    BY <1>8
  <2>2. /\ findMatch(q, a) = 0 /\ ~isFull(q) /\ Counted
        /\ q' = MSHRQueue_allocate(q, a, cmd, when, order)
    BY <2>1 DEF Miss
  <2>3. q.allocated < N
    BY <1>1, <2>2, Room
  <2>4. \A j \in Elements(q.allocatedList) : q.registers[j].blkAddr # a
    BY <1>1, <2>2, FindOK
  <2>5. QueueInv(q', order + 1) /\ \E i \in Ids : \E w : Takes(q, q', i, w)
    BY <1>1, <1>4, <1>5, <2>2, <2>3, <2>4, AllocateQueueOK
  <2>6. KeepsTurns(q, q')
    BY <2>5 DEF Takes
  <2> QED BY <1>3, <2>2, <2>5, <2>6
<1>9. CASE \E a \in Addrs : Prefetch(a)
  <2>1. PICK a \in Addrs : Prefetch(a)
    BY <1>9
  <2>2. /\ findMatch(q, a) = 0 /\ canPrefetch(q) /\ Counted
        /\ q' = MSHRQueue_allocate(q, a, "HardPFReq", 0, order)
    BY <2>1 DEF Prefetch
  <2>3. q.allocated < N
    BY <1>1, <2>2, Room
  <2>4. \A j \in Elements(q.allocatedList) : q.registers[j].blkAddr # a
    BY <1>1, <2>2, FindOK
  <2>5. QueueInv(q', order + 1) /\ \E i \in Ids : \E w : Takes(q, q', i, w)
    BY <1>1, <1>4, <1>5, <2>2, <2>3, <2>4, AllocateQueueOK
  <2>6. KeepsTurns(q, q')
    BY <2>5 DEF Takes
  <2> QED BY <1>3, <2>2, <2>5, <2>6
<1>10. CASE \E i \in Allocated, cmd \in CpuCommands, when \in Latencies : Coalesce(i, cmd, when)
  <2>1. PICK i \in Allocated, cmd \in CpuCommands, when \in Latencies : Coalesce(i, cmd, when)
    BY <1>10
  <2> DEFINE w == MSHR_allocateTarget(q.registers[i], cmd, when, order)
  <2>2. Counted /\ q' = Put(q, i, w)
    BY <2>1 DEF Coalesce, Put
  <2>3. QueueInv(q', order + 1) /\ SameReady(q, q')
    BY <1>1, <1>5, <1>6, <2>2, CoalesceOK
  <2> QED BY <1>3, <2>2, <2>3, SameTurns DEF SameReady
<1>11. CASE \E fwd \in BOOLEAN, pd \in BOOLEAN : Send(fwd, pd)
  <2>1. PICK fwd \in BOOLEAN, pd \in BOOLEAN : Send(fwd, pd)
    BY <1>11
  <2> DEFINE i == getNextMSHR(q)
             u == [q EXCEPT !.registers[i].isForward = fwd]
  <2>2. /\ i # 0 /\ q' = MSHRQueue_markInService(u, i, pd) /\ order' = order
    BY <2>1 DEF Send
  <2>3. i \in Elements(q.readyList) /\ i \in Ids
    BY <1>1, <2>2, RegistersTyped, NextOK
  <2> HIDE DEF i
  <2>4. u = Put(q, i, Forwarded(q.registers[i], fwd))
    BY <1>7, <2>3 DEF Put, QueueOf, Forwarded
  <2> HIDE DEF u
  <2>5. QueueInv(q', order) /\ Starts(q, q', i, q'.registers[i])
    BY <1>1, <2>2, <2>3, <2>4, MarkInServiceQueueOK
  <2> QED BY <1>1, <2>2, <2>5 DEF Starts
<1>12. CASE SquashPrefetch
  <2> DEFINE i == getNextMSHR(q)
  <2>1. i # 0 /\ q' = forceDeallocateTarget(q, i) /\ order' = order
    BY <1>12 DEF SquashPrefetch
  <2>2. i \in Elements(q.allocatedList) /\ ~q.registers[i].inService
    BY <1>1, <2>1, RegistersTyped, NextOK
  <2>3. QueueInv(q', order) /\ KeepsTurns(q, q')
    BY <1>1, <2>1, <2>2, SquashOK
  <2> QED BY <1>1, <2>1, <2>3
<1>13. CASE \E i \in Allocated, cmd \in SnoopCommands : Snoop(i, cmd)
  <2>1. PICK i \in Allocated, cmd \in SnoopCommands : Snoop(i, cmd)
    BY <1>13
  <2> DEFINE w == MSHR_handleSnoop(q.registers[i], cmd, order).mshr
  <2>2. Counted /\ q' = Put(q, i, w)
    BY <2>1 DEF Snoop, Put
  <2>3. QueueInv(q', order + 1) /\ SameReady(q, q')
    BY <1>1, <1>6, <2>2, SnoopOK
  <2> QED BY <1>3, <2>2, <2>3, SameTurns DEF SameReady
<1>14. CASE \E i \in Allocated, shared \in BOOLEAN : Respond(i, shared)
  <2>1. PICK i \in Allocated, shared \in BOOLEAN : Respond(i, shared)
    BY <1>14
  <2> DEFINE f == ~q.registers[i].isForward
             filled == Filled(q, i, f, shared)
  <2>2. /\ q.registers[i].inService /\ order' = order /\ q' = Answered(filled, i)
    BY <2>1 DEF Respond
  <2>3. f \in BOOLEAN /\ (f => ~q.registers[i].isForward)
    OBVIOUS
  <2> HIDE DEF f
  <2>4. filled = Filled(q, i, f, shared)
    OBVIOUS
  <2> HIDE DEF filled
  <2>5. /\ QueueInv(q', order)
        /\ Restarts(q, q', i, q'.registers[i]) \/ Frees(q, q', i)
    BY <1>1, <1>6, <2>2, <2>3, <2>4, RespondOK
  <2> QED BY <1>1, <2>2, <2>5 DEF Restarts, Frees
<1>15. CASE Tick
  <2>1. q' = QueueTick(q) /\ order' = order
    BY <1>15 DEF Tick
  <2>2. QueueInv(q', order) /\ q'.readyList = q.readyList
    BY <1>1, <2>1, TickOK DEF Ages
  <2> QED BY <1>1, <2>1, <2>2, SameTurns
<1>16. CASE UNCHANGED vars
  BY <1>1, <1>16, SameTurns DEF vars
<1> QED BY <1>8, <1>9, <1>10, <1>11, <1>12, <1>13, <1>14, <1>15, <1>16 DEF Next

(* The lists, the registers and the counters of the queue are consistent   *)
(* after any sequence of misses, snoops and responses.                     *)
THEOREM Invariance == Spec => []IInv
  BY InitIInv, NextIInv, PTL DEF Spec

-----------------------------------------------------------------------------
(* A list without duplicates has as many elements as entries.              *)
LEMMA Counting ==
    ASSUME NEW S, NEW l \in Seq(S), Injective(l)
    PROVE  NoDuplicates(l) /\ ToSet(l) = Elements(l)
<1> DEFINE n == Len(l)
           T == Elements(l)
<1>1. n \in Nat /\ DOMAIN l = 1 .. n /\ l \in [1 .. n -> T]
  <2>1. n \in Nat /\ DOMAIN l = 1 .. n /\ l = [k \in 1 .. n |-> l[k]]
    OBVIOUS
  <2>2. \A k \in 1 .. n : l[k] \in T
    BY <2>1 DEF Elements
  <2> HIDE DEF n, T
  <2> QED BY <2>1, <2>2
<1>2. \A y \in T : \E k \in 1 .. n : l[k] = y
  BY <1>1 DEF Elements
<1>3. IsInjective(l)
  BY DEF Injective, IsInjective
<1> HIDE DEF n, T
<1>4. l \in Bijection(1 .. n, T)
  BY <1>1, <1>2, <1>3 DEF Bijection, Injection, Surjection
<1>5. ExistsBijection(1 .. n, T)
  BY <1>4 DEF ExistsBijection
<1>6. Cardinality(T) = n
  BY <1>1, <1>5, FS_CountingElements
<1>7. ToSet(l) = T
  BY DEF ToSet, Elements, T
<1> QED BY <1>6, <1>7 DEF NoDuplicates, n, T

(* Two lists without duplicates and without a common element.              *)
LEMMA Concatenation ==
    ASSUME NEW S, NEW l \in Seq(S), NEW r \in Seq(S), Injective(l), Injective(r),
           \A x \in Elements(l) : x \notin Elements(r)
    PROVE  /\ l \o r \in Seq(S) /\ Injective(l \o r)
           /\ Elements(l \o r) = Elements(l) \cup Elements(r)
<1> DEFINE n == Len(l)
           k == Len(r)
           c == l \o r
<1>1. /\ n \in Nat /\ k \in Nat /\ DOMAIN l = 1 .. n /\ DOMAIN r = 1 .. k
      /\ c \in Seq(S) /\ DOMAIN c = 1 .. n + k
      /\ \A x \in 1 .. n : c[x] = l[x]
      /\ \A x \in 1 .. n + k : x > n => c[x] = r[x - n]
  OBVIOUS
<1> HIDE DEF n, k, c
<1>2. ASSUME NEW x \in 1 .. n + k
      PROVE  \/ x \in 1 .. n /\ c[x] = l[x]
             \/ x > n /\ x - n \in 1 .. k /\ c[x] = r[x - n]
  BY <1>1
<1>3. \A x \in 1 .. n : l[x] \in Elements(l)
  BY <1>1 DEF Elements
<1>4. \A x \in 1 .. k : r[x] \in Elements(r)
  BY <1>1 DEF Elements
<1>5. ASSUME NEW x \in 1 .. n + k, NEW y \in 1 .. n + k, c[x] = c[y]
      PROVE  x = y
  <2>1. CASE x \in 1 .. n /\ y \in 1 .. n
    BY <1>1, <1>5, <2>1 DEF Injective
  <2>2. CASE x > n /\ y > n
    <3>1. x - n \in 1 .. k /\ y - n \in 1 .. k /\ r[x - n] = r[y - n]
      BY <1>1, <1>5, <2>2
    <3>2. x - n = y - n
      BY <1>1, <3>1 DEF Injective
    <3> QED BY <1>1, <3>2
  <2>3. CASE x \in 1 .. n /\ y > n
    BY <1>1, <1>2, <1>3, <1>4, <1>5, <2>3
  <2>4. CASE x > n /\ y \in 1 .. n
    BY <1>1, <1>2, <1>3, <1>4, <1>5, <2>4
  <2> QED BY <1>2, <2>1, <2>2, <2>3, <2>4
<1>6. Elements(c) = Elements(l) \cup Elements(r)
  <2>1. ASSUME NEW y \in Elements(c) PROVE y \in Elements(l) \cup Elements(r)
    <3>1. PICK x \in 1 .. n + k : y = c[x]
      BY <1>1 DEF Elements
    <3> QED BY <1>2, <1>3, <1>4, <3>1
  <2>2. ASSUME NEW y \in Elements(l) PROVE y \in Elements(c)
    <3>1. PICK x \in 1 .. n : y = l[x]
      BY <1>1 DEF Elements
    <3>2. x \in DOMAIN c /\ y = c[x]
      BY <1>1, <3>1
    <3> QED BY <3>2 DEF Elements
  <2>3. ASSUME NEW y \in Elements(r) PROVE y \in Elements(c)
    <3>1. PICK x \in 1 .. k : y = r[x]
      BY <1>1 DEF Elements
    <3>2. x + n \in 1 .. n + k /\ x + n > n /\ (x + n) - n = x
      BY <1>1
    <3>3. x + n \in DOMAIN c /\ y = c[x + n]
      BY <1>1, <3>1, <3>2
    <3> QED BY <3>3 DEF Elements
  <2> QED BY <2>1, <2>2, <2>3
<1> QED BY <1>1, <1>5, <1>6 DEF c, Injective

(* The lists hold registers of the queue and the counters stay within its  *)
(* size, whatever the sequence of operations.                              *)
THEOREM TypeCorrect == Spec => []TypeOK
<1>1. IInv => TypeOK
  <2> SUFFICES ASSUME IInv PROVE TypeOK
    OBVIOUS
  <2>1. q \in QueueOf(Registers(Blocks)) /\ Lists(q) /\ order \in 0 .. MaxOrder
    BY DEF IInv, QueueInv, Base
  <2>2. /\ q.numEntries = N /\ q.freeList \in Seq(Ids) /\ q.allocatedList \in Seq(Ids)
        /\ q.readyList \in Seq(Ids)
    BY <2>1, QueueFacts
  <2>3. q.allocated \in 0 .. N
    <3>1. /\ Len(q.freeList) \in Nat /\ Len(q.allocatedList) \in Nat
      BY <2>2, ListType
    <3>2. Len(q.freeList) + Len(q.allocatedList) = N /\ q.allocated = Len(q.allocatedList)
      BY <2>1 DEF Lists
    <3>3. \A x, y \in Nat : y \in 0 .. x + y
      OBVIOUS
    <3> QED BY <3>1, <3>2, <3>3
  <2>4. q.inServiceEntries \in 0 .. N
    <3>1. IsFiniteSet(Ids) /\ Cardinality(Ids) = N /\ N \in Nat
      BY SizeFacts
    <3>2. InService(q) \in SUBSET Ids
      BY DEF InService
    <3>3. IsFiniteSet(InService(q)) /\ Cardinality(InService(q)) <= N
      BY <3>1, <3>2, FS_Subset
    <3>4. Cardinality(InService(q)) \in Nat
      BY <3>3, FS_CardinalityType
    <3> QED BY <2>1, <3>1, <3>3, <3>4 DEF Lists
  <2> QED BY <2>1, <2>2, <2>3, <2>4 DEF TypeOK, Ids
<1> QED BY Invariance, <1>1, PTL

(* No register is lost, listed twice or shared by two blocks, and the      *)
(* counters agree with the lists, after any sequence of operations.        *)
THEOREM ListsStayConsistent == Spec => []ListsAgree
<1>1. IInv => ListsAgree
  <2> SUFFICES ASSUME IInv PROVE ListsAgree
    OBVIOUS
  <2> DEFINE c == q.freeList \o q.allocatedList
  <2>1. q \in QueueOf(Registers(Blocks)) /\ Lists(q) /\ Clean(q) /\ Contents(q, order)
    BY DEF IInv, QueueInv, Base
  <2>2. /\ q.numEntries = N /\ q.freeList \in Seq(Ids) /\ q.allocatedList \in Seq(Ids)
        /\ q.readyList \in Seq(Ids) /\ Elements(q.freeList) \subseteq Ids
        /\ Elements(q.allocatedList) \subseteq Ids /\ Elements(q.readyList) \subseteq Ids
        /\ \A i \in Ids : q.registers[i] \in Registers(Blocks)
    BY <2>1, QueueFacts
  <2>3. /\ Injective(q.freeList) /\ Injective(q.allocatedList) /\ Injective(q.readyList)
        /\ \A i \in Elements(q.freeList) : i \notin Elements(q.allocatedList)
    BY <2>1, <2>2 DEF Lists
  <2>4. c \in Seq(Ids) /\ Injective(c) /\ Elements(c) = Elements(q.freeList) \cup Elements(q.allocatedList)
    BY ONLY <2>2, <2>3, Concatenation
  <2> HIDE DEF c
  <2>5. NoDuplicates(c) /\ ToSet(c) = Elements(c)
    BY ONLY <2>4, Counting
  <2>6. Elements(c) = 1 .. q.numEntries
    BY <2>1, <2>2, <2>4 DEF Lists, Ids
  <2>7. NoDuplicates(q.readyList) /\ ToSet(q.readyList) = Elements(q.readyList)
    BY ONLY <2>2, <2>3, Counting
  <2>8. Allocated = Elements(q.allocatedList)
    BY DEF Allocated, ToSet, Elements
  <2>9. Elements(q.readyList) = Waiting
    BY <2>1, <2>2, <2>8 DEF Lists, Waiting
  <2>10. Allocated \ Waiting = InService(q)
    <3>1. \A i \in Elements(q.freeList) : ~q.registers[i].inService
      BY <2>1, FreeFacts DEF Clean
    <3>2. \A i \in InService(q) : i \in Elements(q.allocatedList)
      BY <2>1, <3>1 DEF InService, Lists
    <3> QED BY <2>2, <2>8, <3>2 DEF InService, Waiting
  <2>11. /\ q.allocated = Len(q.allocatedList)
         /\ q.inServiceEntries = Cardinality(Allocated \ Waiting)
    BY <2>1, <2>10 DEF Lists
  <2>12. \A i, j \in Allocated : q.registers[i].blkAddr = q.registers[j].blkAddr => i = j
    BY <2>1, <2>8 DEF Contents
  <2> QED BY <2>5, <2>6, <2>7, <2>9, <2>11, <2>12 DEF ListsAgree, c
<1> QED BY Invariance, <1>1, PTL

(* The ready list stays sorted, and MSHRs that are ready at the same time  *)
(* are served in the order they were added to it.                          *)
THEOREM ReadyListInTurn == Spec => ServedInTurn
<1>1. IInv => ReadySorted
  <2> SUFFICES ASSUME IInv PROVE ReadySorted
    OBVIOUS
  <2>1. q \in QueueOf(Registers(Blocks)) /\ Sorted(q)
    BY DEF IInv, QueueInv, Base
  <2>2. DOMAIN q.readyList = 1 .. Len(q.readyList)
    BY <2>1, QueueFacts, ListType
  <2> QED BY <2>1, <2>2 DEF Sorted, ReadySorted, IsSorted
<1> QED BY Invariance, <1>1, NextIInv, PTL DEF Spec, ServedInTurn

(* What RegisterOK says of every allocated register.                       *)
LEMMA AllocatedFacts ==
    ASSUME IInv, NEW i \in Allocated
    PROVE  q.registers[i] \in Registers(Blocks) /\ RegisterOK(q.registers[i], order)
<1>1. QueueInv(q, order)
  BY DEF IInv
<1>2. i \in Elements(q.allocatedList)
  BY DEF Allocated, ToSet, Elements
<1> QED BY <1>1, <1>2, InvFacts

(* The CPU side is answered in program order, within and across the        *)
(* transactions of a block.                                                *)
THEOREM AnswersInProgramOrder == Spec => []ProgramOrder
<1>1. IInv => ProgramOrder
  <2> SUFFICES ASSUME IInv, NEW i \in Allocated
               PROVE  LET m == q.registers[i]
                          l == m.targets.list \o m.deferredTargets.list
                      IN  \A j, k \in DOMAIN l :
                            (j < k /\ l[j].source = "FromCPU" /\ l[k].source = "FromCPU")
                              => l[j].order < l[k].order
    BY DEF ProgramOrder
  <2> DEFINE a == q.registers[i].targets.list
             b == q.registers[i].deferredTargets.list
             n == Len(a)
             c == a \o b
  <2>1. /\ a \in Seq(Targets) /\ b \in Seq(Targets)
        /\ Ordered(a) /\ Ordered(b) /\ Precedes(a, b)
    BY AllocatedFacts, RegisterFacts, ListFacts DEF RegisterOK, InOrder
  <2> HIDE DEF a, b
  <2>2. /\ n \in Nat /\ Len(b) \in Nat /\ DOMAIN a = 1 .. n /\ DOMAIN b = 1 .. Len(b)
        /\ DOMAIN c = 1 .. n + Len(b) /\ \A x \in 1 .. n : c[x] = a[x]
        /\ \A x \in 1 .. n + Len(b) : x > n => c[x] = b[x - n]
    BY <2>1
  <2> HIDE DEF n, c
  <2>3. ASSUME NEW j \in 1 .. n + Len(b), NEW k \in 1 .. n + Len(b), j < k,
               c[j].source = "FromCPU", c[k].source = "FromCPU"
        PROVE  c[j].order < c[k].order
    <3>1. CASE k <= n
      BY <2>1, <2>2, <2>3, <3>1 DEF Ordered
    <3>2. CASE j > n
      <4>1. /\ j - n \in DOMAIN b /\ k - n \in DOMAIN b /\ j - n < k - n
            /\ c[j] = b[j - n] /\ c[k] = b[k - n]
        BY <2>2, <2>3, <3>2
      <4> QED BY <2>1, <2>3, <4>1 DEF Ordered
    <3>3. CASE j <= n /\ k > n
      <4>1. j \in DOMAIN a /\ k - n \in DOMAIN b /\ c[j] = a[j] /\ c[k] = b[k - n]
        BY <2>2, <2>3, <3>3
      <4> QED BY <2>1, <2>3, <4>1 DEF Precedes
    <3> QED BY <2>2, <3>1, <3>2, <3>3
  <2> QED BY <2>2, <2>3 DEF a, b, c
<1> QED BY Invariance, <1>1, PTL

(* No CPU-side request is served from a fill behind a snoop that took the  *)
(* block, or the right to write it, away.                                  *)
THEOREM SnoopsInOrder == Spec => []SnoopsTakeEffectInOrder
<1>1. IInv => SnoopsTakeEffectInOrder
  BY AllocatedFacts DEF SnoopsTakeEffectInOrder, RegisterOK, InEffect
<1> QED BY Invariance, <1>1, PTL

(* Behind an invalidation every deferred upgrade has become a fetch.       *)
THEOREM UpgradesReplaced == Spec => []NoStaleUpgrade
<1>1. IInv => NoStaleUpgrade
  BY AllocatedFacts DEF NoStaleUpgrade, RegisterOK, Fresh, NoUpgrade
<1> QED BY Invariance, <1>1, PTL

(* The asserts of MSHR and MSHRQueue never fail.                           *)
THEOREM AssertsHold == Spec => []AssertionsHold
<1>1. IInv => AssertionsHold
  BY DEF IInv, QueueInv, Base, AssertionsHold
<1> QED BY Invariance, <1>1, PTL

-----------------------------------------------------------------------------
(* For the caches that use a queue: the next two facts are about the       *)
(* registers that wait, the ones below about how many registers there are. *)
LEMMA NextTimes ==
    \A R, s : Typed(R) /\ Base(R, s) =>
        /\ getNextMSHR(s) # 0 => s.registers[getNextMSHR(s)].readyTime = 0
        /\ getNextMSHR(s) = 0 => \A j \in Elements(s.readyList) :
                                     s.registers[j].readyTime > 0
        /\ \A j \in Ids : s.registers[j].readyTime \in Nat
<1> SUFFICES ASSUME NEW R, NEW s, Typed(R), Base(R, s)
             PROVE  /\ getNextMSHR(s) # 0 => s.registers[getNextMSHR(s)].readyTime = 0
                    /\ getNextMSHR(s) = 0 => \A j \in Elements(s.readyList) :
                                                 s.registers[j].readyTime > 0
                    /\ \A j \in Ids : s.registers[j].readyTime \in Nat
  OBVIOUS
<1> DEFINE h == Head(s.readyList)
<1>1. \A j \in Ids : s.registers[j].readyTime \in Nat
  BY BaseFacts DEF Typed
<1>2. \A j \in Elements(s.readyList) :
          /\ j \in Ids /\ s.readyList # <<>>
          /\ s.registers[h].readyTime <= s.registers[j].readyTime
  BY NextOK
<1>3. s.readyList # <<>> => h \in Elements(s.readyList)
  BY NextOK
<1>4. \A j \in Ids : j # 0
  BY SizeFacts DEF Ids
<1>5. getNextMSHR(s) = IF s.readyList = <<>> \/ s.registers[h].readyTime > 0 THEN 0 ELSE h
  BY DEF getNextMSHR
<1> HIDE DEF h
<1>6. ASSUME getNextMSHR(s) # 0 PROVE s.registers[getNextMSHR(s)].readyTime = 0
  <2>1. s.readyList # <<>> /\ ~(s.registers[h].readyTime > 0) /\ getNextMSHR(s) = h
    BY <1>5, <1>6
  <2>2. s.registers[h].readyTime \in Nat
    BY <1>1, <1>2, <1>3, <2>1
  <2> QED BY <2>1, <2>2
<1>7. ASSUME getNextMSHR(s) = 0, NEW j \in Elements(s.readyList)
      PROVE  s.registers[j].readyTime > 0
  <2>1. /\ s.readyList # <<>> /\ h \in Ids /\ h # 0
        /\ s.registers[h].readyTime \in Nat /\ s.registers[j].readyTime \in Nat
    BY <1>1, <1>2, <1>3, <1>4
  <2>2. s.registers[h].readyTime > 0
    BY <1>5, <1>7, <2>1
  <2> QED BY <1>2, <2>1, <2>2
<1> QED BY <1>1, <1>6, <1>7

(* Requests are also numbered by operations that leave this queue alone.   *)
LEMMA LaterQueueOK == \A s, ord : QueueInv(s, ord) /\ ord \in Nat => QueueInv(s, ord + 1)
<1> SUFFICES ASSUME NEW s, NEW ord, QueueInv(s, ord), ord \in Nat
             PROVE  QueueInv(s, ord + 1)
  OBVIOUS
<1>1. /\ Base(Registers(Blocks), s) /\ Contents(s, ord)
      /\ \A i \in Elements(s.allocatedList) :
             /\ i \in Ids /\ s.registers[i] \in Registers(Blocks)
             /\ RegisterOK(s.registers[i], ord) /\ hasTargets(s.registers[i])
  BY InvFacts
<1>2. \A i \in Elements(s.allocatedList) : RegisterOK(s.registers[i], ord + 1)
  BY <1>1, LaterOK
<1> QED BY <1>1, <1>2 DEF QueueInv, Contents

(* The size of a set of registers of which another one is a part.          *)
LEMMA Fewer ==
    ASSUME NEW S \in SUBSET Ids, NEW T \in SUBSET S
    PROVE  /\ Cardinality(S) \in Nat /\ Cardinality(T) \in Nat
           /\ Cardinality(T) <= Cardinality(S)
           /\ \A x \in S \ T : Cardinality(T) + 1 <= Cardinality(S)
<1>1. IsFiniteSet(S)
  BY SizeFacts, FS_Subset
<1>2. IsFiniteSet(T) /\ Cardinality(T) <= Cardinality(S)
  BY <1>1, FS_Subset
<1>3. Cardinality(S) \in Nat /\ Cardinality(T) \in Nat
  BY <1>1, <1>2, FS_CardinalityType
<1>4. ASSUME NEW x \in S \ T PROVE Cardinality(T) + 1 <= Cardinality(S)
  <2>1. T \cup {x} \in SUBSET S
    OBVIOUS
  <2>2. Cardinality(T \cup {x}) <= Cardinality(S)
    BY <1>1, <2>1, FS_Subset
  <2>3. Cardinality(T \cup {x}) = Cardinality(T) + 1
    BY <1>2, FS_AddElement
  <2> QED BY <2>2, <2>3
<1> QED BY <1>2, <1>3, <1>4

(* The counter is the number of allocated registers.                       *)
LEMMA AllocatedCount ==
    \A R, s : Base(R, s) =>
        /\ s.allocated \in Nat /\ s.allocated = Cardinality(Elements(s.allocatedList))
        /\ \A i \in Elements(s.allocatedList) : s.allocated > 0
        /\ \A i, j \in Elements(s.allocatedList) : i # j => s.allocated > 1
<1> SUFFICES ASSUME NEW R, NEW s, Base(R, s)
             PROVE  /\ s.allocated \in Nat
                    /\ s.allocated = Cardinality(Elements(s.allocatedList))
                    /\ \A i \in Elements(s.allocatedList) : s.allocated > 0
                    /\ \A i, j \in Elements(s.allocatedList) : i # j => s.allocated > 1
  OBVIOUS
<1> DEFINE l == s.allocatedList
<1>1. /\ l \in Seq(Ids) /\ Injective(l) /\ s.allocated = Len(l) /\ s.allocated \in Nat
      /\ Elements(l) \in SUBSET Ids
  BY BaseFacts DEF Lists
<1> HIDE DEF l
<1>2. Cardinality(Elements(l)) = Len(l)
  BY <1>1, Counting DEF NoDuplicates
<1>3. Cardinality({}) = 0
  BY FS_EmptySet
<1>4. ASSUME NEW i \in Elements(l) PROVE s.allocated > 0
  <2>1. Cardinality({}) + 1 <= Cardinality(Elements(l))
    BY <1>1, Fewer
  <2> QED BY <1>1, <1>2, <1>3, <2>1
<1>5. ASSUME NEW i \in Elements(l), NEW j \in Elements(l), i # j PROVE s.allocated > 1
  <2>1. Cardinality({i}) = 1
    BY FS_Singleton
  <2>2. {i} \in SUBSET Elements(l) /\ j \in Elements(l) \ {i}
    BY <1>5
  <2>3. Cardinality({i}) + 1 <= Cardinality(Elements(l))
    BY <1>1, <2>2, Fewer
  <2> QED BY <1>1, <1>2, <2>1, <2>3
<1> QED BY <1>1, <1>2, <1>4, <1>5 DEF l

(* The registers that will need a second transaction.                      *)
Deferring(s) == {i \in Elements(s.allocatedList) : Defers(s.registers[i])}
deferring(s) == Cardinality(Deferring(s))

LEMMA DeferringOK ==
    \A s, ord : QueueInv(s, ord) => deferring(s) \in Nat /\ deferring(s) <= s.allocated
<1> SUFFICES ASSUME NEW s, NEW ord, QueueInv(s, ord)
             PROVE  deferring(s) \in Nat /\ deferring(s) <= s.allocated
  OBVIOUS
<1>1. Base(Registers(Blocks), s)
  BY InvFacts
<1>2. Elements(s.allocatedList) \in SUBSET Ids
  BY <1>1, BaseFacts
<1>3. s.allocated = Cardinality(Elements(s.allocatedList))
  BY <1>1, AllocatedCount
<1>4. Deferring(s) \in SUBSET Elements(s.allocatedList)
  BY DEF Deferring
<1> QED BY <1>2, <1>3, <1>4, Fewer DEF deferring

(* No operation but the arrival of another request adds to them.           *)
LEMMA DeferringKept ==
    \A s, ord, t, i, w :
        QueueInv(s, ord) =>
            /\ Frees(s, t, i) => deferring(t) <= deferring(s)
            /\ Takes(s, t, i, w) /\ ~Defers(w) => deferring(t) <= deferring(s)
            /\ Puts(s, t, i, w) /\ i \in Ids /\ (Defers(w) => Defers(s.registers[i]))
                  => deferring(t) <= deferring(s)
            /\ Ages(s, t) => deferring(t) <= deferring(s)
<1> SUFFICES ASSUME NEW s, NEW ord, NEW t, NEW i, NEW w, QueueInv(s, ord)
             PROVE  /\ Frees(s, t, i) => deferring(t) <= deferring(s)
                    /\ Takes(s, t, i, w) /\ ~Defers(w) => deferring(t) <= deferring(s)
                    /\ Puts(s, t, i, w) /\ i \in Ids /\ (Defers(w) => Defers(s.registers[i]))
                          => deferring(t) <= deferring(s)
                    /\ Ages(s, t) => deferring(t) <= deferring(s)
  OBVIOUS
<1>1. Elements(s.allocatedList) \subseteq Ids
  BY InvFacts
<1>2. Deferring(s) \in SUBSET Ids
  BY <1>1 DEF Deferring
<1>3. Deferring(t) \in SUBSET Deferring(s) => deferring(t) <= deferring(s)
  BY <1>2, Fewer DEF deferring
<1>4. Frees(s, t, i) => Deferring(t) \in SUBSET Deferring(s)
  BY <1>1 DEF Frees, Only, Deferring
<1>5. Takes(s, t, i, w) /\ ~Defers(w) => Deferring(t) \in SUBSET Deferring(s)
  BY <1>1 DEF Takes, Only, Deferring
<1>6. Puts(s, t, i, w) /\ i \in Ids /\ (Defers(w) => Defers(s.registers[i]))
         => Deferring(t) \in SUBSET Deferring(s)
  BY <1>1 DEF Puts, Only, Deferring
<1>7. Ages(s, t) => Deferring(t) \in SUBSET Deferring(s)
  BY <1>1 DEF Ages, Aged, Deferring
<1> QED BY <1>3, <1>4, <1>5, <1>6, <1>7

LEMMA DeferringRestarts ==
    \A s, ord, t, i, w :
        /\ QueueInv(s, ord) /\ i \in Elements(s.allocatedList) /\ Restarts(s, t, i, w)
        /\ Defers(s.registers[i]) /\ ~Defers(w)
        => deferring(t) + 1 <= deferring(s)
<1> TAKE s, ord, t, i, w
<1> HAVE /\ QueueInv(s, ord) /\ i \in Elements(s.allocatedList) /\ Restarts(s, t, i, w)
         /\ Defers(s.registers[i]) /\ ~Defers(w)
<1>1. Elements(s.allocatedList) \subseteq Ids
  BY InvFacts
<1>2. Deferring(s) \in SUBSET Ids /\ i \in Deferring(s)
  BY <1>1 DEF Deferring
<1>3. Deferring(t) \in SUBSET Deferring(s) /\ i \notin Deferring(t)
  BY <1>1 DEF Restarts, Puts, Only, Deferring
<1> QED BY <1>2, <1>3, Fewer DEF deferring

-----------------------------------------------------------------------------
(* The write buffer is a queue whose registers hold one writeback each,    *)
(* which is gone once it has been sent.                                    *)
WriteTargets ==
    [cmd : {"Writeback"}, source : {"FromCPU"}, readyTime : Nat, order : Nat]
WriteRegisters ==
    {m \in [blkAddr : Blocks, order : Nat, readyTime : Nat, inService : {FALSE},
            isForward : {FALSE}, pendingDirty : {FALSE}, postInvalidate : {FALSE},
            postDowngrade : {FALSE},
            targets : [list : Seq(WriteTargets), needsExclusive : BOOLEAN,
                       hasUpgrade : {FALSE}],
            deferredTargets : {EmptyTargets}] : Len(m.targets.list) <= 1}
WriteInv(s) ==
    /\ Base(WriteRegisters, s)
    /\ \A i \in Elements(s.allocatedList) : hasTargets(s.registers[i])

LEMMA WriteTyped == Typed(WriteRegisters)
<1>1. "none" \in Blocks /\ <<>> \in Seq(WriteTargets) /\ Len(<<>>) <= 1
  BY DEF Blocks
<1>2. FreeMSHR \in WriteRegisters
  BY <1>1 DEF FreeMSHR, EmptyTargets, WriteRegisters
<1>3. \A m \in WriteRegisters : m.readyTime \in Nat /\ m.inService \in BOOLEAN
  BY DEF WriteRegisters
<1> QED BY <1>2, <1>3 DEF Typed

LEMMA WriteFacts ==
    \A s : WriteInv(s) =>
        /\ Base(WriteRegisters, s) /\ Typed(WriteRegisters) /\ s.allocated \in Nat
        /\ Elements(s.readyList) = Elements(s.allocatedList)
        /\ Elements(s.allocatedList) \subseteq Ids
<1> SUFFICES ASSUME NEW s, WriteInv(s)
             PROVE  /\ Base(WriteRegisters, s) /\ Typed(WriteRegisters) /\ s.allocated \in Nat
                    /\ Elements(s.readyList) = Elements(s.allocatedList)
                    /\ Elements(s.allocatedList) \subseteq Ids
  OBVIOUS
<1>1. Base(WriteRegisters, s)
  BY DEF WriteInv
<1>2. /\ Elements(s.readyList) \subseteq Ids /\ Elements(s.allocatedList) \subseteq Ids
      /\ Lists(s) /\ s.allocated \in Nat /\ \A i \in Ids : s.registers[i] \in WriteRegisters
  BY <1>1, BaseFacts
<1>3. \A i \in Ids : ~s.registers[i].inService
  BY <1>2 DEF WriteRegisters
<1>4. Elements(s.readyList) = Elements(s.allocatedList)
  BY <1>2, <1>3 DEF Lists
<1> QED BY <1>1, <1>2, <1>4, WriteTyped

(* A writeback takes a register.                                           *)
LEMMA WriteAllocateOK ==
    \A s, blk, when, ord, t :
        /\ WriteInv(s) /\ s.allocated < N /\ blk \in Blocks /\ when \in Nat /\ ord \in Nat
        /\ t = MSHRQueue_allocate(s, blk, "Writeback", when, ord)
        => \E i \in Ids : \E w : /\ WriteInv(t) /\ Takes(s, t, i, w)
                                 /\ w.blkAddr = blk /\ w.readyTime = when
<1> TAKE s, blk, when, ord, t
<1> HAVE /\ WriteInv(s) /\ s.allocated < N /\ blk \in Blocks /\ when \in Nat /\ ord \in Nat
         /\ t = MSHRQueue_allocate(s, blk, "Writeback", when, ord)
<1> DEFINE x == Target("Writeback", "FromCPU", when, ord)
           l == TargetList_add(EmptyTargets, x)
           w == MSHR_allocate(blk, "Writeback", when, ord)
           i == Head(s.freeList)
<1>1. Base(WriteRegisters, s) /\ Typed(WriteRegisters)
  BY WriteFacts
<1>2. s.freeList # <<>>
  BY <1>1, RoomOK
<1>3. x \in WriteTargets /\ x.source = "FromCPU"
  BY DEF Target, WriteTargets
<1>4. w = [FreeMSHR EXCEPT !.blkAddr = blk, !.order = ord, !.readyTime = when, !.targets = l]
  BY DEF MSHR_allocate
<1>5. /\ l.list = Append(<<>>, x) /\ l.needsExclusive \in BOOLEAN /\ l.hasUpgrade = FALSE
      /\ l = [list |-> l.list, needsExclusive |-> l.needsExclusive, hasUpgrade |-> l.hasUpgrade]
  BY DEF TargetList_add, EmptyTargets, IsUpgrade, Target
<1> HIDE DEF x, w
<1>6. Append(<<>>, x) \in Seq(WriteTargets) /\ Len(Append(<<>>, x)) = 1
      /\ Append(<<>>, x) # <<>>
  BY <1>3
<1> HIDE DEF l
<1>7. l \in [list : Seq(WriteTargets), needsExclusive : BOOLEAN, hasUpgrade : {FALSE}]
  BY <1>5, <1>6
<1>8. /\ w \in WriteRegisters /\ w.blkAddr = blk /\ w.readyTime = when /\ ~w.inService
      /\ w.targets = l
  <2>1. w = [blkAddr |-> blk, order |-> ord, readyTime |-> when, inService |-> FALSE,
             isForward |-> FALSE, pendingDirty |-> FALSE, postInvalidate |-> FALSE,
             postDowngrade |-> FALSE, targets |-> l, deferredTargets |-> EmptyTargets]
    BY <1>4 DEF FreeMSHR
  <2>2. w.targets = l /\ Len(l.list) <= 1
    BY <1>5, <1>6, <2>1
  <2> QED BY <1>7, <2>1, <2>2 DEF WriteRegisters
<1>9. Base(WriteRegisters, t) /\ Takes(s, t, i, w)
  BY <1>1, <1>2, <1>8, BaseAllocate DEF w
<1>10. hasTargets(w)
  BY <1>5, <1>6, <1>8 DEF hasTargets
<1>11. Elements(s.allocatedList) \subseteq Ids
  BY WriteFacts
<1>12. WriteInv(t) /\ i \in Ids
  BY <1>9, <1>10, <1>11 DEF WriteInv, Takes, Only
<1> QED BY <1>8, <1>9, <1>12

(* A writeback that is sent, or dropped for a snoop, gives it back.        *)
LEMMA WriteMarkOK ==
    \A s, i, pd, t :
        /\ WriteInv(s) /\ i \in Elements(s.allocatedList)
        /\ t = MSHRQueue_markInService(s, i, pd)
        => WriteInv(t) /\ Frees(s, t, i)
<1> SUFFICES ASSUME NEW s, NEW i, NEW pd, NEW t,
                    WriteInv(s), i \in Elements(s.allocatedList),
                    t = MSHRQueue_markInService(s, i, pd)
             PROVE  WriteInv(t) /\ Frees(s, t, i)
  OBVIOUS
<1> DEFINE m == s.registers[i]
           x == MSHR_popTarget(m)
<1>1. /\ Base(WriteRegisters, s) /\ Typed(WriteRegisters) /\ i \in Ids
      /\ Elements(s.allocatedList) \subseteq Ids
  BY WriteFacts
<1>2. s \in QueueOf(WriteRegisters) /\ m \in WriteRegisters /\ hasTargets(m)
  BY <1>1, BaseFacts DEF WriteInv
<1> HIDE DEF m
<1>3. /\ m.targets.list \in Seq(WriteTargets) /\ Len(m.targets.list) <= 1
      /\ m.targets.list # <<>> /\ ~m.inService /\ m.deferredTargets = EmptyTargets
      /\ m.inService \in BOOLEAN
  BY <1>2 DEF WriteRegisters, hasTargets
<1>4. /\ Len(m.targets.list) = 1 /\ Head(m.targets.list) \in WriteTargets
      /\ Tail(m.targets.list) = <<>>
  <2> DEFINE l == m.targets.list
  <2>1. l \in Seq(WriteTargets) /\ l # <<>> /\ Len(l) <= 1
    BY <1>3
  <2> HIDE DEF l
  <2>2. Len(l) \in Nat /\ (l = <<>> <=> Len(l) = 0)
    BY <2>1, ListType
  <2>3. Len(l) = 1
    <3>1. \A k \in Nat : k <= 1 /\ k # 0 => k = 1
      OBVIOUS
    <3> QED BY <2>1, <2>2, <3>1
  <2>4. Head(l) = l[1] /\ l[1] \in WriteTargets /\ Tail(l) \in Seq(WriteTargets)
    BY <2>1, TailFacts
  <2>5. Len(Tail(l)) = 0
    BY <2>1, <2>3
  <2>6. Tail(l) = <<>>
    BY <2>4, <2>5, ListType
  <2> QED BY <2>3, <2>4, <2>6 DEF l
<1>5. isForwardNoResponse(m)
  <2>1. Len(EmptyTargets.list) = 0 /\ 1 + 0 = 1
    BY DEF EmptyTargets
  <2>2. Head(m.targets.list).cmd = "Writeback" /\ Head(m.targets.list).source = "FromCPU"
    BY <1>4 DEF WriteTargets
  <2> QED BY <1>3, <1>4, <2>1, <2>2 DEF isForwardNoResponse, getNumTargets, getTarget,
                                        NeedsResponse
<1>6. Check(s, ~m.inService) = s
  BY <1>2, <1>3, CheckFacts
<1>7. t = deallocateOne(Put(s, i, x), i)
  BY <1>5, <1>6 DEF MSHRQueue_markInService, Put, m
<1>8. Done(x, s.registers[i])
  <2>1. x.targets.list = <<>> /\ x.inService = m.inService
        /\ x.deferredTargets = EmptyTargets
    BY <1>2, <1>4 DEF MSHR_popTarget, WriteRegisters
  <2> QED BY <2>1, FreeFacts DEF Done, m
<1> HIDE DEF x
<1>9. Base(WriteRegisters, t) /\ Frees(s, t, i)
  BY <1>1, <1>7, <1>8, BaseDeallocate
<1>10. WriteInv(t)
  BY <1>1, <1>9 DEF WriteInv, Frees, Only
<1> QED BY <1>9, <1>10

(* Time passes.                                                            *)
LEMMA WriteOlder ==
    ASSUME NEW m \in WriteRegisters, NEW r, r = OlderMSHR(m)
    PROVE  /\ r \in WriteRegisters /\ r.inService = m.inService /\ r.blkAddr = m.blkAddr
           /\ r.readyTime = Sooner(m.readyTime)
           /\ hasTargets(m) => hasTargets(r)
<1> DEFINE l == m.targets.list
           n == Len(l)
           f == [k \in DOMAIN l |-> OlderTarget(l[k])]
           x == SoonerAll(m.targets)
           y == SoonerAll(m.deferredTargets)
           z == Sooner(m.readyTime)
<1>1. /\ l \in Seq(WriteTargets) /\ n <= 1 /\ m.deferredTargets = EmptyTargets
      /\ m.readyTime \in Nat
      /\ m.targets \in [list : Seq(WriteTargets), needsExclusive : BOOLEAN,
                        hasUpgrade : {FALSE}]
  BY DEF WriteRegisters
<1>2. n \in Nat /\ DOMAIN l = 1 .. n /\ \A k \in 1 .. n : l[k] \in WriteTargets
  BY <1>1
<1>3. \A t \in WriteTargets : OlderTarget(t) \in WriteTargets
  BY DEF WriteTargets, OlderTarget, Sooner
<1>4. x = [m.targets EXCEPT !.list = f]
  BY DEF SoonerAll
<1>5. y = EmptyTargets
  BY <1>1, FreeFacts, SoonerFacts
<1>6. z \in Nat
  BY <1>1 DEF Sooner
<1>7. r = [m EXCEPT !.readyTime = z, !.targets = x, !.deferredTargets = y]
  BY DEF OlderMSHR
<1>8. l # <<>> <=> n # 0
  BY <1>1
<1> HIDE DEF n, l, x, y, z
<1>9. DOMAIN f = 1 .. n /\ f \in [1 .. n -> WriteTargets]
  BY <1>2, <1>3
<1> HIDE DEF f
<1>10. f \in Seq(WriteTargets) /\ Len(f) = n /\ (f # <<>> <=> n # 0)
  BY <1>2, <1>9
<1>11. x \in [list : Seq(WriteTargets), needsExclusive : BOOLEAN, hasUpgrade : {FALSE}]
       /\ x.list = f
  BY <1>1, <1>4, <1>10
<1>12. /\ r.targets = x /\ r \in WriteRegisters /\ r.inService = m.inService
       /\ r.blkAddr = m.blkAddr /\ r.readyTime = z
  BY <1>1, <1>5, <1>6, <1>7, <1>10, <1>11 DEF WriteRegisters
<1> QED BY <1>8, <1>10, <1>11, <1>12 DEF hasTargets, z, l

WriteAges(s, t) ==
    /\ t.allocatedList = s.allocatedList /\ t.readyList = s.readyList
    /\ t.allocated = s.allocated
    /\ \A j \in Elements(s.allocatedList) :
           /\ t.registers[j].blkAddr = s.registers[j].blkAddr
           /\ t.registers[j].readyTime = Sooner(s.registers[j].readyTime)

LEMMA WriteTickOK ==
    \A s, t : WriteInv(s) /\ t = QueueTick(s) => WriteInv(t) /\ WriteAges(s, t)
<1> SUFFICES ASSUME NEW s, NEW t, WriteInv(s), t = QueueTick(s)
             PROVE  WriteInv(t) /\ WriteAges(s, t)
  OBVIOUS
<1>1. /\ Base(WriteRegisters, s) /\ Typed(WriteRegisters)
      /\ Elements(s.allocatedList) \subseteq Ids
  BY WriteFacts
<1>2. \A m \in WriteRegisters :
          /\ OlderMSHR(m) \in WriteRegisters /\ OlderMSHR(m).inService = m.inService
          /\ OlderMSHR(m).blkAddr = m.blkAddr
          /\ OlderMSHR(m).readyTime = Sooner(m.readyTime)
          /\ hasTargets(m) => hasTargets(OlderMSHR(m))
  BY WriteOlder
<1>3. OlderMSHR(FreeMSHR) = FreeMSHR
  <2>1. FreeMSHR \in Registers(Blocks)
    BY RegistersTyped DEF Typed
  <2> QED BY <2>1, OlderFacts
<1>4. /\ Base(WriteRegisters, t) /\ \A j \in Ids : t.registers[j] = OlderMSHR(s.registers[j])
      /\ t.allocatedList = s.allocatedList /\ t.readyList = s.readyList
      /\ t.allocated = s.allocated
  BY <1>1, <1>2, <1>3, BaseTick
<1>5. \A j \in Elements(s.allocatedList) : s.registers[j] \in WriteRegisters
  BY <1>1, BaseFacts
<1> QED BY <1>1, <1>2, <1>4, <1>5 DEF WriteInv, WriteAges

LEMMA WriteNewOK ==
    \A s : s = NewQueue(NumEntries, Reserve, DemandReserve) =>
        WriteInv(s) /\ Elements(s.allocatedList) = {} /\ s.readyList = <<>> /\ s.allocated = 0
<1> SUFFICES ASSUME NEW s, s = NewQueue(NumEntries, Reserve, DemandReserve)
             PROVE  /\ WriteInv(s) /\ Elements(s.allocatedList) = {} /\ s.readyList = <<>>
                    /\ s.allocated = 0
  OBVIOUS
<1>1. /\ Base(WriteRegisters, s) /\ s.allocatedList = <<>> /\ s.readyList = <<>>
      /\ s.allocated = 0
  BY WriteTyped, BaseNew
<1>2. Elements(s.allocatedList) = {}
  BY <1>1 DEF Elements
<1> QED BY <1>1, <1>2 DEF WriteInv

-----------------------------------------------------------------------------
(* What a cache depends on in its queues: the registers in use, how many,  *)
(* the times at which their requests are ready, and the blocks for which   *)
(* there is only a prefetch.                                               *)
Held(s) == Elements(s.allocatedList)
Times(s) == {s.registers[i].readyTime : i \in Elements(s.readyList)}
Prefetching(s) == {i \in Held(s) : FirstCmd(s.registers[i]) = "HardPFReq"}
Prefetches(s) == {s.registers[i].blkAddr : i \in Prefetching(s)}
Fills(s) == \A i \in Held(s) : ~s.registers[i].isForward /\ s.registers[i].blkAddr \in Addrs
Misses(s, ord) == QueueInv(s, ord) /\ Fills(s)

(* The occupancy, and what may have become of the rest.                    *)
Same(s, t) ==
    /\ t.allocated = s.allocated /\ Held(t) = Held(s)
    /\ Times(t) \subseteq Times(s) /\ Prefetches(t) \subseteq Prefetches(s)
Fewer1(s, t) ==
    /\ s.allocated > 0 /\ t.allocated = s.allocated - 1 /\ Times(t) \subseteq Times(s)
More1(s, t, when) ==
    /\ t.allocated = s.allocated + 1 /\ Held(s) \subseteq Held(t)
    /\ Times(t) \subseteq Times(s) \cup {when}
Sooner1(s, t) ==
    /\ t.allocated = s.allocated /\ Held(t) = Held(s)
    /\ \A x \in Times(t) : \E y \in Times(s) : x = Sooner(y)

LEMMA MissesFacts ==
    \A s, ord : Misses(s, ord) =>
        /\ Base(Registers(Blocks), s) /\ Typed(Registers(Blocks)) /\ QueueInv(s, ord)
        /\ s.allocated \in Nat /\ deferring(s) \in Nat /\ deferring(s) <= s.allocated
        /\ Times(s) \subseteq Nat /\ Held(s) \subseteq Ids /\ 0 \notin Held(s)
        /\ Elements(s.readyList) \subseteq Held(s)
        /\ isFull(s) <=> s.allocated >= NumEntries
        /\ canPrefetch(s) <=> s.allocated + DemandReserve + 1 < NumEntries
        /\ \A i \in Held(s) : s.allocated > 0 /\ s.registers[i].blkAddr \in Addrs
        /\ \A i, j \in Held(s) : i # j => s.allocated > 1
<1> SUFFICES ASSUME NEW s, NEW ord, Misses(s, ord)
             PROVE  /\ Base(Registers(Blocks), s) /\ Typed(Registers(Blocks))
                    /\ QueueInv(s, ord)
                    /\ s.allocated \in Nat /\ deferring(s) \in Nat
                    /\ deferring(s) <= s.allocated
                    /\ Times(s) \subseteq Nat /\ Held(s) \subseteq Ids /\ 0 \notin Held(s)
                    /\ Elements(s.readyList) \subseteq Held(s)
                    /\ isFull(s) <=> s.allocated >= NumEntries
                    /\ canPrefetch(s) <=> s.allocated + DemandReserve + 1 < NumEntries
                    /\ \A i \in Held(s) : s.allocated > 0 /\ s.registers[i].blkAddr \in Addrs
                    /\ \A i, j \in Held(s) : i # j => s.allocated > 1
  OBVIOUS
<1>1. QueueInv(s, ord) /\ Fills(s)
  BY DEF Misses
<1>2. /\ Base(Registers(Blocks), s) /\ Typed(Registers(Blocks))
      /\ Elements(s.readyList) \subseteq Held(s) /\ Held(s) \subseteq Ids
  BY <1>1, InvFacts, RegistersTyped DEF Held
<1>3. s.allocated \in Nat /\ deferring(s) \in Nat /\ deferring(s) <= s.allocated
  BY <1>1, InvFacts, DeferringOK
<1>4. Times(s) \subseteq Nat
  BY <1>2, NextTimes DEF Times
<1>5. 0 \notin Held(s)
  BY <1>2, SizeFacts DEF Ids
<1>6. /\ isFull(s) <=> s.allocated >= NumEntries
      /\ canPrefetch(s) <=> s.allocated + DemandReserve + 1 < NumEntries
  BY <1>2, RoomOK
<1>7. /\ \A i \in Held(s) : s.allocated > 0
      /\ \A i, j \in Held(s) : i # j => s.allocated > 1
  BY <1>2, AllocatedCount DEF Held
<1>8. \A i \in Held(s) : s.registers[i].blkAddr \in Addrs
  BY <1>1 DEF Fills
<1> QED BY <1>1, <1>2, <1>3, <1>4, <1>5, <1>6, <1>7, <1>8

(* The first of the ready list is ready first.                             *)
LEMMA HeadTime ==
    \A R, s : Typed(R) /\ Base(R, s) =>
        /\ s.readyList = <<>> => Times(s) = {}
        /\ s.readyList # <<>> =>
               /\ s.registers[Head(s.readyList)].readyTime \in Times(s)
               /\ \A x \in Times(s) : s.registers[Head(s.readyList)].readyTime <= x
<1> SUFFICES ASSUME NEW R, NEW s, Typed(R), Base(R, s)
             PROVE  /\ s.readyList = <<>> => Times(s) = {}
                    /\ s.readyList # <<>> =>
                         /\ s.registers[Head(s.readyList)].readyTime \in Times(s)
                         /\ \A x \in Times(s) :
                                s.registers[Head(s.readyList)].readyTime <= x
  OBVIOUS
<1>1. /\ s.readyList # <<>> => Head(s.readyList) \in Elements(s.readyList)
      /\ \A j \in Elements(s.readyList) :
             /\ s.readyList # <<>>
             /\ s.registers[Head(s.readyList)].readyTime <= s.registers[j].readyTime
  BY NextOK
<1> QED BY <1>1 DEF Times

LEMMA LaterMisses ==
    \A s, ord : Misses(s, ord) /\ ord \in Nat => Misses(s, ord + 1)
  BY LaterQueueOK DEF Misses

LEMMA MissesNew ==
    \A s : s = NewQueue(NumEntries, Reserve, DemandReserve) =>
        /\ Misses(s, 0) /\ Times(s) = {} /\ Prefetches(s) = {} /\ s.allocated = 0
<1> SUFFICES ASSUME NEW s, s = NewQueue(NumEntries, Reserve, DemandReserve)
             PROVE  /\ Misses(s, 0) /\ Times(s) = {} /\ Prefetches(s) = {}
                    /\ s.allocated = 0
  OBVIOUS
<1>1. /\ QueueInv(s, 0) /\ Elements(s.allocatedList) = {} /\ s.readyList = <<>>
      /\ s.allocated = 0
  BY NewOK
<1>2. Times(s) = {}
  BY <1>1 DEF Times, Elements
<1>3. Held(s) = {}
  BY <1>1 DEF Held
<1>4. Fills(s) /\ Prefetches(s) = {}
  BY <1>3 DEF Fills, Prefetches, Prefetching
<1> QED BY <1>1, <1>2, <1>4 DEF Misses

LEMMA MissesAllocate ==
    \A s, ord, blk, cmd, when, t :
        /\ Misses(s, ord) /\ ord \in Nat /\ s.allocated < N /\ blk \in Addrs
        /\ cmd \in {"ReadReq", "WriteReq", "HardPFReq"} /\ when \in Nat
        /\ findMatch(s, blk) = 0 /\ t = MSHRQueue_allocate(s, blk, cmd, when, ord)
        => /\ Misses(t, ord + 1) /\ More1(s, t, when) /\ deferring(t) <= deferring(s)
           /\ Prefetches(t) \subseteq Prefetches(s) \cup {blk}
           /\ cmd # "HardPFReq" => Prefetches(t) \subseteq Prefetches(s)
           /\ getNextMSHR(s) = 0 /\ getNextMSHR(t) # 0 =>
                 t.registers[getNextMSHR(t)].blkAddr = blk
<1> TAKE s, ord, blk, cmd, when, t
<1> HAVE /\ Misses(s, ord) /\ ord \in Nat /\ s.allocated < N /\ blk \in Addrs
         /\ cmd \in {"ReadReq", "WriteReq", "HardPFReq"} /\ when \in Nat
         /\ findMatch(s, blk) = 0 /\ t = MSHRQueue_allocate(s, blk, cmd, when, ord)
<1>1. /\ Base(Registers(Blocks), s) /\ Typed(Registers(Blocks)) /\ QueueInv(s, ord)
      /\ Held(s) \subseteq Ids /\ Elements(s.readyList) \subseteq Held(s)
  BY MissesFacts
<1>2. \A j \in Elements(s.allocatedList) : s.registers[j].blkAddr # blk
  BY <1>1, FindOK
<1>3. blk \in Blocks /\ cmd \in Commands
  BY DEF Blocks, Commands
<1>4. PICK i \in Ids : \E w : /\ QueueInv(t, ord + 1) /\ Takes(s, t, i, w)
                              /\ Requests(w, blk, cmd, when)
  BY <1>1, <1>2, <1>3, AllocateQueueOK
<1>5. PICK w : /\ QueueInv(t, ord + 1) /\ Takes(s, t, i, w)
               /\ Requests(w, blk, cmd, when)
  BY <1>4
<1>6. /\ Only(s, t, i) /\ t.registers[i] = w /\ i \in Ids \ Held(s)
      /\ Held(t) = Held(s) \cup {i}
      /\ Elements(t.readyList) = Elements(s.readyList) \cup {i}
      /\ t.allocated = s.allocated + 1
  BY <1>5 DEF Takes, Held
<1>7. /\ w.blkAddr = blk /\ w.readyTime = when /\ ~w.isForward /\ ~Defers(w)
      /\ FirstCmd(w) = cmd
  BY <1>5 DEF Requests
<1>8. \A j \in Held(s) : t.registers[j] = s.registers[j]
  BY <1>1, <1>6 DEF Only
<1>9. Fills(t)
  BY <1>6, <1>7, <1>8 DEF Misses, Fills
<1>10. Times(t) \subseteq Times(s) \cup {when}
  BY <1>1, <1>6, <1>7, <1>8 DEF Times
<1>11. Prefetches(t) \subseteq Prefetches(s) \cup {blk}
  BY <1>6, <1>7, <1>8 DEF Prefetches, Prefetching
<1>12. cmd # "HardPFReq" => Prefetches(t) \subseteq Prefetches(s)
  BY <1>6, <1>7, <1>8 DEF Prefetches, Prefetching
<1>13. deferring(t) <= deferring(s)
  BY <1>1, <1>5, <1>7, DeferringKept
<1>14. ASSUME getNextMSHR(s) = 0, getNextMSHR(t) # 0
       PROVE  t.registers[getNextMSHR(t)].blkAddr = blk
  <2>1. Base(Registers(Blocks), t)
    BY <1>5, InvFacts
  <2>2. /\ getNextMSHR(t) \in Elements(t.readyList)
        /\ t.registers[getNextMSHR(t)].readyTime = 0
    BY <1>1, <1>14, <2>1, NextOK, NextTimes
  <2>3. \A j \in Elements(s.readyList) : s.registers[j].readyTime > 0
    BY <1>1, <1>14, NextTimes
  <2>4. getNextMSHR(t) \notin Elements(s.readyList)
    BY <1>1, <1>8, <2>2, <2>3
  <2> QED BY <1>6, <1>7, <2>2, <2>4
<1> QED BY <1>5, <1>6, <1>9, <1>10, <1>11, <1>12, <1>13, <1>14 DEF Misses, More1

(* A register that changes keeps its place.                                *)
LEMMA SamePuts ==
    ASSUME NEW s, NEW ord, NEW ord2, NEW i, NEW t, Misses(s, ord), QueueInv(t, ord2),
           i \in Held(s), Puts(s, t, i, t.registers[i]), Alike(t.registers[i], s.registers[i]),
           Elements(t.readyList) \subseteq Elements(s.readyList),
           i \in Elements(t.readyList) => t.registers[i].readyTime = s.registers[i].readyTime
    PROVE  Misses(t, ord2) /\ Same(s, t)
<1>1. Held(s) \subseteq Ids /\ Elements(s.readyList) \subseteq Held(s)
  BY MissesFacts
<1>2. Held(t) = Held(s) /\ t.allocated = s.allocated
  BY DEF Puts, Held
<1>3. \A j \in Held(s) : /\ Alike(t.registers[j], s.registers[j])
                         /\ j # i => t.registers[j] = s.registers[j]
  BY <1>1 DEF Puts, Only, Alike
<1>4. Fills(t)
  BY <1>2, <1>3 DEF Misses, Fills, Alike
<1>5. Times(t) \subseteq Times(s)
  BY <1>1, <1>3 DEF Times
<1>6. Prefetches(t) \subseteq Prefetches(s)
  BY <1>2, <1>3 DEF Prefetches, Prefetching, Alike
<1> QED BY <1>2, <1>4, <1>5, <1>6 DEF Misses, Same

LEMMA MissesJoin ==
    \A s, ord, i, cmd, when, t :
        /\ Misses(s, ord) /\ ord \in Nat /\ i \in Held(s)
        /\ cmd \in {"ReadReq", "WriteReq"} /\ when \in Nat
        /\ t = Put(s, i, MSHR_allocateTarget(s.registers[i], cmd, when, ord))
        => Misses(t, ord + 1) /\ Same(s, t)
<1> TAKE s, ord, i, cmd, when, t
<1> HAVE /\ Misses(s, ord) /\ ord \in Nat /\ i \in Held(s)
         /\ cmd \in {"ReadReq", "WriteReq"} /\ when \in Nat
         /\ t = Put(s, i, MSHR_allocateTarget(s.registers[i], cmd, when, ord))
<1>1. QueueInv(s, ord) /\ i \in Elements(s.allocatedList) /\ cmd \in CpuCommands
  BY MissesFacts DEF Held, CpuCommands
<1>2. /\ QueueInv(t, ord + 1) /\ Puts(s, t, i, t.registers[i])
      /\ SameReady(s, t) /\ SamePlace(t.registers[i], s.registers[i])
      /\ Alike(t.registers[i], s.registers[i])
  BY <1>1, CoalesceOK
<1> QED BY <1>2, SamePuts DEF SamePlace, SameReady

LEMMA MissesSnoop ==
    \A s, ord, i, cmd, t :
        /\ Misses(s, ord) /\ ord \in Nat /\ i \in Held(s) /\ cmd \in SnoopCommands
        /\ t = Put(s, i, MSHR_handleSnoop(s.registers[i], cmd, ord).mshr)
        => Misses(t, ord + 1) /\ Same(s, t) /\ deferring(t) <= deferring(s)
<1> TAKE s, ord, i, cmd, t
<1> HAVE /\ Misses(s, ord) /\ ord \in Nat /\ i \in Held(s) /\ cmd \in SnoopCommands
         /\ t = Put(s, i, MSHR_handleSnoop(s.registers[i], cmd, ord).mshr)
<1>1. QueueInv(s, ord) /\ i \in Elements(s.allocatedList) /\ i \in Ids
  BY MissesFacts DEF Held
<1>2. /\ QueueInv(t, ord + 1) /\ Puts(s, t, i, t.registers[i])
      /\ SameReady(s, t) /\ SamePlace(t.registers[i], s.registers[i])
      /\ Alike(t.registers[i], s.registers[i])
      /\ Defers(t.registers[i]) <=> Defers(s.registers[i])
  BY <1>1, SnoopOK
<1>3. Misses(t, ord + 1) /\ Same(s, t)
  BY <1>2, SamePuts DEF SamePlace, SameReady
<1> QED BY <1>1, <1>2, <1>3, DeferringKept

LEMMA MissesSend ==
    \A s, ord, i, pd, t :
        /\ Misses(s, ord) /\ ord \in Nat /\ i \in Elements(s.readyList) /\ pd \in BOOLEAN
        /\ t = MSHRQueue_markInService(s, i, pd)
        => Misses(t, ord) /\ Same(s, t) /\ deferring(t) <= deferring(s)
<1> SUFFICES ASSUME NEW s, NEW ord, NEW i, NEW pd, NEW t,
                    Misses(s, ord), ord \in Nat, i \in Elements(s.readyList), pd \in BOOLEAN,
                    t = MSHRQueue_markInService(s, i, pd)
             PROVE  Misses(t, ord) /\ Same(s, t) /\ deferring(t) <= deferring(s)
  BY Zenon
<1>1. QueueInv(s, ord) /\ i \in Held(s) /\ i \in Ids
  BY MissesFacts
<1>2. ~s.registers[i].isForward
  BY <1>1 DEF Misses, Fills
<1>3. /\ QueueInv(t, ord) /\ Starts(s, t, i, t.registers[i])
      /\ Alike(t.registers[i], s.registers[i])
      /\ Defers(t.registers[i]) <=> Defers(s.registers[i])
  BY <1>1, <1>2, SendOK
<1>4. Puts(s, t, i, t.registers[i]) /\ Elements(t.readyList) = Elements(s.readyList) \ {i}
  BY <1>3 DEF Starts
<1>5. Misses(t, ord) /\ Same(s, t)
  BY <1>1, <1>3, <1>4, SamePuts
<1> QED BY <1>1, <1>3, <1>4, <1>5, DeferringKept

(* The response of a register in service.  Its block is then filled, so it *)
(* must not be one of those for which there is only a prefetch.            *)
(* The targets are served: the MSHR asks again for the deferred ones, or   *)
(* is given back.                                                          *)
Responds(s, i, shared, f, t) == f = Filled(s, i, TRUE, shared) /\ t = Answered(f, i)
Served(s, f, t, i) ==
    /\ Prefetches(t) \subseteq Prefetches(s) \ {s.registers[i].blkAddr}
    /\ Defers(f.registers[i]) =>
          /\ t.allocated = s.allocated /\ Held(t) = Held(s)
          /\ deferring(t) + 1 <= deferring(s)
    /\ ~Defers(f.registers[i]) =>
          /\ Fewer1(s, t) /\ Held(t) = Held(s) \ {i} /\ deferring(t) <= deferring(s)

LEMMA MissesRespond ==
    \A s, ord, i, shared, f, t :
        /\ Misses(s, ord) /\ ord \in Nat /\ i \in Ids /\ s.registers[i].inService
        /\ shared \in BOOLEAN /\ Responds(s, i, shared, f, t)
        => Misses(t, ord) /\ i \in Held(s) /\ Served(s, f, t, i)
<1> TAKE s, ord, i, shared, f, t
<1> HAVE /\ Misses(s, ord) /\ ord \in Nat /\ i \in Ids /\ s.registers[i].inService
         /\ shared \in BOOLEAN /\ Responds(s, i, shared, f, t)
<1> DEFINE yes == TRUE
           a == s.registers[i].blkAddr
<1>0. f = Filled(s, i, yes, shared) /\ t = Answered(f, i)
  BY DEF Responds
<1>1. /\ QueueInv(s, ord) /\ Base(Registers(Blocks), s) /\ Held(s) \subseteq Ids
      /\ Elements(s.readyList) \subseteq Held(s) /\ Contents(s, ord)
  BY MissesFacts, InvFacts
<1>2. i \in Held(s)
  <2>1. ~FreeMSHR.inService
    BY DEF FreeMSHR
  <2>2. i \in Elements(s.freeList) => s.registers[i] = FreeMSHR
    BY <1>1 DEF Base, Clean
  <2>3. i \in Elements(s.freeList) <=> i \notin Elements(s.allocatedList)
    BY <1>1 DEF Base, Lists
  <2> QED BY <2>1, <2>2, <2>3 DEF Held
<1>3. yes \in BOOLEAN /\ ~s.registers[i].isForward
  BY <1>2 DEF Misses, Fills
<1> HIDE DEF yes
<1>4. /\ QueueInv(t, ord)
      /\ Defers(f.registers[i]) =>
            /\ Restarts(s, t, i, t.registers[i]) /\ Defers(s.registers[i])
            /\ Again(t.registers[i], s.registers[i])
      /\ ~Defers(f.registers[i]) => Frees(s, t, i)
  BY <1>0, <1>1, <1>2, <1>3, RespondOK DEF Held
<1>5. \A j \in Held(s) : j # i => s.registers[j].blkAddr # a
  BY <1>1, <1>2 DEF Contents, Held
<1> HIDE DEF a
<1>6. CASE Defers(f.registers[i])
  <2>1. /\ Only(s, t, i) /\ t.allocated = s.allocated /\ Held(t) = Held(s)
        /\ t.registers[i].blkAddr = a /\ t.registers[i].isForward = s.registers[i].isForward
        /\ FirstCmd(t.registers[i]) # "HardPFReq" /\ ~Defers(t.registers[i])
    BY <1>4, <1>6 DEF Restarts, Puts, Held, Again, a
  <2>2. \A j \in Held(s) : j # i => t.registers[j] = s.registers[j]
    BY <1>1, <2>1 DEF Only
  <2>3. Fills(t)
    BY <2>1, <2>2 DEF Fills, Misses, a
  <2>4. Prefetches(t) \subseteq Prefetches(s) \ {a}
    <3>1. \A j \in Prefetching(t) : j \in Held(s) /\ j # i
      BY <2>1 DEF Prefetching
    <3>2. \A j \in Prefetching(t) : j \in Prefetching(s) /\ t.registers[j] = s.registers[j]
      BY <2>2, <3>1 DEF Prefetching
    <3>3. \A j \in Prefetching(t) : t.registers[j].blkAddr # a
      BY <1>5, <3>1, <3>2
    <3>4. \A j \in Prefetching(t) : t.registers[j].blkAddr \in Prefetches(s)
      BY <3>2 DEF Prefetches
    <3>5. \A x \in Prefetches(t) : \E j \in Prefetching(t) : x = t.registers[j].blkAddr
      BY DEF Prefetches
    <3> QED BY ONLY <3>3, <3>4, <3>5, Zenon
  <2>5. deferring(t) + 1 <= deferring(s)
    BY <1>1, <1>2, <1>4, <1>6, <2>1, DeferringRestarts DEF Held
  <2> QED BY <1>2, <1>4, <1>6, <2>1, <2>3, <2>4, <2>5 DEF Misses, Served, a
<1>7. CASE ~Defers(f.registers[i])
  <2>1. /\ Frees(s, t, i) /\ Only(s, t, i) /\ s.allocated > 0 /\ t.allocated = s.allocated - 1
        /\ Held(t) = Held(s) \ {i} /\ Elements(t.readyList) = Elements(s.readyList) \ {i}
    BY <1>4, <1>7 DEF Frees, Held
  <2>2. \A j \in Held(s) : j # i => t.registers[j] = s.registers[j]
    BY <1>1, <2>1 DEF Only
  <2>3. Fills(t)
    BY <2>1, <2>2 DEF Fills, Misses
  <2>4. Prefetches(t) \subseteq Prefetches(s) \ {a}
    <3>1. \A j \in Prefetching(t) : j \in Held(s) /\ j # i
      BY <2>1 DEF Prefetching
    <3>2. \A j \in Prefetching(t) : j \in Prefetching(s) /\ t.registers[j] = s.registers[j]
      BY <2>2, <3>1 DEF Prefetching
    <3>3. \A j \in Prefetching(t) : t.registers[j].blkAddr # a
      BY <1>5, <3>1, <3>2
    <3>4. \A j \in Prefetching(t) : t.registers[j].blkAddr \in Prefetches(s)
      BY <3>2 DEF Prefetches
    <3>5. \A x \in Prefetches(t) : \E j \in Prefetching(t) : x = t.registers[j].blkAddr
      BY DEF Prefetches
    <3> QED BY ONLY <3>3, <3>4, <3>5, Zenon
  <2>5. deferring(t) <= deferring(s)
    BY <1>1, <2>1, DeferringKept
  <2>6. Times(t) \subseteq Times(s)
    BY <1>1, <2>1, <2>2 DEF Times
  <2> QED BY <1>2, <1>4, <1>7, <2>1, <2>3, <2>4, <2>5, <2>6 DEF Misses, Served, Fewer1, a
<1> QED BY <1>6, <1>7

LEMMA MissesTick ==
    \A s, ord, t : Misses(s, ord) /\ t = QueueTick(s) =>
        /\ Misses(t, ord) /\ Sooner1(s, t) /\ deferring(t) <= deferring(s)
        /\ Prefetches(t) \subseteq Prefetches(s)
<1> SUFFICES ASSUME NEW s, NEW ord, NEW t, Misses(s, ord), t = QueueTick(s)
             PROVE  /\ Misses(t, ord) /\ Sooner1(s, t) /\ deferring(t) <= deferring(s)
                    /\ Prefetches(t) \subseteq Prefetches(s)
  OBVIOUS
<1>1. /\ QueueInv(s, ord) /\ Elements(s.readyList) \subseteq Held(s)
  BY MissesFacts
<1>2. QueueInv(t, ord) /\ Ages(s, t)
  BY <1>1, TickOK
<1>3. /\ t.allocated = s.allocated /\ Held(t) = Held(s)
      /\ Elements(t.readyList) = Elements(s.readyList)
      /\ \A j \in Held(s) : Aged(t.registers[j], s.registers[j])
  BY <1>2 DEF Ages, Held
<1>4. Fills(t)
  BY <1>3 DEF Fills, Misses, Aged, Alike
<1>5. Prefetches(t) \subseteq Prefetches(s)
  BY <1>3 DEF Prefetches, Prefetching, Aged, Alike
<1>6. \A x \in Times(t) : \E y \in Times(s) : x = Sooner(y)
  BY <1>1, <1>3 DEF Times, Aged
<1>7. deferring(t) <= deferring(s)
  BY <1>1, <1>2, DeferringKept
<1> QED BY <1>2, <1>3, <1>4, <1>5, <1>6, <1>7 DEF Misses, Sooner1

-----------------------------------------------------------------------------
(* A block whose status bits are x, of which the bus has answered e and    *)
(* for which n snoops were promised an answer, as its register has it.     *)
Settled(x) == x = {} \/ ("Valid" \in x /\ "Readable" \in x)
BlockOK(s, a, x, e, n) ==
    /\ \A i \in Held(s) : s.registers[i].blkAddr = a => Tracks(s.registers[i], x, e, n)
    /\ (\A i \in Held(s) : s.registers[i].blkAddr # a) => n = 0 /\ Settled(x)

(* One register changes, is taken or given back: the other blocks.         *)
OnlyRegister(s, t, i) ==
    /\ Held(s) \subseteq Ids /\ Held(t) \subseteq Ids /\ Only(s, t, i)
    /\ \A j : j # i => (j \in Held(t) <=> j \in Held(s))

LEMMA OtherBlock ==
    ASSUME NEW s, NEW t, NEW i, OnlyRegister(s, t, i), NEW a,
           i \in Held(s) => s.registers[i].blkAddr # a,
           i \in Held(t) => t.registers[i].blkAddr # a,
           NEW x, NEW e, NEW n, BlockOK(s, a, x, e, n)
    PROVE  BlockOK(t, a, x, e, n)
<1>1. \A j \in Held(t) : t.registers[j].blkAddr = a =>
          j \in Held(s) /\ t.registers[j] = s.registers[j]
  BY DEF OnlyRegister, Only
<1>2. \A j \in Held(s) : s.registers[j].blkAddr = a =>
          j \in Held(t) /\ t.registers[j] = s.registers[j]
  BY DEF OnlyRegister, Only
<1> QED BY <1>1, <1>2 DEF BlockOK

(* Its own block.                                                          *)
LEMMA OwnBlock ==
    ASSUME NEW t, NEW ord, Misses(t, ord), NEW i \in Held(t), NEW x, NEW e, NEW n,
           Tracks(t.registers[i], x, e, n)
    PROVE  BlockOK(t, t.registers[i].blkAddr, x, e, n)
<1>1. \A j \in Held(t) : t.registers[j].blkAddr = t.registers[i].blkAddr => j = i
  BY DEF Misses, QueueInv, Contents, Held
<1> QED BY <1>1 DEF BlockOK

(* A register in use is well formed.                                       *)
LEMMA HeldFacts ==
    ASSUME NEW s, NEW ord, Misses(s, ord), NEW i \in Held(s)
    PROVE  /\ s.registers[i] \in Registers(Blocks) /\ RegisterOK(s.registers[i], ord)
           /\ ~s.registers[i].isForward /\ i \in Ids
           /\ \A x, e, n : BlockOK(s, s.registers[i].blkAddr, x, e, n)
                              => Tracks(s.registers[i], x, e, n)
  BY InvFacts DEF Misses, Held, Fills, BlockOK

LEMMA NewTracks ==
    \A s : s = NewQueue(NumEntries, Reserve, DemandReserve) =>
        \A a, e : BlockOK(s, a, {}, e, 0)
<1> SUFFICES ASSUME NEW s, s = NewQueue(NumEntries, Reserve, DemandReserve), NEW a, NEW e
             PROVE  BlockOK(s, a, {}, e, 0)
  OBVIOUS
<1>1. Held(s) = {}
  BY NewOK DEF Held
<1> QED BY <1>1 DEF BlockOK, Settled

LEMMA AllocateTracks ==
    \A s, ord, blk, cmd, when, t :
        /\ Misses(s, ord) /\ ord \in Nat /\ s.allocated < N /\ blk \in Addrs
        /\ cmd \in {"ReadReq", "WriteReq", "HardPFReq"} /\ when \in Nat
        /\ findMatch(s, blk) = 0 /\ t = MSHRQueue_allocate(s, blk, cmd, when, ord)
        => /\ \A a, x, e, n : a # blk /\ BlockOK(s, a, x, e, n) => BlockOK(t, a, x, e, n)
           /\ \A x, e : /\ "Readable" \notin x
                        /\ x # {} => cmd = "WriteReq"
                        /\ cmd = "WriteReq" => "Writable" \notin x
                        => BlockOK(t, blk, x, e, 0)
<1> TAKE s, ord, blk, cmd, when, t
<1> HAVE /\ Misses(s, ord) /\ ord \in Nat /\ s.allocated < N /\ blk \in Addrs
         /\ cmd \in {"ReadReq", "WriteReq", "HardPFReq"} /\ when \in Nat
         /\ findMatch(s, blk) = 0 /\ t = MSHRQueue_allocate(s, blk, cmd, when, ord)
<1>1. /\ Base(Registers(Blocks), s) /\ QueueInv(s, ord) /\ Held(s) \subseteq Ids
      /\ Misses(t, ord + 1)
  <2>1. Misses(t, ord + 1)
    BY MissesAllocate
  <2> QED BY <2>1, MissesFacts
<1>2. \A j \in Elements(s.allocatedList) : s.registers[j].blkAddr # blk
  BY <1>1, FindOK
<1>3. blk \in Blocks /\ cmd \in Commands
  BY DEF Blocks, Commands
<1>4. PICK i \in Ids : \E w : /\ Takes(s, t, i, w) /\ Requests(w, blk, cmd, when)
                              /\ w = MSHR_allocate(blk, cmd, when, ord)
  BY <1>1, <1>2, <1>3, AllocateQueueOK
<1>5. PICK w : /\ Takes(s, t, i, w) /\ Requests(w, blk, cmd, when)
               /\ w = MSHR_allocate(blk, cmd, when, ord)
  BY <1>4
<1>6. /\ OnlyRegister(s, t, i) /\ i \in Held(t) /\ i \notin Held(s)
      /\ t.registers[i] = w /\ w.blkAddr = blk
  BY <1>1, <1>5 DEF OnlyRegister, Takes, Held, Requests
<1>7. \A a, x, e, n : a # blk /\ BlockOK(s, a, x, e, n) => BlockOK(t, a, x, e, n)
  BY <1>6, OtherBlock
<1>8. ASSUME NEW x, NEW e, "Readable" \notin x, x # {} => cmd = "WriteReq",
             cmd = "WriteReq" => "Writable" \notin x
      PROVE  BlockOK(t, blk, x, e, 0)
  <2>1. Tracks(w, x, e, 0)
    BY <1>3, <1>5, <1>8, TrackAllocate
  <2>2. Tracks(t.registers[i], x, e, 0) /\ t.registers[i].blkAddr = blk
    BY <1>6, <2>1
  <2> QED BY <1>1, <1>6, <2>2, OwnBlock
<1> QED BY <1>7, <1>8

(* A request joins the register of its block.                              *)
Missed(cmd, x) == cmd = "WriteReq" => "Writable" \notin x
Joins(s, t, i, cmd) ==
    \A a, x, e, n : /\ BlockOK(s, a, x, e, n)
                    /\ a = s.registers[i].blkAddr => Missed(cmd, x)
                    => BlockOK(t, a, x, e, n)

LEMMA JoinTracks ==
    \A s, ord, i, cmd, when, t :
        /\ Misses(s, ord) /\ ord \in Nat /\ i \in Held(s)
        /\ cmd \in {"ReadReq", "WriteReq"} /\ when \in Nat
        /\ t = Put(s, i, MSHR_allocateTarget(s.registers[i], cmd, when, ord))
        => Joins(s, t, i, cmd)
<1> TAKE s, ord, i, cmd, when, t
<1> HAVE /\ Misses(s, ord) /\ ord \in Nat /\ i \in Held(s)
         /\ cmd \in {"ReadReq", "WriteReq"} /\ when \in Nat
         /\ t = Put(s, i, MSHR_allocateTarget(s.registers[i], cmd, when, ord))
<1> DEFINE m == s.registers[i]
           w == MSHR_allocateTarget(m, cmd, when, ord)
<1>1. Misses(t, ord + 1)
  BY MissesJoin
<1>2. i \in Ids /\ Held(s) \subseteq Ids /\ s \in QueueOf(Registers(Blocks))
  BY MissesFacts, BaseFacts
<1>3. Held(t) = Held(s) /\ Only(s, t, i) /\ t.registers[i] = w
  BY <1>2 DEF Put, QueueOf, Held, Only
<1>4. /\ m \in Registers(Blocks) /\ RegisterOK(m, ord) /\ ~m.isForward
      /\ \A x, e, n : BlockOK(s, m.blkAddr, x, e, n) => Tracks(m, x, e, n)
  BY HeldFacts
<1>5. w.blkAddr = m.blkAddr
  <2>1. QueueInv(s, ord) /\ i \in Elements(s.allocatedList) /\ cmd \in CpuCommands
    BY MissesFacts DEF Held, CpuCommands
  <2>2. Alike(t.registers[i], s.registers[i])
    BY <2>1, CoalesceOK
  <2> QED BY <1>3, <2>2 DEF Alike
<1>6. SUFFICES ASSUME NEW a, NEW x, NEW e, NEW n, BlockOK(s, a, x, e, n),
                      a = m.blkAddr => Missed(cmd, x)
               PROVE  BlockOK(t, a, x, e, n)
  BY DEF Joins
<1> HIDE DEF m, w
<1>7. OnlyRegister(s, t, i)
  BY <1>2, <1>3 DEF OnlyRegister
<1>8. CASE a = m.blkAddr
  <2>1. Tracks(m, x, e, n)
    BY <1>4, <1>6, <1>8
  <2>2. w = MSHR_allocateTarget(m, cmd, when, ord) /\ (cmd = "WriteReq" => "Writable" \notin x)
    BY <1>6, <1>8 DEF w, Missed
  <2>3. Tracks(w, x, e, n)
    BY <1>4, <2>1, <2>2, TrackJoin
  <2>4. Tracks(t.registers[i], x, e, n) /\ t.registers[i].blkAddr = a /\ i \in Held(t)
    BY <1>3, <1>5, <1>8, <2>3
  <2> QED BY <1>1, <2>4, OwnBlock
<1>9. CASE a # m.blkAddr
  <2>1. s.registers[i].blkAddr # a /\ t.registers[i].blkAddr # a
    BY <1>3, <1>5, <1>9 DEF m
  <2> QED BY <1>6, <1>7, <2>1, OtherBlock
<1> QED BY <1>8, <1>9

(* A snoop meets the register of its block, which may promise an answer.   *)
LEMMA SnoopTracks ==
    \A s, ord, i, cmd, h, t :
        /\ Misses(s, ord) /\ ord \in Nat /\ i \in Held(s) /\ cmd \in SnoopCommands
        /\ h = MSHR_handleSnoop(s.registers[i], cmd, ord) /\ t = Put(s, i, h.mshr)
        => /\ \A a, x, e, n : a # s.registers[i].blkAddr /\ BlockOK(s, a, x, e, n)
                                  => BlockOK(t, a, x, e, n)
           /\ \A x, e, n : BlockOK(s, s.registers[i].blkAddr, x, e, n)
                  => BlockOK(t, s.registers[i].blkAddr, x, e,
                             IF h.memInhibit THEN n + 1 ELSE n)
<1> TAKE s, ord, i, cmd, h, t
<1> HAVE /\ Misses(s, ord) /\ ord \in Nat /\ i \in Held(s) /\ cmd \in SnoopCommands
         /\ h = MSHR_handleSnoop(s.registers[i], cmd, ord) /\ t = Put(s, i, h.mshr)
<1> DEFINE m == s.registers[i]
           w == h.mshr
<1>1. Misses(t, ord + 1)
  BY MissesSnoop
<1>2. i \in Ids /\ Held(s) \subseteq Ids /\ s \in QueueOf(Registers(Blocks))
  BY MissesFacts, BaseFacts
<1>3. Held(t) = Held(s) /\ Only(s, t, i) /\ t.registers[i] = w
  BY <1>2 DEF Put, QueueOf, Held, Only
<1>4. /\ m \in Registers(Blocks) /\ RegisterOK(m, ord)
      /\ \A x, e, n : BlockOK(s, m.blkAddr, x, e, n) => Tracks(m, x, e, n)
  BY HeldFacts
<1>5. w.blkAddr = m.blkAddr
  <2>1. QueueInv(s, ord) /\ i \in Elements(s.allocatedList)
    BY MissesFacts DEF Held
  <2>2. Alike(t.registers[i], s.registers[i])
    BY <2>1, SnoopOK
  <2> QED BY <1>3, <2>2 DEF Alike
<1>6. h = MSHR_handleSnoop(m, cmd, ord) /\ cmd \in {"ReadReq", "ReadExReq", "UpgradeReq"}
  BY DEF SnoopCommands
<1>7. OnlyRegister(s, t, i)
  BY <1>2, <1>3 DEF OnlyRegister
<1>8. \A x, e, n : Tracks(m, x, e, n) => Tracks(w, x, e, IF h.memInhibit THEN n + 1 ELSE n)
  BY <1>4, <1>6, TrackSnoop
<1>9. ASSUME NEW a, NEW x, NEW e, NEW n, a # m.blkAddr, BlockOK(s, a, x, e, n)
      PROVE  BlockOK(t, a, x, e, n)
  <2>1. s.registers[i].blkAddr # a /\ t.registers[i].blkAddr # a
    BY <1>3, <1>5, <1>9
  <2> QED BY <1>7, <1>9, <2>1, OtherBlock
<1>10. ASSUME NEW x, NEW e, NEW n, BlockOK(s, m.blkAddr, x, e, n)
       PROVE  BlockOK(t, m.blkAddr, x, e, IF h.memInhibit THEN n + 1 ELSE n)
  <2> DEFINE k == IF h.memInhibit THEN n + 1 ELSE n
  <2>1. Tracks(w, x, e, k)
    BY <1>4, <1>8, <1>10
  <2> HIDE DEF k, m, w
  <2>2. Tracks(t.registers[i], x, e, k) /\ t.registers[i].blkAddr = m.blkAddr /\ i \in Held(t)
    BY <1>3, <1>5, <2>1
  <2>3. BlockOK(t, m.blkAddr, x, e, k)
    BY <1>1, <2>2, OwnBlock
  <2> QED BY <2>3 DEF k, m
<1> QED BY <1>9, <1>10

(* The request of a register is sent: the bus knows what it will answer.   *)
LEMMA SendTracks ==
    \A s, ord, i, ans, t :
        /\ Misses(s, ord) /\ ord \in Nat /\ i \in Elements(s.readyList)
        /\ ans \in {"Exclusive", "Dirty", "Shared"}
        /\ s.registers[i].targets.needsExclusive => ans # "Shared"
        /\ t = MSHRQueue_markInService(s, i, ans = "Dirty")
        => /\ \A a, x, e, n : a # s.registers[i].blkAddr /\ BlockOK(s, a, x, e, n)
                                  => BlockOK(t, a, x, e, n)
           /\ \A x, e, n : BlockOK(s, s.registers[i].blkAddr, x, e, n) =>
                 /\ BlockOK(t, s.registers[i].blkAddr, x, ans, n)
                 /\ x # {} => s.registers[i].targets.needsExclusive /\ "Writable" \notin x
<1> TAKE s, ord, i, ans, t
<1> HAVE /\ Misses(s, ord) /\ ord \in Nat /\ i \in Elements(s.readyList)
         /\ ans \in {"Exclusive", "Dirty", "Shared"}
         /\ s.registers[i].targets.needsExclusive => ans # "Shared"
         /\ t = MSHRQueue_markInService(s, i, ans = "Dirty")
<1> DEFINE m == s.registers[i]
           pd == ans = "Dirty"
<1>1. pd \in BOOLEAN /\ t = MSHRQueue_markInService(s, i, pd)
  OBVIOUS
<1>2. /\ i \in Ids /\ Held(s) \subseteq Ids /\ Base(Registers(Blocks), s) /\ i \in Held(s)
      /\ QueueInv(s, ord)
  BY MissesFacts
<1>3. /\ m \in Registers(Blocks) /\ RegisterOK(m, ord) /\ ~m.isForward
      /\ \A x, e, n : BlockOK(s, m.blkAddr, x, e, n) => Tracks(m, x, e, n)
  BY <1>2, HeldFacts
<1>4. ~m.inService
  BY <1>2, RegistersTyped, NextOK
<1> HIDE DEF pd
<1>5. Misses(t, ord)
  BY ONLY <1>1, Misses(s, ord), ord \in Nat, i \in Elements(s.readyList), MissesSend
<1>6. /\ Starts(s, t, i, t.registers[i]) /\ Alike(t.registers[i], m)
      /\ t.registers[i] = MSHR_markInService(m, pd)
  <2>1. ~s.registers[i].isForward
    BY <1>3
  <2>2. /\ QueueInv(t, ord) /\ Starts(s, t, i, t.registers[i])
        /\ t.registers[i].inService /\ Alike(t.registers[i], s.registers[i])
        /\ Defers(t.registers[i]) <=> Defers(s.registers[i])
        /\ Sent(t.registers[i], s.registers[i], pd)
    BY ONLY <1>1, <1>2, <2>1, ord \in Nat, i \in Elements(s.readyList), SendOK
  <2> QED BY <2>2 DEF Sent
<1>7. /\ Held(t) = Held(s) /\ OnlyRegister(s, t, i) /\ t.registers[i].blkAddr = m.blkAddr
  BY <1>2, <1>6 DEF Starts, Puts, OnlyRegister, Held, Alike
<1> DEFINE w == t.registers[i]
<1>8. \A x, e, n : Tracks(m, x, e, n) => Tracks(w, x, ans, n)
  <2>1. w = MSHR_markInService(m, ans = "Dirty") /\ (m.targets.needsExclusive => ans # "Shared")
    BY <1>6 DEF pd
  <2> HIDE DEF w, m
  <2> QED BY <1>3, <1>4, <2>1, TrackMark
<1>9. ASSUME NEW a, NEW x, NEW e, NEW n, a # m.blkAddr, BlockOK(s, a, x, e, n)
      PROVE  BlockOK(t, a, x, e, n)
  <2>1. s.registers[i].blkAddr # a /\ t.registers[i].blkAddr # a
    BY <1>7, <1>9
  <2> QED BY <1>7, <1>9, <2>1, OtherBlock
<1>10. ASSUME NEW x, NEW e, NEW n, BlockOK(s, m.blkAddr, x, e, n)
       PROVE  /\ BlockOK(t, m.blkAddr, x, ans, n)
              /\ x # {} => m.targets.needsExclusive /\ "Writable" \notin x
  <2>1. Tracks(m, x, e, n)
    BY <1>3, <1>10
  <2>2. Tracks(t.registers[i], x, ans, n) /\ i \in Held(t) /\ t.registers[i].blkAddr = m.blkAddr
    BY <1>2, <1>7, <1>8, <2>1
  <2>3. BlockOK(t, m.blkAddr, x, ans, n)
    BY <1>5, <2>2, OwnBlock
  <2>4. x # {} => m.targets.needsExclusive /\ "Writable" \notin x
    BY <2>1 DEF Tracks, OutOfSight, WellAsked, CountsStores
  <2> QED BY <2>3, <2>4
<1> QED BY <1>9, <1>10

(* The response: what its targets are, and what may be left of the block   *)
(* once they have been served.                                             *)
LeavesOf(f, m, x, e, v) ==
    /\ m.postInvalidate => v = {}
    /\ m.postDowngrade => "Writable" \notin v
    /\ "Writable" \in v => "Writable" \in x \/ e # "Shared"
    /\ IF Defers(f) THEN "Readable" \notin v ELSE Settled(v)

AnswersTo(s, t, f, i, e) ==
    /\ \A a, x, d, n : a # s.registers[i].blkAddr /\ BlockOK(s, a, x, d, n)
                           => BlockOK(t, a, x, d, n)
    /\ \A x, n : BlockOK(s, s.registers[i].blkAddr, x, e, n) =>
          /\ Servable(f.registers[i].targets.list, s.registers[i], x, e)
          /\ f.registers[i].postInvalidate = s.registers[i].postInvalidate
          /\ f.registers[i].postDowngrade = s.registers[i].postDowngrade
          /\ n = SavedIn(s.registers[i])
          /\ \A v : LeavesOf(f.registers[i], s.registers[i], x, e, v)
                 => BlockOK(t, s.registers[i].blkAddr, v, "none", 0)

LEMMA RespondTracks ==
    \A s, ord, i, e, f, t :
        /\ Misses(s, ord) /\ ord \in Nat /\ i \in Ids /\ s.registers[i].inService
        /\ Responds(s, i, e = "Shared", f, t)
        => AnswersTo(s, t, f, i, e)
<1> TAKE s, ord, i, e, f, t
<1> HAVE /\ Misses(s, ord) /\ ord \in Nat /\ i \in Ids /\ s.registers[i].inService
         /\ Responds(s, i, e = "Shared", f, t)
<1> DEFINE yes == TRUE
           shared == e = "Shared"
           m == s.registers[i]
           g == f.registers[i]
<1>0. /\ yes \in BOOLEAN /\ shared \in BOOLEAN /\ f = Filled(s, i, yes, shared)
      /\ t = Answered(f, i) /\ Responds(s, i, shared, f, t) /\ yes
  BY DEF Responds
<1> HIDE DEF yes, shared
<1>1. Misses(t, ord) /\ i \in Held(s)
  BY ONLY <1>0, Misses(s, ord), ord \in Nat, i \in Ids, s.registers[i].inService, MissesRespond
<1>2. QueueInv(s, ord) /\ Held(s) \subseteq Ids
  BY MissesFacts
<1>3. /\ m \in Registers(Blocks) /\ RegisterOK(m, ord) /\ ~m.isForward
      /\ \A x, d, n : BlockOK(s, m.blkAddr, x, d, n) => Tracks(m, x, d, n)
      /\ \A j \in Held(s) : s.registers[j].blkAddr = m.blkAddr => j = i
  BY <1>1, HeldFacts DEF Misses, QueueInv, Contents, Held
<1>4. /\ Defers(g) =>
            /\ Restarts(s, t, i, t.registers[i]) /\ Defers(s.registers[i])
            /\ Again(t.registers[i], s.registers[i])
            /\ t.registers[i] = Resumed(Emptied(g))
      /\ ~Defers(g) => Frees(s, t, i)
      /\ FilledAs(g, s.registers[i], yes, shared)
  <2>1. ~s.registers[i].isForward /\ i \in Elements(s.allocatedList)
    BY <1>1, <1>3 DEF Held
  <2>2. /\ QueueInv(t, ord)
        /\ Defers(f.registers[i]) =>
              /\ Restarts(s, t, i, t.registers[i]) /\ Defers(s.registers[i])
              /\ Again(t.registers[i], s.registers[i])
              /\ Reused(t.registers[i], f.registers[i])
        /\ ~Defers(f.registers[i]) => Frees(s, t, i)
        /\ FilledAs(f.registers[i], s.registers[i], yes, shared)
    BY ONLY <1>0, <1>2, <2>1, ord \in Nat, s.registers[i].inService, RespondOK,
            Zenon
  <2> QED BY <2>2 DEF Reused
<1>5. g = MSHR_handleFill(m, e = "Shared")
  BY <1>0, <1>4 DEF FilledAs, shared
<1>6. /\ OnlyRegister(s, t, i)
      /\ Defers(g) => Held(t) = Held(s) /\ t.registers[i].blkAddr = m.blkAddr
      /\ ~Defers(g) => Held(t) = Held(s) \ {i}
  <2>1. CASE Defers(g)
    BY <1>2, <1>4, <2>1 DEF Restarts, Puts, OnlyRegister, Held, Again
  <2>2. CASE ~Defers(g)
    BY <1>2, <1>4, <2>2 DEF Frees, OnlyRegister, Held
  <2> QED BY <2>1, <2>2
<1> HIDE DEF g
<1>7. ASSUME NEW a, NEW x, NEW d, NEW n, a # m.blkAddr, BlockOK(s, a, x, d, n)
      PROVE  BlockOK(t, a, x, d, n)
  <2>1. s.registers[i].blkAddr # a /\ (i \in Held(t) => t.registers[i].blkAddr # a)
    BY <1>6, <1>7
  <2> QED BY <1>6, <1>7, <2>1, OtherBlock
<1>8. ASSUME NEW x, NEW n, BlockOK(s, m.blkAddr, x, e, n)
      PROVE  /\ Servable(g.targets.list, m, x, e)
             /\ g.postInvalidate = m.postInvalidate /\ g.postDowngrade = m.postDowngrade
             /\ n = SavedIn(m)
             /\ \A v : LeavesOf(g, m, x, e, v) => BlockOK(t, m.blkAddr, v, "none", 0)
  <2>0. m.inService
    OBVIOUS
  <2> HIDE DEF m
  <2>1. Tracks(m, x, e, n)
    BY <1>3, <1>8
  <2>2. /\ Servable(g.targets.list, m, x, e)
        /\ g.postInvalidate = m.postInvalidate /\ g.postDowngrade = m.postDowngrade
    BY <1>3, <1>5, <2>0, <2>1, TrackFill
  <2>3. n = SavedIn(m)
    BY <2>1 DEF Tracks
  <2>4. ASSUME NEW v, LeavesOf(g, m, x, e, v)
        PROVE  BlockOK(t, m.blkAddr, v, "none", 0)
    <3>1. CASE Defers(g)
      <4> DEFINE w == t.registers[i]
      <4>1. /\ w = Resumed(Emptied(g)) /\ g.deferredTargets.list # <<>>
            /\ "Readable" \notin v /\ (m.postInvalidate => v = {})
            /\ m.postDowngrade => "Writable" \notin v
            /\ "Writable" \in v => "Writable" \in x \/ e # "Shared"
        BY <1>4, <2>4, <3>1 DEF LeavesOf, Defers
      <4> HIDE DEF w
      <4>2. Tracks(w, v, "none", 0)
        BY <1>3, <1>5, <2>0, <2>1, <4>1, TrackResume
      <4>3. Tracks(t.registers[i], v, "none", 0) /\ t.registers[i].blkAddr = m.blkAddr
            /\ i \in Held(t)
        BY <1>1, <1>6, <3>1, <4>2 DEF w
      <4> QED BY <1>1, <4>3, OwnBlock
    <3>2. CASE ~Defers(g)
      <4>1. \A j \in Held(t) : t.registers[j].blkAddr # m.blkAddr
        BY <1>2, <1>3, <1>6, <3>2 DEF OnlyRegister, Only
      <4>2. Settled(v)
        BY <2>4, <3>2 DEF LeavesOf
      <4> QED BY <4>1, <4>2 DEF BlockOK
    <3> QED BY <3>1, <3>2
  <2> QED BY <2>2, <2>3, <2>4
<1> QED BY <1>7, <1>8 DEF AnswersTo, m, g

(* A register is a tick older.                                             *)
LEMMA OlderTracks ==
    ASSUME NEW A, NEW m \in Registers(A), NEW r, r = OlderMSHR(m),
           NEW b, NEW ans, NEW n, Tracks(m, b, ans, n)
    PROVE  Tracks(r, b, ans, n)
<1> DEFINE x == SoonerAll(m.targets)
           y == SoonerAll(m.deferredTargets)
           z == Sooner(m.readyTime)
<1>1. m.targets \in TargetLists /\ m.deferredTargets \in TargetLists /\ m.readyTime \in Nat
  BY RegisterFacts
<1>2. /\ x \in TargetLists /\ DOMAIN x.list = DOMAIN m.targets.list
      /\ x.needsExclusive = m.targets.needsExclusive
      /\ \A k \in DOMAIN m.targets.list : /\ x.list[k].cmd = m.targets.list[k].cmd
                                          /\ x.list[k].source = m.targets.list[k].source
  BY <1>1, SoonerFacts
<1>3. /\ y \in TargetLists /\ DOMAIN y.list = DOMAIN m.deferredTargets.list
      /\ y.needsExclusive = m.deferredTargets.needsExclusive
      /\ y.list = <<>> <=> m.deferredTargets.list = <<>>
      /\ \A k \in DOMAIN m.deferredTargets.list :
             /\ y.list[k].cmd = m.deferredTargets.list[k].cmd
             /\ y.list[k].source = m.deferredTargets.list[k].source
  BY <1>1, SoonerFacts
<1>4. r = [m EXCEPT !.readyTime = z, !.targets = x, !.deferredTargets = y]
  BY DEF OlderMSHR
<1>5. z \in Nat
  BY <1>1 DEF Sooner
<1> HIDE DEF x, y, z
<1>6. /\ r.inService = m.inService /\ r.targets = x /\ r.deferredTargets = y
      /\ r.postInvalidate = m.postInvalidate /\ r.pendingDirty = m.pendingDirty
  BY <1>4 DEF Registers
<1>7. Len(x.list) = Len(m.targets.list)
  BY <1>1, <1>2, ListFacts
<1>8. /\ StoreIn(x.list) <=> StoreIn(m.targets.list)
      /\ StoreIn(y.list) <=> StoreIn(m.deferredTargets.list)
      /\ SnoopsIn(x.list) = SnoopsIn(m.targets.list)
  BY <1>2, <1>3 DEF StoreIn, StoreTarget, SnoopsIn
<1>9. /\ ClaimEnds(m.targets.list) => ClaimEnds(x.list)
      /\ DirtyBefore(m.targets.list) => DirtyBefore(x.list)
      /\ (\E k \in DOMAIN m.targets.list : ClaimTarget(m.targets.list[k]))
             => \E k \in DOMAIN x.list : ClaimTarget(x.list[k])
  <2>1. ClaimEnds(m.targets.list) => ClaimEnds(x.list)
    BY <1>2, <1>7 DEF ClaimEnds, ClaimTarget
  <2>2. DirtyBefore(m.targets.list) => DirtyBefore(x.list)
    BY <1>2, <1>8 DEF DirtyBefore, StoreTarget
  <2>3. (\E k \in DOMAIN m.targets.list : ClaimTarget(m.targets.list[k]))
             => \E k \in DOMAIN x.list : ClaimTarget(x.list[k])
    BY <1>2 DEF ClaimTarget
  <2> QED BY <2>1, <2>2, <2>3
<1>10. WellAsked(r)
  BY <1>2, <1>3, <1>6, <1>8, <1>9 DEF Tracks, WellAsked, CountsStores
<1>11. WellAnswered(r, ans)
  BY <1>2, <1>6, <1>8, <1>9 DEF Tracks, WellAnswered
<1>12. OutOfSight(r, b) /\ n = SavedIn(r)
  BY <1>2, <1>6, <1>8 DEF Tracks, OutOfSight, SavedIn
<1> QED BY <1>10, <1>11, <1>12 DEF Tracks

LEMMA TickTracks ==
    \A s, ord, t : Misses(s, ord) /\ t = QueueTick(s) =>
        \A a, x, e, n : BlockOK(s, a, x, e, n) => BlockOK(t, a, x, e, n)
<1> SUFFICES ASSUME NEW s, NEW ord, NEW t, Misses(s, ord), t = QueueTick(s),
                    NEW a, NEW x, NEW e, NEW n, BlockOK(s, a, x, e, n)
             PROVE  BlockOK(t, a, x, e, n)
  OBVIOUS
<1>1. QueueInv(s, ord)
  BY MissesFacts
<1>2. Ages(s, t)
  BY <1>1, TickOK
<1>3. /\ Held(t) = Held(s)
      /\ \A j \in Held(s) : /\ t.registers[j] = OlderMSHR(s.registers[j])
                            /\ t.registers[j].blkAddr = s.registers[j].blkAddr
  BY <1>2 DEF Ages, Held, Aged, Alike
<1>4. \A j \in Held(s) : s.registers[j] \in Registers(Blocks)
  BY HeldFacts
<1>5. \A j \in Held(s) : Tracks(s.registers[j], x, e, n) => Tracks(t.registers[j], x, e, n)
  BY <1>3, <1>4, OlderTracks
<1> QED BY <1>3, <1>5 DEF BlockOK

(* A block loses status bits.                                              *)
LEMMA LessTracks ==
    ASSUME NEW s, NEW a, NEW x, NEW y, NEW e, NEW n, BlockOK(s, a, x, e, n),
           y \subseteq x, Settled(x) => Settled(y)
    PROVE  BlockOK(s, a, y, e, n)
<1>1. \A i \in Held(s) : Tracks(s.registers[i], x, e, n) => Tracks(s.registers[i], y, e, n)
  BY TrackLess
<1> QED BY <1>1 DEF BlockOK

(* An access hits no block that is on its way, and leaves it valid.        *)
LEMMA HitTracks ==
    ASSUME NEW s, NEW a, NEW x, NEW y, NEW e, NEW n, BlockOK(s, a, x, e, n),
           "Readable" \in x \/ "Writable" \in x,
           "Valid" \in x => "Valid" \in y, "Readable" \in x => "Readable" \in y
    PROVE  BlockOK(s, a, y, e, n)
<1>1. \A i \in Held(s) : s.registers[i].blkAddr # a
  BY DEF BlockOK, Tracks, OutOfSight, WellAsked, CountsStores
<1>2. n = 0 /\ Settled(x) /\ x # {}
  BY <1>1 DEF BlockOK
<1> QED BY <1>1, <1>2 DEF BlockOK, Settled

-----------------------------------------------------------------------------
(* The same for the write buffer.                                          *)
LEMMA WritesFacts ==
    \A s : WriteInv(s) =>
        /\ Base(WriteRegisters, s) /\ Typed(WriteRegisters)
        /\ s.allocated \in Nat /\ Times(s) \subseteq Nat
        /\ Elements(s.readyList) = Held(s) /\ 0 \notin Held(s)
        /\ isFull(s) <=> s.allocated >= NumEntries
        /\ \A i \in Held(s) : s.allocated > 0
<1> SUFFICES ASSUME NEW s, WriteInv(s)
             PROVE  /\ Base(WriteRegisters, s) /\ Typed(WriteRegisters)
                    /\ s.allocated \in Nat /\ Times(s) \subseteq Nat
                    /\ Elements(s.readyList) = Held(s) /\ 0 \notin Held(s)
                    /\ isFull(s) <=> s.allocated >= NumEntries
                    /\ \A i \in Held(s) : s.allocated > 0
  OBVIOUS
<1>1. /\ Base(WriteRegisters, s) /\ Typed(WriteRegisters) /\ s.allocated \in Nat
      /\ Elements(s.readyList) = Held(s) /\ Held(s) \subseteq Ids
  BY WriteFacts DEF Held
<1>2. Times(s) \subseteq Nat
  BY <1>1, NextTimes DEF Times
<1>3. 0 \notin Held(s)
  BY <1>1, SizeFacts DEF Ids
<1>4. isFull(s) <=> s.allocated >= NumEntries
  BY <1>1, RoomOK
<1>5. \A i \in Held(s) : s.allocated > 0
  BY <1>1, AllocatedCount DEF Held
<1> QED BY <1>1, <1>2, <1>3, <1>4, <1>5

LEMMA WritesNew ==
    \A s : s = NewQueue(NumEntries, Reserve, DemandReserve) =>
        WriteInv(s) /\ Times(s) = {} /\ s.allocated = 0
<1> SUFFICES ASSUME NEW s, s = NewQueue(NumEntries, Reserve, DemandReserve)
             PROVE  WriteInv(s) /\ Times(s) = {} /\ s.allocated = 0
  OBVIOUS
<1>1. WriteInv(s) /\ s.readyList = <<>> /\ s.allocated = 0
  BY WriteNewOK
<1>2. Times(s) = {}
  BY <1>1 DEF Times, Elements
<1> QED BY <1>1, <1>2

LEMMA WritesAllocate ==
    \A s, blk, when, ord, t :
        /\ WriteInv(s) /\ s.allocated < N /\ blk \in Addrs /\ when \in Nat /\ ord \in Nat
        /\ t = MSHRQueue_allocate(s, blk, "Writeback", when, ord)
        => WriteInv(t) /\ More1(s, t, when)
<1> SUFFICES ASSUME NEW s, NEW blk, NEW when, NEW ord, NEW t,
                    WriteInv(s), s.allocated < N, blk \in Addrs, when \in Nat, ord \in Nat,
                    t = MSHRQueue_allocate(s, blk, "Writeback", when, ord)
             PROVE  WriteInv(t) /\ More1(s, t, when)
  OBVIOUS
<1>1. Held(s) \subseteq Ids /\ Elements(s.readyList) = Held(s) /\ blk \in Blocks
  BY WriteFacts DEF Held, Blocks
<1>2. PICK i \in Ids : \E w : /\ WriteInv(t) /\ Takes(s, t, i, w)
                              /\ w.blkAddr = blk /\ w.readyTime = when
  BY <1>1, WriteAllocateOK
<1>3. PICK w : WriteInv(t) /\ Takes(s, t, i, w) /\ w.blkAddr = blk /\ w.readyTime = when
  BY <1>2
<1>4. /\ Only(s, t, i) /\ t.registers[i] = w /\ i \notin Held(s)
      /\ Held(t) = Held(s) \cup {i} /\ t.allocated = s.allocated + 1
      /\ Elements(t.readyList) = Elements(s.readyList) \cup {i}
  BY <1>3 DEF Takes, Held
<1>5. \A j \in Held(s) : t.registers[j] = s.registers[j]
  BY <1>1, <1>4 DEF Only
<1>6. Times(t) \subseteq Times(s) \cup {when}
  BY <1>1, <1>3, <1>4, <1>5 DEF Times
<1> QED BY <1>3, <1>4, <1>6 DEF More1

LEMMA WritesMark ==
    \A s, i, pd, t :
        /\ WriteInv(s) /\ i \in Held(s) /\ t = MSHRQueue_markInService(s, i, pd)
        => WriteInv(t) /\ Fewer1(s, t)
<1> SUFFICES ASSUME NEW s, NEW i, NEW pd, NEW t, WriteInv(s), i \in Held(s),
                    t = MSHRQueue_markInService(s, i, pd)
             PROVE  WriteInv(t) /\ Fewer1(s, t)
  OBVIOUS
<1>1. Held(s) \subseteq Ids /\ Elements(s.readyList) = Held(s)
  BY WriteFacts DEF Held
<1>2. WriteInv(t) /\ Frees(s, t, i)
  BY WriteMarkOK DEF Held
<1>3. /\ Only(s, t, i) /\ s.allocated > 0 /\ t.allocated = s.allocated - 1
      /\ Elements(t.readyList) = Elements(s.readyList) \ {i}
  BY <1>2 DEF Frees
<1>4. Times(t) \subseteq Times(s)
  BY <1>1, <1>3 DEF Times, Only
<1> QED BY <1>2, <1>3, <1>4 DEF Fewer1

LEMMA WritesTick ==
    \A s, t : WriteInv(s) /\ t = QueueTick(s) => WriteInv(t) /\ Sooner1(s, t)
<1> SUFFICES ASSUME NEW s, NEW t, WriteInv(s), t = QueueTick(s)
             PROVE  WriteInv(t) /\ Sooner1(s, t)
  OBVIOUS
<1>1. WriteInv(t) /\ WriteAges(s, t)
  BY WriteTickOK
<1>2. Elements(s.readyList) = Held(s)
  BY WriteFacts DEF Held
<1>3. /\ t.allocated = s.allocated /\ Held(t) = Held(s)
      /\ Elements(t.readyList) = Elements(s.readyList)
      /\ \A j \in Held(s) : t.registers[j].readyTime = Sooner(s.registers[j].readyTime)
  BY <1>1 DEF WriteAges, Held
<1>4. \A x \in Times(t) : \E y \in Times(s) : x = Sooner(y)
  BY <1>2, <1>3 DEF Times
<1> QED BY <1>1, <1>3, <1>4 DEF Sooner1
=============================================================================
